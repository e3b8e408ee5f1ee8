-------------------------- MODULE ToolCallsProofs --------------------------
(***************************************************************************)
(* Theorems about what surrounds a tool call: the read gate, the signing   *)
(* of mandates, the queue of approvals and the panel that shows it, each   *)
(* for every value of its constants and from an inductive invariant of its *)
(* own.                                                                    *)
(***************************************************************************)
EXTENDS ReadGate, MandateCeremony, ApprovalQueue, ApprovalPanel,
        FiniteSetTheorems, SequenceTheorems, TLAPS

-----------------------------------------------------------------------------
(* Numbers.                                                                 *)

\* A set of naturals that is not empty has a least element.
LEMMA LeastNatural ==
  ASSUME NEW S \in SUBSET Nat, S # {}
  PROVE  Min(S) \in S /\ \A y \in S : Min(S) <= y
<1>1. \E x \in S : \A y \in S : ~(<<y, x>> \in OpToRel(<, Nat))
  BY NatLessThanWellFounded, WFMin, Zenon
<1>2. \E x \in S : \A y \in S : ~(y < x)
  BY <1>1, Zenon DEF OpToRel
<1>3. \E x \in S : \A y \in S : x <= y
  BY <1>2
<1> QED
  BY <1>3 DEF Min

\* What a finite enumeration names has an upper bound.
LEMMA EnumerationIsBounded ==
  ASSUME NEW n \in Nat, NEW f \in [1 .. n -> Nat]
  PROVE  \E b \in Nat : \A i \in 1 .. n : f[i] <= b
<1> DEFINE BoundedTo(m) == \E b \in Nat : \A i \in 1 .. m : f[i] <= b
<1>1. BoundedTo(0)
  OBVIOUS
<1>2. ASSUME NEW m \in 0 .. n - 1, BoundedTo(m) PROVE BoundedTo(m + 1)
  <2>1. PICK b : b \in Nat /\ \A i \in 1 .. m : f[i] <= b
    BY <1>2
  <2>2. f[m + 1] \in Nat
    OBVIOUS
  <2>3. CASE b <= f[m + 1]
    <3>1. \A i \in 1 .. m + 1 : f[i] <= f[m + 1]
      <4> TAKE i \in 1 .. m + 1
      <4>1. i = m + 1 \/ i \in 1 .. m
        OBVIOUS
      <4>2. f[i] \in Nat
        OBVIOUS
      <4> QED
        BY <2>1, <2>2, <2>3, <4>1, <4>2
    <3> QED
      BY <2>2, <3>1
  <2>4. CASE ~(b <= f[m + 1])
    <3>1. \A i \in 1 .. m + 1 : f[i] <= b
      <4> TAKE i \in 1 .. m + 1
      <4>1. i = m + 1 \/ i \in 1 .. m
        OBVIOUS
      <4> QED
        BY <2>1, <2>2, <2>4, <4>1
    <3> QED
      BY <2>1, <3>1
  <2> QED
    BY <2>3, <2>4
<1> HIDE DEF BoundedTo
<1> DEFINE T == {m \in 0 .. n : ~BoundedTo(m)}
<1>3. T = {}
  <2> SUFFICES ASSUME T # {} PROVE FALSE
    OBVIOUS
  <2>1. PICK m : m \in T /\ \A y \in T : m <= y
    <3>1. T \in SUBSET Nat
      OBVIOUS
    <3> HIDE DEF T
    <3> QED
      BY <3>1, LeastNatural
  <2>2. m \in 1 .. n /\ m - 1 \in 0 .. n - 1 /\ ~(m <= m - 1) /\ m - 1 + 1 = m
    BY <1>1, <2>1
  <2>3. BoundedTo(m - 1)
    BY <2>1, <2>2
  <2> QED
    BY <1>2, <2>1, <2>2, <2>3
<1>4. BoundedTo(n)
  BY <1>3
<1> QED
  BY <1>4 DEF BoundedTo

\* A finite set of naturals that is not empty has a largest element.
LEMMA LargestNatural ==
  ASSUME NEW S \in SUBSET Nat, S # {}, IsFiniteSet(S)
  PROVE  Max(S) \in S /\ \A y \in S : y <= Max(S)
<1>1. PICK n \in Nat : ExistsSurjection(1 .. n, S)
  BY FS_NatSurjection
<1>2. PICK f \in [1 .. n -> S] : \A y \in S : \E i \in 1 .. n : f[i] = y
  BY <1>1 DEF ExistsSurjection, Surjection
<1>3. f \in [1 .. n -> Nat]
  OBVIOUS
<1> DEFINE U == {u \in Nat : \A y \in S : y <= u}
<1>4. U # {}
  <2>1. PICK b \in Nat : \A i \in 1 .. n : f[i] <= b
    BY <1>3, EnumerationIsBounded
  <2> QED
    BY <1>2, <2>1
<1>5. PICK u \in U : \A v \in U : u <= v
  BY <1>4, LeastNatural
<1>6. u \in S
  <2> SUFFICES ASSUME u \notin S PROVE FALSE
    OBVIOUS
  <2>1. \A y \in S : y <= u - 1
    <3> TAKE y \in S
    <3>1. y <= u /\ y # u /\ y \in Nat /\ u \in Nat
      BY <1>5
    <3> QED
      BY <3>1
  <2>2. u - 1 \in Nat
    <3>1. PICK y \in S : y <= u /\ y # u
      OBVIOUS
    <3> QED
      BY <3>1
  <2> QED
    BY <1>5, <2>1, <2>2
<1>7. \A y \in S : u >= y
  BY <1>5
<1> QED
  BY <1>6, <1>7 DEF Max

-----------------------------------------------------------------------------
(* A read call.                                                             *)

\* The window the policy in force resolves to.
PolicyWindow ==
  LET signed == MaxReadAgeDays(granted.held)
      ceiling == team \/ (tool.marked /\ \E m \in granted.held : m.v8)
  IN  IF ceiling /\ signed # Unset
      THEN IF granted.local = Unset THEN signed ELSE Min({granted.local, signed})
      ELSE IF granted.local = Unset THEN signed ELSE granted.local

\* What a call that was let through has been found to satisfy.
Accepted ==
  pc \in {"called", "answered", "age", "spam"} =>
    /\ unlocked /\ granted.held # {} /\ granted.held \subseteq Mandates
    /\ granted.local \in Windows \union {Unset}
    /\ \A m \in granted.held : m.complete
    /\ tool.gate => \E m \in granted.held : m.access
    /\ window = IF tool.age THEN PolicyWindow ELSE Unset
    /\ tool.age => window # Unset
    /\ tool.folder = "arg" => outgoing.folder \in AllowedResources(granted.held)
    /\ tool.by = "floor" /\ tool.age => outgoing.since # Unset /\ outgoing.since <= window

\* The inductive invariant of a read call.
ReadInv == ReadTypeOK /\ now \in Nat /\ Accepted /\ ReadsFollowThePolicy

\* The signed windows of mandates are finitely many days, and the widest of
\* them covers what any of them covers.
LEMMA WidestCovers ==
  ASSUME ReadAssumption, NEW ms \in SUBSET Mandates
  PROVE  /\ MaxReadAgeDays(ms) \in Windows \union {Unset}
         /\ MaxReadAgeDays(ms) # Unset <=> \E m \in ms : m.window # Unset
         /\ \A d \in Int : (MaxReadAgeDays(ms) # Unset /\ d <= MaxReadAgeDays(ms))
                             <=> \E m \in ms : m.window # Unset /\ d <= m.window
<1>1. SignedWindows(ms) \subseteq Windows /\ Windows \subseteq Nat
  BY DEF ReadAssumption, SignedWindows
<1>2. IsFiniteSet(SignedWindows(ms))
  BY <1>1, FS_Subset DEF ReadAssumption
<1>3. \A w : w \in SignedWindows(ms) <=> \E m \in ms : m.window = w /\ w # Unset
  BY DEF SignedWindows
<1>4. CASE SignedWindows(ms) = {}
  <2>1. MaxReadAgeDays(ms) = Unset
    BY <1>4 DEF MaxReadAgeDays
  <2> QED
    BY <1>3, <1>4, <2>1
<1>5. CASE SignedWindows(ms) # {}
  <2>1. MaxReadAgeDays(ms) \in SignedWindows(ms) /\ \A w \in SignedWindows(ms) : w <= MaxReadAgeDays(ms)
    BY <1>1, <1>2, <1>5, LargestNatural DEF MaxReadAgeDays
  <2>2. MaxReadAgeDays(ms) \in Nat /\ MaxReadAgeDays(ms) # Unset
    BY <1>1, <1>3, <2>1
  <2>3. ASSUME NEW d \in Int
        PROVE  d <= MaxReadAgeDays(ms) <=> \E m \in ms : m.window # Unset /\ d <= m.window
    <3>1. ASSUME d <= MaxReadAgeDays(ms)
          PROVE  \E m \in ms : m.window # Unset /\ d <= m.window
      BY <1>3, <2>1, <3>1
    <3>2. ASSUME NEW m \in ms, m.window # Unset, d <= m.window
          PROVE  d <= MaxReadAgeDays(ms)
      <4>1. m.window \in SignedWindows(ms)
        BY <1>3, <3>2
      <4>2. m.window \in Nat /\ m.window <= MaxReadAgeDays(ms)
        BY <1>1, <2>1, <4>1
      <4> QED
        BY <2>2, <3>2, <4>2
    <3> QED
      BY <3>1, <3>2
  <2>4. \E m \in ms : m.window # Unset
    BY <1>3, <2>1
  <2> QED
    BY <1>1, <2>1, <2>2, <2>3, <2>4
<1> QED
  BY <1>4, <1>5

\* The window decides item by item what the policy says of the item.
LEMMA WindowDecides ==
  ASSUME ReadAssumption, granted.held \subseteq Mandates, granted.local \in Windows \union {Unset},
         PolicyWindow # Unset, NEW item, AgeInDays(item) \in Int
  PROVE  AgeInDays(item) <= PolicyWindow <=> AgePermits(item)
<1> DEFINE signed == MaxReadAgeDays(granted.held)
           age == AgeInDays(item)
<1>1. /\ signed \in Windows \union {Unset}
      /\ signed # Unset <=> \E m \in granted.held : m.window # Unset
      /\ (signed # Unset /\ age <= signed)
            <=> \E m \in granted.held : m.window # Unset /\ age <= m.window
  BY WidestCovers
<1>2. Windows \subseteq Nat
  BY DEF ReadAssumption
<1>3. Covered(item) <=> signed # Unset /\ age <= signed
  BY <1>1 DEF Covered, Within
<1>4. Ceilinged <=> (team \/ (tool.marked /\ \E m \in granted.held : m.v8)) /\ signed # Unset
  BY <1>1 DEF Ceilinged
<1> HIDE DEF signed, age
<1>5. ASSUME NEW a \in Nat, NEW b \in Nat PROVE age <= Min({a, b}) <=> age <= a /\ age <= b
  <2>1. Min({a, b}) \in {a, b} /\ \A y \in {a, b} : Min({a, b}) <= y
    <3>1. {a, b} \in SUBSET Nat /\ {a, b} # {}
      OBVIOUS
    <3> QED
      BY <3>1, LeastNatural
  <2> QED
    BY <2>1 DEF age
<1> QED
  BY <1>1, <1>2, <1>3, <1>4, <1>5 DEF PolicyWindow, AgePermits, Within, signed, age

-----------------------------------------------------------------------------
\* A call is refused for the first reason that applies, and let through if
\* none does.
LEMMA RefusedOrFree ==
  ASSUME NEW days
  PROVE  /\ Refusals(days) # {} =>
              Reasons(days)[Min(Refusals(days))].code \in
                {"locked", "ungoverned", "no mandate", "read_gate", "unset_age", "resource",
                 "age_window", "query_unsafe"}
         /\ Refusals(days) = {} =>
              /\ unlocked /\ Matching # {}
              /\ tool.gate => \E m \in Matching : m.access
              /\ tool.age => days # Unset
              /\ tool.folder = "arg" => Requested \in AllowedResources(Matching)
<1> DEFINE codes == {"locked", "ungoverned", "no mandate", "read_gate", "unset_age", "resource",
                     "age_window", "query_unsafe"}
<1>1. DOMAIN Reasons(days) = 1 .. 8
  BY DEF Reasons
<1>0. /\ Reasons(days)[1].code = "locked" /\ Reasons(days)[2].code = "ungoverned"
      /\ Reasons(days)[3].code = "no mandate" /\ Reasons(days)[4].code = "read_gate"
      /\ Reasons(days)[5].code = "unset_age" /\ Reasons(days)[6].code = "resource"
      /\ Reasons(days)[7].code = "age_window" /\ Reasons(days)[8].code = "query_unsafe"
  BY DEF Reasons
<1>6. 1 .. 8 = {1, 2, 3, 4, 5, 6, 7, 8}
  OBVIOUS
<1>2. \A i \in 1 .. 8 : Reasons(days)[i].code \in codes
  BY <1>0, <1>6
<1>4. Refusals(days) # {} => Min(Refusals(days)) \in 1 .. 8
  <2>1. Refusals(days) \in SUBSET Nat /\ Refusals(days) \subseteq 1 .. 8
    BY <1>1 DEF Refusals
  <2> QED
    BY <2>1, LeastNatural
<1>5. ASSUME Refusals(days) = {}
      PROVE  /\ unlocked /\ Matching # {}
             /\ tool.gate => \E m \in Matching : m.access
             /\ tool.age => days # Unset
             /\ tool.folder = "arg" => Requested \in AllowedResources(Matching)
  <2>1. \A i \in 1 .. 8 : ~Reasons(days)[i].holds
    BY <1>1, <1>5 DEF Refusals
  <2>2. ~Reasons(days)[1].holds /\ ~Reasons(days)[3].holds /\ ~Reasons(days)[4].holds
        /\ ~Reasons(days)[5].holds /\ ~Reasons(days)[6].holds
    BY <2>1
  <2> QED
    BY <2>2 DEF Reasons
<1> QED
  BY <1>1, <1>2, <1>4, <1>5

\* Asked, with nothing decided.
LEMMA ReadInvInit == ASSUME ReadAssumption, ReadInit PROVE ReadInv
<1>1. ReadTypeOK
  BY DEF ReadAssumption, ReadInit, ReadTypeOK, Requests, Unset, NoFolder
<1>2. now \in Nat /\ Accepted /\ ReadsFollowThePolicy
  BY DEF ReadInit, Accepted, ReadsFollowThePolicy, ReadsAreGranted, InsideTheFolders,
       InsideTheWindow, Returned, CoveredIsReadable
<1> QED
  BY <1>1, <1>2 DEF ReadInv

\* The decision records the policy and the window it is taken under, and lets
\* through only what the policy grants.
LEMMA DecideStep == ASSUME ReadAssumption, ReadInv, Decide PROVE ReadInv'
<1>1. ReadTypeOK /\ now \in Nat /\ pc = "asked"
  BY DEF ReadInv, Decide
<1>2. /\ granted' = [held |-> Matching, local |-> local]
      /\ window' = IF tool.age THEN ReadMaxAge ELSE Unset
      /\ UNCHANGED <<tool, request, unlocked, team, held, local, now, result, changes>>
  BY DEF Decide, call
<1>3. granted'.held = Matching /\ granted'.local = local
  BY <1>2
<1>4. PolicyWindow' = ReadMaxAge
  BY <1>2, <1>3 DEF PolicyWindow, ReadMaxAge, Ceiling, MaxReadAgeDays, SignedWindows
<1>5. Matching \subseteq Mandates /\ \A m \in Matching : m.complete
  BY <1>1 DEF Matching, ReadTypeOK
<1>6. ReadMaxAge \in Windows \union {Unset} /\ Windows \subseteq Nat
  <2>1. MaxReadAgeDays(Matching) \in Windows \union {Unset} /\ Windows \subseteq Nat
    BY <1>5, WidestCovers DEF ReadAssumption
  <2>2. local \in Windows \union {Unset}
    BY <1>1 DEF ReadTypeOK
  <2>3. \A a, b \in Windows : Min({a, b}) \in Windows
    <3> TAKE a, b \in Windows
    <3>1. {a, b} \in SUBSET Nat /\ {a, b} # {}
      BY <2>1
    <3>2. Min({a, b}) \in {a, b}
      BY <3>1, LeastNatural
    <3> QED
      BY <3>2
  <2> QED
    BY <2>1, <2>2, <2>3 DEF ReadMaxAge
<1>7. window' \in Windows \union {Unset}
  BY <1>2, <1>6
<1>8. Requested \in Folders \union {"primary"} /\ request \in Requests
  BY <1>1 DEF Requested, ReadTypeOK, Requests
<1>9. CASE Refusals(window') = {}
  <2>1. pc' = "called" /\ outgoing' = Outgoing(window')
    BY <1>9 DEF Decide
  <2>2. /\ unlocked /\ Matching # {}
        /\ tool.gate => \E m \in Matching : m.access
        /\ tool.age => window' # Unset
        /\ tool.folder = "arg" => Requested \in AllowedResources(Matching)
    BY <1>9, RefusedOrFree
  <2>3. /\ tool.folder = "arg" => outgoing'.folder = Requested
        /\ outgoing'.folder \in {request.folder, Requested}
        /\ outgoing'.item = request.item /\ outgoing'.fragment = request.fragment
        /\ outgoing'.since \in {request.since} \union {window'}
        /\ tool.folder # "arg" => outgoing'.folder = request.folder
        /\ tool.by = "floor" /\ tool.age => outgoing'.since = ClampAgeFloor(request.since, window')
        /\ outgoing' = [item |-> outgoing'.item, folder |-> outgoing'.folder,
                        fragment |-> outgoing'.fragment, since |-> outgoing'.since]
    BY <1>8, <2>1 DEF Outgoing, Requests, ClampAgeFloor
  <2>4. outgoing' \in Requests
    <3>1. request.item \in Items /\ request.folder \in Folders \union {NoFolder}
          /\ request.fragment \in Fragments /\ request.since \in Windows \union {Unset}
      BY <1>8 DEF Requests
    <3>2. tool.folder = "arg" => Requested \in Folders
      BY <1>5, <2>2 DEF AllowedResources, ReadAssumption
    <3> QED
      BY <1>7, <2>3, <3>1, <3>2 DEF Requests
  <2>7. tool.by = "floor" /\ tool.age => outgoing'.since # Unset /\ outgoing'.since <= window'
    <3>1. request.since \in Windows \union {Unset}
      BY <1>8 DEF Requests
    <3> QED
      BY <1>6, <1>7, <2>2, <2>3, <3>1 DEF ClampAgeFloor, Unset
  <2>8. AllowedResources(Matching) = AllowedResources(granted.held)'
    BY <1>3 DEF AllowedResources
  <2>9. Accepted'
    BY <1>2, <1>3, <1>4, <1>5, <1>1, <2>1, <2>2, <2>3, <2>7, <2>8 DEF Accepted, ReadTypeOK
  <2>5. ReadTypeOK'
    BY <1>1, <1>2, <1>7, <2>1, <2>4 DEF ReadTypeOK, Requests
  <2>6. ReadsFollowThePolicy'
    BY <1>2, <1>3, <2>1, <2>9
       DEF Accepted, ReadsFollowThePolicy, ReadsAreGranted, InsideTheFolders, InsideTheWindow, Returned,
           CoveredIsReadable
  <2> QED
    BY <1>1, <1>2, <2>9, <2>5, <2>6 DEF ReadInv
<1>10. CASE Refusals(window') # {}
  <2>1. pc' \in {"locked", "ungoverned", "no mandate", "read_gate", "unset_age", "resource",
                 "age_window", "query_unsafe"} /\ UNCHANGED outgoing
    BY <1>10, RefusedOrFree DEF Decide
  <2>2. ReadTypeOK'
    BY <1>1, <1>2, <1>7, <2>1 DEF ReadTypeOK, Requests
  <2>3. Accepted' /\ ReadsFollowThePolicy'
    BY <2>1 DEF Accepted, ReadsFollowThePolicy, ReadsAreGranted, InsideTheFolders, InsideTheWindow,
                Returned, CoveredIsReadable
  <2> QED
    BY <1>1, <1>2, <2>2, <2>3 DEF ReadInv
<1> QED
  BY <1>9, <1>10

\* The connector is asked with the arguments that were decided on, and what it
\* answers is held against the policy that was recorded.
LEMMA ReadAnswersStep == ASSUME ReadAssumption, ReadInv, ReadAnswers PROVE ReadInv'
<1>1. ReadTypeOK /\ now \in Nat /\ Accepted /\ pc = "called"
  BY DEF ReadInv, ReadAnswers
<1>2. /\ pc' = IF BlockedItems(Found) THEN "spam" ELSE IF TooOld(Found) THEN "age" ELSE "answered"
      /\ result' = IF pc' = "answered" THEN Visible(Found) ELSE {}
      /\ UNCHANGED <<tool, request, unlocked, team, held, local, now, window, outgoing, granted, changes>>
  BY DEF ReadAnswers, call
<1>3. /\ unlocked /\ granted.held # {} /\ granted.held \subseteq Mandates
      /\ granted.local \in Windows \union {Unset}
      /\ \A m \in granted.held : m.complete
      /\ tool.gate => \E m \in granted.held : m.access
      /\ window = IF tool.age THEN PolicyWindow ELSE Unset
      /\ tool.age => window # Unset
      /\ tool.folder = "arg" => outgoing.folder \in AllowedResources(granted.held)
      /\ tool.by = "floor" /\ tool.age => outgoing.since # Unset /\ outgoing.since <= window
  BY <1>1 DEF Accepted
<1>4. Found \subseteq Items /\ \A item \in Found : InFolder(item)
  BY <1>1 DEF Found, ReadTypeOK, Requests, ReadAssumption
<1>5. /\ \A item \in Items : now - item.stamp \in Int /\ AgeInDays(item) \in Int
      /\ \A item \in Items : \A d \in Nat : ~Older(item, d) => AgeInDays(item) <= d
  BY <1>1 DEF ReadAssumption, AgeInDays, Older, Day
<1>6. /\ Windows \subseteq Nat /\ window \in Windows \union {Unset}
      /\ outgoing.since \in Windows \union {Unset} /\ request.item \in Items
  BY <1>1 DEF ReadAssumption, ReadTypeOK, Requests
<1>7. tool.age => \A item \in Items : AgeInDays(item) <= window <=> AgePermits(item)
  BY <1>3, <1>5, WindowDecides
<1>8. \A item \in Items : AgePermits(item)' = AgePermits(item)
  BY <1>2 DEF AgePermits, Ceilinged, Covered, Within, AgeInDays
<1>9. Accepted'
  BY <1>2, <1>3 DEF Accepted, PolicyWindow
<1>10. result' \subseteq Found
  BY <1>2 DEF Visible
<1>11. ReadTypeOK'
  BY <1>1, <1>2, <1>4, <1>10 DEF ReadTypeOK, Requests
<1>12. ReadsAreGranted'
  BY <1>2, <1>3 DEF ReadsAreGranted
<1>13. InsideTheFolders'
  <2> SUFFICES ASSUME pc' = "answered", NEW item \in result'
               PROVE  /\ tool.folder # "none" => item.folder \in AllowedResources(granted.held)
                      /\ tool.blocks /\ tool.by \in {"get", "query"} => ~item.spam
    BY <1>2 DEF InsideTheFolders, Returned, AllowedResources
  <2>1. tool.folder = "arg" => item.folder \in AllowedResources(granted.held)
    BY <1>3, <1>4, <1>10 DEF InFolder
  <2>2. tool.folder = "result" => item.folder \in AllowedResources(granted.held)
    BY <1>2 DEF Visible
  <2>3. tool.folder \in {"none", "arg", "result"}
    BY <1>1 DEF ReadTypeOK, ReadAssumption
  <2>4. tool.blocks /\ tool.by = "get" => ~item.spam
    BY <1>2, <1>10 DEF BlockedItems
  <2>5. tool.blocks /\ tool.by = "query" => ~item.spam
    BY <1>10 DEF Found, MatchesQuery
  <2> QED
    BY <2>1, <2>2, <2>3, <2>4, <2>5
<1>14. InsideTheWindow'
  <2> SUFFICES ASSUME pc' = "answered", tool.age, NEW item \in result', item \in Items,
                      tool.by \in {"get", "query", "floor"}
               PROVE  AgeInDays(item) <= window /\ (tool.by = "get" => item.dated)
    BY <1>2, <1>4, <1>7, <1>8, <1>10 DEF InsideTheWindow, Bounded, Returned
  <2>1. CASE tool.by = "get"
    <3>1. ~IsOlderThanMaxAge(item, window)
      BY <1>2, <1>10, <2>1 DEF TooOld
    <3> QED
      BY <1>5, <1>6, <1>3, <3>1 DEF IsOlderThanMaxAge
  <2>2. CASE tool.by = "query"
    <3>1. ~Older(item, window)
      BY <1>3, <1>10, <2>2 DEF Found, MatchesQuery
    <3> QED
      BY <1>3, <1>5, <1>6, <2>2, <3>1
  <2>3. CASE tool.by = "floor"
    <3>1. ~Older(item, outgoing.since)
      BY <1>3, <1>10, <2>3 DEF Found
    <3>2. AgeInDays(item) <= outgoing.since
      BY <1>3, <1>5, <1>6, <2>3, <3>1
    <3>3. outgoing.since \in Nat /\ window \in Nat /\ outgoing.since <= window /\ AgeInDays(item) \in Int
      BY <1>3, <1>5, <1>6, <2>3
    <3> QED
      BY <2>3, <3>2, <3>3
  <2> QED
    BY <2>1, <2>2, <2>3
<1>15. CoveredIsReadable'
  <2> SUFFICES ASSUME pc' = "age"
               PROVE  /\ tool.by = "get"
                      /\ ~request.item.dated \/ ~AgePermits(request.item) \/ ~InFolder(request.item)
    BY <1>2, <1>6, <1>8 DEF CoveredIsReadable, InFolder
  <2>1. TooOld(Found)
    BY <1>2
  <2>2. Found = {item \in {request.item} : InFolder(item)}
    BY <2>1 DEF TooOld, Found
  <2> QED
    BY <1>3, <1>5, <1>6, <1>7, <2>1, <2>2 DEF TooOld, IsOlderThanMaxAge
<1> QED
  BY <1>1, <1>2, <1>9, <1>11, <1>12, <1>13, <1>14, <1>15 DEF ReadInv, ReadsFollowThePolicy

\* What happens meanwhile is not looked at any more, and nothing happens after
\* the answer.
LEMMA MeanwhileStep ==
  ASSUME ReadAssumption, ReadInv, SetReadAge \/ Sync \/ Tick \/ UNCHANGED readVars
  PROVE  ReadInv'
<1>1. ReadTypeOK /\ now \in Nat /\ Accepted /\ ReadsFollowThePolicy
  BY DEF ReadInv
<1>2. ASSUME UNCHANGED readVars PROVE ReadInv'
  <2>1. ReadTypeOK' /\ now' \in Nat
    BY <1>1, <1>2 DEF readVars, ReadTypeOK, Requests
  <2>2. Accepted'
    BY <1>1, <1>2 DEF readVars, Accepted, PolicyWindow
  <2>3. \A item : AgePermits(item)' = AgePermits(item) /\ InFolder(item)' = InFolder(item)
    BY <1>2 DEF readVars, AgePermits, Ceilinged, Covered, Within, AgeInDays, InFolder
  <2>4. ReadsFollowThePolicy'
    BY <1>1, <1>2, <2>3 DEF readVars, ReadsFollowThePolicy, ReadsAreGranted, InsideTheFolders,
       InsideTheWindow, CoveredIsReadable, Returned, Bounded
  <2> QED
    BY <2>1, <2>2, <2>4 DEF ReadInv
<1>3. ASSUME SetReadAge \/ Sync \/ Tick PROVE ReadInv'
  <2>1. UNCHANGED <<tool, request, unlocked, team, pc, window, outgoing, result, granted>>
        /\ pc \in {"asked", "called"}
    BY <1>3 DEF SetReadAge, Sync, Tick, call, Underway
  <2>2. now' \in Nat /\ held' \subseteq Mandates /\ local' \in Windows \union {Unset}
    <3>1. now \in Nat /\ held \subseteq Mandates /\ local \in Windows \union {Unset}
      BY <1>1 DEF ReadTypeOK
    <3>2. CASE SetReadAge
      BY <3>1, <3>2 DEF SetReadAge
    <3>3. CASE Sync
      BY <3>1, <3>3 DEF Sync
    <3>4. CASE Tick
      BY <3>1, <3>4 DEF Tick
    <3> QED
      BY <1>3, <3>2, <3>3, <3>4
  <2>3. ReadTypeOK'
    BY <1>1, <2>1, <2>2 DEF ReadTypeOK, Requests
  <2>4. Accepted'
    BY <1>1, <2>1 DEF Accepted, PolicyWindow
  <2>5. ReadsFollowThePolicy'
    BY <1>1, <2>1 DEF ReadsFollowThePolicy, ReadsAreGranted, InsideTheFolders, InsideTheWindow,
       CoveredIsReadable, Returned
  <2> QED
    BY <2>2, <2>3, <2>4, <2>5 DEF ReadInv
<1> QED
  BY <1>2, <1>3

\* For any tools, mandates, windows and items: a read call keeps its types.
THEOREM ReadTypes == ASSUME ReadAssumption PROVE ReadSpec => []ReadTypeOK
<1>1. ReadInit => ReadInv
  BY ReadInvInit
<1>2. ReadInv /\ [ReadNext]_readVars => ReadInv'
  BY DecideStep, ReadAnswersStep, MeanwhileStep DEF ReadNext
<1>3. ReadInv => ReadTypeOK
  BY DEF ReadInv
<1> QED
  BY <1>1, <1>2, <1>3, PTL DEF ReadSpec

\* For any tools, mandates, windows, items and clocks, and whatever the owner
\* changes while the call is under way: what a read returns was granted, lies in
\* the folders and within the window of the policy the call was accepted under,
\* and what that policy covers is not refused by its id (read-gate.ts and the
\* read branch of tool-proxy.ts).
THEOREM PolicyHolds == ASSUME ReadAssumption PROVE ReadSpec => []ReadsFollowThePolicy
<1>1. ReadInit => ReadInv
  BY ReadInvInit
<1>2. ReadInv /\ [ReadNext]_readVars => ReadInv'
  BY DecideStep, ReadAnswersStep, MeanwhileStep DEF ReadNext
<1>3. ReadInv => ReadsFollowThePolicy
  BY DEF ReadInv
<1> QED
  BY <1>1, <1>2, <1>3, PTL DEF ReadSpec

-----------------------------------------------------------------------------
(* The signing of mandates.                                                 *)

\* The mandates of the page that are to come do not exist yet, and neither does
\* the tool's before it is signed.
NotYetSigned ==
  /\ \A i \in 1 .. MaxSignings : i > signings => grant[i] = "none"
  /\ \A c \in Ceremony : step[c] \in {"idle", "checks", "sign"} /\ ~(c = "page" /\ step[c] = "idle")
       => grant[Of(c)] = "none"

\* Between signing and telling, the mandate is active; what is being retired
\* has its successor in place.
InPlace ==
  /\ \A c \in Ceremony : step[c] \in {"deliver", "revoke"} => grant[Of(c)] = "active"
  /\ step["page"] \in {"retire", "read", "withdraw"} =>
       grant[signings] = "active" /\ signings \in delivered

\* The page is about a mandate of its own, unless it has signed nothing.
OnesOwn ==
  /\ step["tool"] \notin {"open", "retire", "read", "withdraw"}
  /\ step["page"] # "done"
  /\ step["page"] \notin {"idle", "open"} \/ said["page"] # "nothing" => signings > 0
  /\ step["tool"] # "done" => said["tool"] = "nothing"
  /\ step["page"] \notin {"idle", "open"} => said["page"] = "nothing"

\* Who never met trouble is signed in.
Untroubled == troubles = 0 => session

\* What was there before keeps its content.
OldIsKept == Old \in delivered

\* The inductive invariant of the signing.
CeremonyInv ==
  /\ SigningTypeOK /\ NotYetSigned /\ InPlace /\ OnesOwn /\ Untroubled /\ OldIsKept
  /\ NoneWithoutContent /\ SaidIsTrue

\* The types, by what proves them.
SigningValues ==
  /\ proposal \in {"pending", "approved", "rejected", "replaced"}
  /\ grant \in [Id -> {"none", "active", "revoked"}]
  /\ delivered \subseteq Id
  /\ step \in [Ceremony -> {"idle", "open", "checks", "sign", "deliver", "revoke",
                            "retire", "read", "withdraw", "done"}]
  /\ said \in [Ceremony -> Told]
  /\ signings \in 0 .. MaxSignings
  /\ troubles \in 0 .. MaxTroubles
\* The flags, and what the caller has heard.
SigningFlags ==
  /\ session \in BOOLEAN /\ agentEditReplaces \in BOOLEAN /\ agentReplacesProposal \in BOOLEAN
  /\ opened \in {"nothing", "new", "copy", "edit", "proposal"}
  /\ heard \in Told \cup {"waiting", "unreachable"}

\* As the page opens, nothing has been signed.
LEMMA CeremonyInvInit == ASSUME CeremonyAssumption, SigningInit PROVE CeremonyInv
<1>1. SigningValues
  BY DEF CeremonyAssumption, SigningInit, SigningValues, Id, Old, Tool, Ceremony, Told
<1>2. SigningFlags
  BY Zenon DEF SigningInit, SigningFlags, Told
<1>3. NotYetSigned /\ InPlace /\ OnesOwn /\ OldIsKept
  <2>1. NotYetSigned
    <3>1. \A i \in 1 .. MaxSignings : grant[i] = "none"
      BY DEF CeremonyAssumption, SigningInit, Id, Old, Tool
    <3>2. grant[Tool] = "none" /\ step["page"] = "idle"
      BY DEF CeremonyAssumption, SigningInit, Id, Old, Tool, Ceremony
    <3> QED
      BY <3>1, <3>2 DEF NotYetSigned, Of, Ceremony
  <2>2. InPlace
    BY DEF SigningInit, InPlace, Ceremony
  <2>3. OnesOwn
    BY DEF SigningInit, OnesOwn, Ceremony
  <2> QED
    BY <2>1, <2>2, <2>3 DEF SigningInit, OldIsKept
<1>4. NoneWithoutContent /\ SaidIsTrue
  BY DEF CeremonyAssumption, SigningInit, NoneWithoutContent, SaidIsTrue, Of, Id, Old, Tool,
         Ceremony, Told
<1>5. Untroubled
  BY Zenon DEF SigningInit, Untroubled
<1> QED
  BY <1>1, <1>2, <1>3, <1>4, <1>5 DEF CeremonyInv, SigningTypeOK, SigningValues, SigningFlags

\* The types of what is counted and signed.
LEMMA SigningValuesStep ==
  ASSUME CeremonyAssumption, SigningValues, [SigningNext]_signingVars
  PROVE  SigningValues'
<1> USE DEF CeremonyAssumption, SigningValues, Id, Old, Tool, Ceremony, Told, storage,
        Of, Goes, CeremonyEnds, Trouble, NoTrouble
<1>1. CASE Open
  BY <1>1 DEF Open, OpenNew, OpenCopy, OpenEdit, OpenProposal
<1>2. CASE Commit
  BY <1>2 DEF Commit
<1>3. CASE ProposalDecided
  BY <1>3 DEF ProposalDecided
<1>4. CASE SignOut
  BY <1>4 DEF SignOut
<1>5. CASE SignIn
  BY <1>5 DEF SignIn
<1>6. CASE ToolCalled
  BY <1>6 DEF ToolCalled
<1>7. CASE ToolAnswered
  BY <1>7 DEF ToolAnswered
<1>8. CASE ToolTimesOut
  BY <1>8 DEF ToolTimesOut
<1>9. ASSUME NEW c \in Ceremony, Checks(c) PROVE SigningValues'
  BY <1>9 DEF Checks
<1>10. ASSUME NEW c \in Ceremony, Signed(c) PROVE SigningValues'
  BY <1>10 DEF Signed
<1>11. ASSUME NEW c \in Ceremony, SignRefused(c) PROVE SigningValues'
  BY <1>11 DEF SignRefused
<1>12. ASSUME NEW c \in Ceremony, SignLost(c) PROVE SigningValues'
  BY <1>12 DEF SignLost
<1>13. ASSUME NEW c \in Ceremony, Delivered(c) PROVE SigningValues'
  BY <1>13 DEF Delivered
<1>14. ASSUME NEW c \in Ceremony, DeliveryFails(c) PROVE SigningValues'
  BY <1>14 DEF DeliveryFails
<1>15. ASSUME NEW c \in Ceremony, Revoke(c) PROVE SigningValues'
  BY <1>15 DEF Revoke
<1>16. ASSUME NEW c \in Ceremony, Cut(c) PROVE SigningValues'
  BY <1>16 DEF Cut
<1>17. CASE Retire
  BY <1>17 DEF Retire, Finish
<1>18. CASE ReadProposal
  BY <1>18 DEF ReadProposal, Finish
<1>19. CASE Withdraw
  BY <1>19 DEF Withdraw, Finish
<1>20. CASE UNCHANGED signingVars
  BY <1>20 DEF signingVars
<1> QED
  BY <1>1, <1>2, <1>3, <1>4, <1>5, <1>6, <1>7, <1>8, <1>9, <1>10, <1>11, <1>12, <1>13,
       <1>14, <1>15, <1>16, <1>17, <1>18, <1>19, <1>20 DEF SigningNext

\* The types of flags and of what is told.
LEMMA SigningFlagsStep ==
  ASSUME SigningTypeOK, [SigningNext]_signingVars
  PROVE  SigningFlags'
<1> USE DEF SigningTypeOK, SigningFlags, Ceremony, Told, storage
<1>1. CASE Open
  BY Zenon, <1>1 DEF Open, OpenNew, OpenCopy, OpenEdit, OpenProposal
<1>2. CASE Commit
  BY Zenon, <1>2 DEF Commit
<1>3. CASE ProposalDecided
  BY Zenon, <1>3 DEF ProposalDecided
<1>4. CASE SignOut
  BY Zenon, <1>4 DEF SignOut
<1>5. CASE SignIn
  BY Zenon, <1>5 DEF SignIn
<1>6. CASE ToolCalled
  BY Zenon, <1>6 DEF ToolCalled
<1>7. CASE ToolAnswered
  BY Zenon, <1>7 DEF ToolAnswered
<1>8. CASE ToolTimesOut
  BY Zenon, <1>8 DEF ToolTimesOut
<1>9. ASSUME NEW c \in Ceremony, Checks(c) PROVE SigningFlags'
  BY Zenon, <1>9 DEF Checks
<1>10. ASSUME NEW c \in Ceremony, Signed(c) PROVE SigningFlags'
  BY Zenon, <1>10 DEF Signed
<1>11. ASSUME NEW c \in Ceremony, SignRefused(c) PROVE SigningFlags'
  BY Zenon, <1>11 DEF SignRefused
<1>12. ASSUME NEW c \in Ceremony, SignLost(c) PROVE SigningFlags'
  BY Zenon, <1>12 DEF SignLost
<1>13. ASSUME NEW c \in Ceremony, Delivered(c) PROVE SigningFlags'
  BY Zenon, <1>13 DEF Delivered
<1>14. ASSUME NEW c \in Ceremony, DeliveryFails(c) PROVE SigningFlags'
  BY Zenon, <1>14 DEF DeliveryFails
<1>15. ASSUME NEW c \in Ceremony, Revoke(c) PROVE SigningFlags'
  BY Zenon, <1>15 DEF Revoke
<1>16. ASSUME NEW c \in Ceremony, Cut(c) PROVE SigningFlags'
  BY Zenon, <1>16 DEF Cut
<1>17. CASE Retire
  BY Zenon, <1>17 DEF Retire, Finish
<1>18. CASE ReadProposal
  BY Zenon, <1>18 DEF ReadProposal, Finish
<1>19. CASE Withdraw
  BY Zenon, <1>19 DEF Withdraw, Finish
<1>20. CASE UNCHANGED signingVars
  BY Zenon, <1>20 DEF signingVars
<1> QED
  BY <1>1, <1>2, <1>3, <1>4, <1>5, <1>6, <1>7, <1>8, <1>9, <1>10, <1>11, <1>12, <1>13,
       <1>14, <1>15, <1>16, <1>17, <1>18, <1>19, <1>20 DEF SigningNext

\* What the signing relies on is kept by every step.
LEMMA PartsStep ==
  ASSUME CeremonyAssumption, SigningValues, SigningValues', [SigningNext]_signingVars,
         OnesOwn, Untroubled, OldIsKept, NotYetSigned, InPlace, SaidIsTrue, NoneWithoutContent
  PROVE  /\ OnesOwn' /\ Untroubled' /\ OldIsKept' /\ NotYetSigned' /\ InPlace'
         /\ SaidIsTrue' /\ NoneWithoutContent'
         /\ RetiresAfterTheNew /\ OpenIsSaid
<1> USE DEF CeremonyAssumption, SigningValues, Id, Old, Tool, Ceremony, Told, storage,
        Of, Goes, CeremonyEnds, Trouble, NoTrouble, OnesOwn, Untroubled, OldIsKept,
        NotYetSigned, InPlace, SaidIsTrue, NoneWithoutContent, Over, RetiresAfterTheNew,
        OpenIsSaid
<1> DEFINE Kept == /\ OnesOwn' /\ Untroubled' /\ OldIsKept' /\ NotYetSigned' /\ InPlace'
                   /\ SaidIsTrue' /\ NoneWithoutContent' /\ RetiresAfterTheNew /\ OpenIsSaid
<1>1. ASSUME Open PROVE Kept
  BY <1>1 DEF Open, OpenNew, OpenCopy, OpenEdit, OpenProposal
<1>2. ASSUME Commit PROVE Kept
  BY <1>2 DEF Commit
<1>3. ASSUME ProposalDecided PROVE Kept
  BY <1>3 DEF ProposalDecided
<1>4. ASSUME SignOut PROVE Kept
  BY <1>4 DEF SignOut
<1>5. ASSUME SignIn PROVE Kept
  BY <1>5 DEF SignIn
<1>6. ASSUME ToolCalled PROVE Kept
  BY <1>6 DEF ToolCalled
<1>7. ASSUME ToolAnswered PROVE Kept
  BY <1>7 DEF ToolAnswered
<1>8. ASSUME ToolTimesOut PROVE Kept
  BY <1>8 DEF ToolTimesOut
<1>9. ASSUME NEW c \in Ceremony, Checks(c) PROVE Kept
  BY <1>9 DEF Checks
<1>10. ASSUME NEW c \in Ceremony, Signed(c) PROVE Kept
  BY <1>10 DEF Signed
<1>11. ASSUME NEW c \in Ceremony, SignRefused(c) PROVE Kept
  BY <1>11 DEF SignRefused
<1>12. ASSUME NEW c \in Ceremony, SignLost(c) PROVE Kept
  BY <1>12 DEF SignLost
<1>13. ASSUME NEW c \in Ceremony, Delivered(c) PROVE Kept
  BY <1>13 DEF Delivered
<1>14. ASSUME NEW c \in Ceremony, DeliveryFails(c) PROVE Kept
  BY <1>14 DEF DeliveryFails
<1>15. ASSUME NEW c \in Ceremony, Revoke(c) PROVE Kept
  BY <1>15 DEF Revoke
<1>16. ASSUME NEW c \in Ceremony, Cut(c) PROVE Kept
  BY <1>16 DEF Cut
<1>17. ASSUME Retire PROVE Kept
  BY <1>17 DEF Retire, Finish
<1>18. ASSUME ReadProposal PROVE Kept
  BY <1>18 DEF ReadProposal, Finish
<1>19. ASSUME Withdraw PROVE Kept
  BY <1>19 DEF Withdraw, Finish
<1>20. ASSUME UNCHANGED signingVars PROVE Kept
  BY <1>20 DEF signingVars
<1> HIDE DEF Kept
<1> QED
  BY <1>1, <1>2, <1>3, <1>4, <1>5, <1>6, <1>7, <1>8, <1>9, <1>10, <1>11, <1>12, <1>13,
       <1>14, <1>15, <1>16, <1>17, <1>18, <1>19, <1>20 DEF SigningNext, Kept

\* Every step keeps the invariant.
LEMMA CeremonyInvStep ==
  ASSUME CeremonyAssumption, CeremonyInv, [SigningNext]_signingVars
  PROVE  CeremonyInv'
<1>1. SigningValues /\ SigningFlags /\ SigningTypeOK /\ NotYetSigned /\ InPlace /\ OnesOwn /\ Untroubled /\ OldIsKept
      /\ NoneWithoutContent /\ SaidIsTrue
  BY DEF CeremonyInv, SigningTypeOK, SigningValues, SigningFlags
<1>2. SigningValues' /\ SigningFlags'
  BY <1>1, SigningValuesStep, SigningFlagsStep
<1>3. SigningTypeOK'
  BY <1>2 DEF SigningTypeOK, SigningValues, SigningFlags
<1> QED
  BY <1>1, <1>2, <1>3, PartsStep DEF CeremonyInv

\* For any number of signings and troubles, by the page and by a tool: the
\* ceremony (mandate-ceremony.ts) keeps its types.
THEOREM SigningTypes == ASSUME CeremonyAssumption PROVE SigningSpec => []SigningTypeOK
<1>1. SigningInit => CeremonyInv
  BY CeremonyInvInit
<1>2. CeremonyInv /\ [SigningNext]_signingVars => CeremonyInv'
  BY CeremonyInvStep
<1>3. CeremonyInv => SigningTypeOK
  BY DEF CeremonyInv
<1> QED
  BY <1>1, <1>2, <1>3, PTL DEF SigningSpec

\* No mandate stays active without its content, the person is told what is
\* true of it, the old mandate is retired only after the new one is in place,
\* and a mandate left open is reported (runCeremony and its callers), whatever
\* fails at whichever step.
THEOREM CeremonyIsKept == ASSUME CeremonyAssumption PROVE SigningSpec => CeremonyKept
<1>1. SigningInit => CeremonyInv
  BY CeremonyInvInit
<1>2. CeremonyInv /\ [SigningNext]_signingVars => CeremonyInv'
  BY CeremonyInvStep
<1>3. CeremonyInv /\ CeremonyInv' /\ [SigningNext]_signingVars =>
        [(NoneWithoutContent /\ SaidIsTrue)' /\ RetiresAfterTheNew /\ OpenIsSaid]_signingVars
  <2> SUFFICES ASSUME CeremonyInv, CeremonyInv', [SigningNext]_signingVars
               PROVE  (NoneWithoutContent /\ SaidIsTrue)' /\ RetiresAfterTheNew /\ OpenIsSaid
    OBVIOUS
  <2>1. SigningValues /\ SigningValues'
    BY DEF CeremonyInv, SigningTypeOK, SigningValues
  <2>2. RetiresAfterTheNew /\ OpenIsSaid
    BY <2>1, PartsStep DEF CeremonyInv
  <2>3. (NoneWithoutContent /\ SaidIsTrue)'
    BY DEF CeremonyInv
  <2> QED
    BY <2>2, <2>3
<1> QED
  BY <1>1, <1>2, <1>3, PTL DEF SigningSpec, CeremonyKept

-----------------------------------------------------------------------------
(* The queue of approvals.                                                  *)

\* What the AS has served of an approval before and after it was there.
BornOnce ==
  /\ undecided \cap unborn = {}
  /\ \A l \in Lists : list[l] \cap unborn = {}
  /\ \A l \in Lists : \A i \in DOMAIN reads[l] : reads[l][i].saw \cap unborn = {}

\* What waits for named approvers is all that this person's own list has.
NamedOnly ==
  /\ list["approver"] \subseteq Named
  /\ \A i \in DOMAIN reads["approver"] : reads["approver"][i].saw \subseteq Named

\* The person's decision ends what does not wait for others as well.
ActedIsOver ==
  /\ acted \cap undecided \subseteq Named
  /\ answered \subseteq acted /\ decided \subseteq acted
  /\ acted \cap unborn = {} /\ deciding \cap unborn = {}

\* Once gone from what the AS serves, an approval is in no later answer.
ServedInOrder ==
  \A l \in Lists : \A i, j \in DOMAIN reads[l] : \A p \in reads[l][i].saw \ reads[l][j].saw :
    i < j => p \notin Serves(l) /\ \A k \in DOMAIN reads[l] : j < k => p \notin reads[l][k].saw
\* What a list has lost to a later answer is gone, unless the answer under way
\* has been overtaken.
TakenInOrder ==
  \A l \in Lists : \A j \in DOMAIN reads[l] : \A p \in list[l] \ reads[l][j].saw :
    ~reads[l][j].overtaken =>
      p \notin Serves(l) /\ \A k \in DOMAIN reads[l] : j < k => p \notin reads[l][k].saw

\* The list that shows an approval, and that it has gone from it for good.
ListOf(p) == IF p \in Named THEN "approver" ELSE "mine"
Gone(l, p) ==
  /\ p \notin list[l] /\ p \notin Serves(l)
  /\ \A i \in DOMAIN reads[l] : reads[l][i].overtaken \/ p \notin reads[l][i].saw

\* What is being decided, or has been, was listed, and hiding it lasts as long
\* as its list shows it.
DecidedWasListed ==
  \A p \in deciding \cup answered : p \in list[ListOf(p)] \/ Gone(ListOf(p), p)
AnsweredIsHidden ==
  \A p \in answered : p \in decided \/ p \notin list[ListOf(p)]

\* As long as no answer was overtaken by a later one of its list.
Ordered == ~overtook => TakenInOrder /\ DecidedWasListed /\ AnsweredIsHidden

\* The inductive invariant of the queue.
QueueInv ==
  /\ QueueTypeOK /\ BornOnce /\ NamedOnly /\ ActedIsOver /\ ServedInOrder /\ Ordered

\* A request for a list, with what the AS answered.
Asked == [saw : SUBSET Proposal, overtaken : BOOLEAN]

\* Where what is left of a list's requests stood before the i-th was answered.
Before(i, k) == IF k < i THEN k ELSE k + 1

\* What a sequence is without its i-th element.
LEMMA RemoveAtIs ==
  ASSUME NEW R, NEW s \in Seq(R), NEW i \in DOMAIN s
  PROVE  /\ RemoveAt(s, i) \in Seq(R)
         /\ DOMAIN RemoveAt(s, i) = 1 .. Len(s) - 1
         /\ \A k \in 1 .. Len(s) - 1 :
              Before(i, k) \in DOMAIN s /\ RemoveAt(s, i)[k] = s[Before(i, k)]
<1>1. i \in 1 .. Len(s) /\ Len(s) \in Nat /\ DOMAIN s = 1 .. Len(s)
  OBVIOUS
<1> DEFINE a == SubSeq(s, 1, i - 1)
           b == SubSeq(s, i + 1, Len(s))
<1>2. a \in Seq(R) /\ Len(a) = i - 1 /\ \A k \in 1 .. i - 1 : a[k] = s[k]
  BY <1>1
<1>3. b \in Seq(R) /\ Len(b) = Len(s) - i /\ \A k \in 1 .. Len(s) - i : b[k] = s[i + k]
  BY <1>1
<1>4. RemoveAt(s, i) = a \o b
  BY DEF RemoveAt
<1> HIDE DEF a, b
<1>9. /\ a \o b \in Seq(R) /\ Len(a \o b) = Len(a) + Len(b)
      /\ \A k \in 1 .. Len(a) + Len(b) :
           (a \o b)[k] = IF k <= Len(a) THEN a[k] ELSE b[k - Len(a)]
  BY <1>2, <1>3, ConcatProperties
<1>5. a \o b \in Seq(R) /\ Len(a \o b) = Len(s) - 1
  BY <1>1, <1>2, <1>3, <1>9
<1>6. \A k \in 1 .. Len(s) - 1 : (a \o b)[k] = IF k < i THEN s[k] ELSE s[k + 1]
  <2> SUFFICES ASSUME NEW k \in 1 .. Len(s) - 1
               PROVE  (a \o b)[k] = IF k < i THEN s[k] ELSE s[k + 1]
    OBVIOUS
  <2>1. (a \o b)[k] = IF k <= i - 1 THEN a[k] ELSE b[k - (i - 1)]
    BY <1>1, <1>2, <1>3, <1>9
  <2>2. CASE k < i
    BY <1>1, <1>2, <2>1, <2>2
  <2>3. CASE ~(k < i)
    <3>1. k - (i - 1) \in 1 .. Len(s) - i /\ i + (k - (i - 1)) = k + 1 /\ ~(k <= i - 1)
      BY <1>1, <2>3
    <3>2. b[k - (i - 1)] = s[i + (k - (i - 1))]
      BY <1>3, <3>1
    <3> QED
      BY <2>1, <2>3, <3>1, <3>2
  <2> QED
    BY <2>2, <2>3
<1>7. DOMAIN (a \o b) = 1 .. Len(s) - 1
  BY <1>5, LenProperties
<1>8. \A k \in 1 .. Len(s) - 1 : Before(i, k) \in DOMAIN s
  BY <1>1 DEF Before
<1> QED
  BY <1>4, <1>5, <1>6, <1>7, <1>8 DEF Before

\* What remains of the requests for a list when one of them is answered, or
\* fails.
LEMMA Remaining ==
  ASSUME QueueTypeOK, NEW l \in Lists, NEW i \in DOMAIN reads[l],
         Listed(l, i) \/ ListFails(l, i)
  PROVE  /\ reads' \in [Lists -> Seq(Asked)]
         /\ \A m \in Lists \ {l} : reads'[m] = reads[m]
         /\ DOMAIN reads'[l] = 1 .. Len(reads[l]) - 1
         /\ \A k \in DOMAIN reads'[l] :
              /\ Before(i, k) \in DOMAIN reads[l]
              /\ reads'[l][k].saw = reads[l][Before(i, k)].saw
              /\ reads[l][Before(i, k)].overtaken => reads'[l][k].overtaken
              /\ Listed(l, i) => reads'[l][k].overtaken \/ i < Before(i, k)
<1>0. reads[l] \in Seq(Asked) /\ reads \in [Lists -> Seq(Asked)]
  BY DEF QueueTypeOK, Asked
<1>1. CASE ~Listed(l, i)
  <2>1. reads' = [reads EXCEPT ![l] = RemoveAt(reads[l], i)]
    BY <1>1 DEF ListFails
  <2>2. reads'[l] = RemoveAt(reads[l], i) /\ \A m \in Lists \ {l} : reads'[m] = reads[m]
    BY <1>0, <2>1
  <2>3. UNCHANGED list
    BY <1>1 DEF ListFails
  <2>4. RemoveAt(reads[l], i) \in Seq(Asked) /\ DOMAIN RemoveAt(reads[l], i) = 1 .. Len(reads[l]) - 1
        /\ \A k \in 1 .. Len(reads[l]) - 1 :
             Before(i, k) \in DOMAIN reads[l] /\ RemoveAt(reads[l], i)[k] = reads[l][Before(i, k)]
    BY <1>0, RemoveAtIs
  <2> QED
    BY <1>0, <1>1, <2>1, <2>2, <2>4
<1>2. CASE Listed(l, i)
  <2> DEFINE s == Overtaken(reads[l], i)
  <2>1. reads' = [reads EXCEPT ![l] = RemoveAt(s, i)]
    BY <1>2 DEF Listed
  <2>2. s \in Seq(Asked) /\ DOMAIN s = DOMAIN reads[l] /\ Len(s) = Len(reads[l])
    <3>1. DOMAIN s = 1 .. Len(reads[l]) /\ DOMAIN reads[l] = 1 .. Len(reads[l]) /\ Len(reads[l]) \in Nat
      BY <1>0 DEF Overtaken
    <3>2. ASSUME NEW j \in DOMAIN reads[l] PROVE s[j] \in Asked
      <4>1. reads[l][j].saw \in SUBSET Proposal
        <5>1. reads[l][j] \in Asked
          BY <1>0, <3>1
        <5> QED
          BY <5>1 DEF Asked
      <4>2. (reads[l][j].overtaken \/ j < i) \in BOOLEAN
        BY Zenon
      <4> QED
        BY <4>1, <4>2 DEF Overtaken, Asked
    <3>3. s \in [1 .. Len(reads[l]) -> Asked]
      BY <3>1, <3>2 DEF Overtaken
    <3> HIDE DEF s
    <3> QED
      BY <3>1, <3>3
  <2>3. \A j \in DOMAIN reads[l] :
          s[j].saw = reads[l][j].saw /\ s[j].overtaken = (reads[l][j].overtaken \/ j < i)
    BY DEF Overtaken
  <2> HIDE DEF s
  <2>4. reads'[l] = RemoveAt(s, i) /\ \A m \in Lists \ {l} : reads'[m] = reads[m]
    BY <1>0, <2>1
  <2>5. \A k \in 1 .. Len(s) - 1 : Before(i, k) # i
    BY <2>2, <1>0 DEF Before
  <2>6. reads' \in [Lists -> Seq(Asked)]
    BY <1>0, <2>1, <2>2, RemoveAtIs
  <2>7. ASSUME NEW k \in 1 .. Len(s) - 1
        PROVE  /\ Before(i, k) \in DOMAIN reads[l]
               /\ reads'[l][k].saw = reads[l][Before(i, k)].saw
               /\ reads'[l][k].overtaken = (reads[l][Before(i, k)].overtaken \/ Before(i, k) < i)
    BY <2>2, <2>3, <2>4, RemoveAtIs
  <2>8. \A k \in 1 .. Len(s) - 1 : Before(i, k) < i \/ i < Before(i, k)
    BY <1>0, <2>2, <2>5 DEF Before
  <2>9. DOMAIN reads'[l] = 1 .. Len(reads[l]) - 1
    BY <2>2, <2>4, RemoveAtIs
  <2> QED
    BY <2>2, <2>4, <2>6, <2>7, <2>8, <2>9
<1> QED
  BY <1>1, <1>2

\* What the AS serves shrinks, except by what has just been submitted.
LEMMA ServesShrinks ==
  ASSUME [QueueNext]_queueVars, NEW l \in Lists
  PROVE  Serves(l)' \ Serves(l) \subseteq unborn
BY DEF QueueNext, queueVars, queueAs, Serves, Submitted, DecidedElsewhere, CardDecides, CardDecided,
       CardFails, CardAnswered, Fetch, Listed, ListFails

\* The types of the sets.
SetTypes ==
  /\ unborn \subseteq Proposal /\ undecided \subseteq Proposal /\ acted \subseteq Proposal
  /\ list \in [Lists -> SUBSET Proposal]
  /\ decided \subseteq Proposal /\ deciding \subseteq Proposal
  /\ answered \subseteq Proposal

\* Every step keeps the types: an answer takes one request off its list.
LEMMA QueueTypeStep ==
  ASSUME QueueAssumption, QueueTypeOK, [QueueNext]_queueVars
  PROVE  QueueTypeOK'
<1>0. SetTypes /\ reads \in [Lists -> Seq(Asked)] /\ overtook \in BOOLEAN
  BY DEF QueueTypeOK, SetTypes, Asked
<1> DEFINE Kept == SetTypes' /\ reads' \in [Lists -> Seq(Asked)] /\ overtook' \in BOOLEAN
<1>1. ASSUME NEW l \in Lists, Fetch(l) PROVE Kept
  <2>1. [saw |-> Serves(l), overtaken |-> FALSE] \in Asked
    BY <1>0 DEF Serves, Asked, SetTypes
  <2>2. reads' \in [Lists -> Seq(Asked)]
    BY <1>0, <1>1, <2>1 DEF Fetch
  <2> QED
    BY <1>0, <1>1, <2>2 DEF Fetch, SetTypes, queueAs
<1>2. ASSUME NEW l \in Lists, NEW i \in DOMAIN reads[l], Listed(l, i) PROVE Kept
  <2>1. reads' \in [Lists -> Seq(Asked)]
    BY <1>2, Remaining
  <2>2. reads[l][i] \in Asked
    BY <1>0
  <2>3. SetTypes'
    BY <1>0, <1>2, <2>2 DEF Listed, SetTypes, Asked, queueAs, Prune
  <2>4. overtook' \in BOOLEAN
    BY <1>2, Zenon DEF Listed
  <2> QED
    BY <2>1, <2>3, <2>4
<1>3. ASSUME NEW l \in Lists, NEW i \in DOMAIN reads[l], ListFails(l, i) PROVE Kept
  <2>1. reads' \in [Lists -> Seq(Asked)]
    BY <1>3, Remaining
  <2> QED
    BY <1>0, <1>3, <2>1 DEF ListFails, SetTypes, queueAs
<1>4. ASSUME NEW p \in Proposal, Submitted(p) \/ DecidedElsewhere(p) \/ CardDecides(p) \/ CardDecided(p)
      PROVE  Kept
  BY <1>0, <1>4 DEF Submitted, DecidedElsewhere, CardDecides, CardDecided, CardAnswered, SetTypes,
       queueAs
<1>5. ASSUME (\E p \in Proposal : CardFails(p)) \/ UNCHANGED queueVars PROVE Kept
  BY <1>0, <1>5 DEF CardFails, CardAnswered, queueVars, SetTypes, queueAs
<1>6. \A l \in Lists : \A i : Listed(l, i) \/ ListFails(l, i) => i \in DOMAIN reads[l]
  BY DEF Listed, ListFails
<1>7. Kept
  <2> HIDE DEF Kept
  <2> QED
    BY <1>1, <1>2, <1>3, <1>4, <1>5, <1>6 DEF QueueNext
<1> QED
  BY <1>7 DEF QueueTypeOK, SetTypes, Asked

\* Every step keeps what was submitted, named and acted on apart.
LEMMA FactsStep ==
  ASSUME QueueAssumption, QueueTypeOK, BornOnce, NamedOnly, ActedIsOver, [QueueNext]_queueVars
  PROVE  BornOnce' /\ NamedOnly' /\ ActedIsOver'
<1>0. SetTypes /\ reads \in [Lists -> Seq(Asked)]
  BY DEF QueueTypeOK, SetTypes, Asked
<1> USE DEF BornOnce, NamedOnly, ActedIsOver, SetTypes, queueAs, Lists
<1> DEFINE Kept == BornOnce' /\ NamedOnly' /\ ActedIsOver'
<1>1. ASSUME NEW l \in Lists, Fetch(l) PROVE Kept
  <2>1. \A m \in Lists : \A i \in DOMAIN reads'[m] :
          (i \in DOMAIN reads[m] /\ reads'[m][i] = reads[m][i]) \/ reads'[m][i].saw = Serves(m)
    BY <1>0, <1>1 DEF Fetch
  <2> QED
    BY <1>0, <1>1, <2>1 DEF Fetch, Serves
<1>2. ASSUME NEW l \in Lists, NEW i \in DOMAIN reads[l], Listed(l, i) PROVE Kept
  <2>1. \A m \in Lists : \A k \in DOMAIN reads'[m] :
          \E j \in DOMAIN reads[m] : reads'[m][k].saw = reads[m][j].saw
    BY <1>2, Remaining
  <2>2. /\ list' = [list EXCEPT ![l] = reads[l][i].saw]
        /\ UNCHANGED <<unborn, undecided, acted, deciding, answered>>
        /\ decided' \subseteq decided
    BY <1>2 DEF Listed, Prune
  <2>3. ASSUME NEW m \in Lists, NEW k \in DOMAIN reads'[m]
        PROVE  reads'[m][k].saw \cap unborn = {} /\ (m = "approver" => reads'[m][k].saw \subseteq Named)
    BY <2>1
  <2>4. BornOnce'
    BY <1>0, <2>3, <2>2
  <2>5. NamedOnly'
    BY <1>0, <2>3, <2>2
  <2>6. ActedIsOver'
    BY <1>0, <2>2
  <2> QED
    BY <2>4, <2>5, <2>6
<1>3. ASSUME NEW l \in Lists, NEW i \in DOMAIN reads[l], ListFails(l, i) PROVE Kept
  <2>1. \A m \in Lists : \A k \in DOMAIN reads'[m] :
          \E j \in DOMAIN reads[m] : reads'[m][k].saw = reads[m][j].saw
    BY <1>3, Remaining
  <2>3. ASSUME NEW m \in Lists, NEW k \in DOMAIN reads'[m]
        PROVE  reads'[m][k].saw \cap unborn = {} /\ (m = "approver" => reads'[m][k].saw \subseteq Named)
    BY <2>1
  <2>4. BornOnce'
    BY <1>0, <2>3, <1>3 DEF ListFails
  <2>5. NamedOnly'
    BY <1>0, <2>3, <1>3 DEF ListFails
  <2>6. ActedIsOver'
    BY <1>0, <1>3 DEF ListFails
  <2> QED
    BY <2>4, <2>5, <2>6
<1>4. ASSUME NEW p \in Proposal, Submitted(p) \/ DecidedElsewhere(p) PROVE Kept
  BY <1>0, <1>4 DEF Submitted, DecidedElsewhere
<1>5. ASSUME NEW p \in Proposal, CardDecides(p) PROVE Kept
  BY <1>0, <1>5 DEF CardDecides, queued
<1>6. ASSUME NEW p \in Proposal, CardDecided(p) PROVE Kept
  BY <1>0, <1>6 DEF CardDecided, CardAnswered
<1>7. ASSUME (\E p \in Proposal : CardFails(p)) \/ UNCHANGED queueVars PROVE Kept
  BY <1>0, <1>7 DEF CardFails, CardAnswered, queueVars
<1>8. \A l \in Lists : \A i : Listed(l, i) \/ ListFails(l, i) => i \in DOMAIN reads[l]
  BY DEF Listed, ListFails
<1> HIDE DEF Kept
<1> QED
  BY <1>1, <1>2, <1>3, <1>4, <1>5, <1>6, <1>7, <1>8 DEF QueueNext, Kept

\* The AS never serves again what it has stopped serving.
LEMMA ServedStep ==
  ASSUME QueueTypeOK, BornOnce, ServedInOrder, [QueueNext]_queueVars
  PROVE  ServedInOrder'
<1>0. reads \in [Lists -> Seq(Asked)]
  BY DEF QueueTypeOK, Asked
<1> SUFFICES ASSUME NEW l \in Lists, NEW i \in DOMAIN reads'[l], NEW j \in DOMAIN reads'[l],
                    NEW p \in reads'[l][i].saw \ reads'[l][j].saw, i < j
             PROVE  p \notin Serves(l)' /\ \A k \in DOMAIN reads'[l] : j < k => p \notin reads'[l][k].saw
  BY DEF ServedInOrder
<1>1. \A q : q \notin unborn /\ q \notin Serves(l) => q \notin Serves(l)'
  BY ServesShrinks
<1>2. CASE reads'[l] = reads[l]
  BY <1>1, <1>2 DEF ServedInOrder, BornOnce
<1>3. ASSUME NEW m \in Lists, Fetch(m), reads'[l] # reads[l]
      PROVE  p \notin Serves(l)' /\ \A k \in DOMAIN reads'[l] : j < k => p \notin reads'[l][k].saw
  <2>1. m = l /\ reads'[l] = Append(reads[l], [saw |-> Serves(l), overtaken |-> FALSE])
    BY <1>0, <1>3 DEF Fetch
  <2>2. /\ DOMAIN reads'[l] = 1 .. Len(reads[l]) + 1 /\ DOMAIN reads[l] = 1 .. Len(reads[l])
        /\ Len(reads[l]) \in Nat
        /\ \A k \in DOMAIN reads[l] : reads'[l][k] = reads[l][k]
        /\ reads'[l][Len(reads[l]) + 1].saw = Serves(l)
    BY <1>0, <2>1 DEF Asked, Lists
  <2>3. i \in DOMAIN reads[l]
    BY <2>2
  <2>4. p \notin unborn
    BY <2>2, <2>3 DEF BornOnce
  <2>5. CASE j \in DOMAIN reads[l]
    <3>1. reads'[l][i] = reads[l][i] /\ reads'[l][j] = reads[l][j]
      BY <2>2, <2>3, <2>5
    <3>2. p \notin Serves(l) /\ \A k \in DOMAIN reads[l] : j < k => p \notin reads[l][k].saw
      BY <2>3, <2>5, <3>1 DEF ServedInOrder
    <3> QED
      BY <1>1, <2>2, <2>4, <3>2
  <2>6. CASE j = Len(reads[l]) + 1
    BY <1>1, <2>2, <2>4, <2>6
  <2> QED
    BY <2>2, <2>5, <2>6
<1>4. ASSUME NEW m \in Lists, NEW n \in DOMAIN reads[m], Listed(m, n) \/ ListFails(m, n),
             reads'[l] # reads[l]
      PROVE  p \notin Serves(l)' /\ \A k \in DOMAIN reads'[l] : j < k => p \notin reads'[l][k].saw
  <2>1. m = l
    BY <1>4, Remaining
  <2>2. \A k \in DOMAIN reads'[l] :
          Before(n, k) \in DOMAIN reads[l] /\ reads'[l][k].saw = reads[l][Before(n, k)].saw
    BY <1>4, <2>1, Remaining
  <2>3. \A a, b \in DOMAIN reads'[l] : a < b => Before(n, a) < Before(n, b)
    <3>1. DOMAIN reads'[l] \subseteq Nat /\ n \in Nat
      BY <1>0, <1>4, <2>1, Remaining
    <3> QED
      BY <3>1 DEF Before
  <2> QED
    BY <1>1, <2>2, <2>3 DEF ServedInOrder, BornOnce
<1>5. reads'[l] = reads[l] \/ \E m \in Lists : Fetch(m) \/ \E n : Listed(m, n) \/ ListFails(m, n)
  BY DEF QueueNext, queueVars, Submitted, DecidedElsewhere, CardDecides, CardDecided, CardFails
<1>6. \A m \in Lists : \A n : Listed(m, n) \/ ListFails(m, n) => n \in DOMAIN reads[m]
  BY DEF Listed, ListFails
<1> QED
  BY <1>2, <1>3, <1>4, <1>5, <1>6

\* An approval is queued as long as its list shows it and it is not hidden.
LEMMA QueuedIsListed ==
  ASSUME NamedOnly
  PROVE  \A p : p \in queued <=> p \in list[ListOf(p)] /\ p \notin decided
BY DEF NamedOnly, queued, ListOf

\* The steps that neither ask for a list nor take one.
QuietNext ==
  \/ \E p \in Proposal :
       \/ Submitted(p) \/ DecidedElsewhere(p)
       \/ CardDecides(p) \/ CardDecided(p) \/ CardFails(p)
  \/ UNCHANGED queueVars

\* They leave the order of the answers alone, and hide what they decide.
LEMMA QuietStep ==
  ASSUME BornOnce, NamedOnly, ActedIsOver, Ordered, QuietNext
  PROVE  Ordered'
<1>0. UNCHANGED <<list, reads, overtook>> /\ [QueueNext]_queueVars
  BY DEF QuietNext, QueueNext, queueVars, Submitted, DecidedElsewhere, CardDecides,
       CardDecided, CardFails
<1> SUFFICES ASSUME ~overtook PROVE TakenInOrder' /\ DecidedWasListed' /\ AnsweredIsHidden'
  BY <1>0 DEF Ordered
<1>1. \A l \in Lists : \A q : q \notin unborn /\ q \notin Serves(l) => q \notin Serves(l)'
  BY <1>0, ServesShrinks
<1>2. TakenInOrder /\ DecidedWasListed /\ AnsweredIsHidden
  BY DEF Ordered
<1>3. TakenInOrder'
  BY <1>0, <1>1, <1>2 DEF TakenInOrder, BornOnce
<1>4. \A p \in deciding \cup answered : p \notin unborn /\ ListOf(p) \in Lists
  <2>1. answered \cap unborn = {} /\ deciding \cap unborn = {}
    BY DEF ActedIsOver
  <2> QED
    BY <2>1 DEF ListOf, Lists
<1>5. \A p \in deciding \cup answered : p \in list'[ListOf(p)] \/ Gone(ListOf(p), p)'
  BY <1>0, <1>1, <1>2, <1>4 DEF DecidedWasListed, Gone
<1>6. ASSUME NEW p \in Proposal, CardDecides(p) PROVE DecidedWasListed' /\ AnsweredIsHidden'
  <2>1. p \in list'[ListOf(p)]
    BY <1>0, <1>6, QueuedIsListed DEF CardDecides
  <2>2. (deciding \cup answered)' = {p} \cup deciding \cup answered /\ UNCHANGED <<answered, decided>>
    BY <1>6 DEF CardDecides
  <2> QED
    BY <1>0, <1>2, <1>5, <2>1, <2>2 DEF DecidedWasListed, AnsweredIsHidden, ListOf
<1>7. ASSUME NEW p \in Proposal, CardDecided(p) PROVE DecidedWasListed' /\ AnsweredIsHidden'
  <2>1. (deciding \cup answered)' \subseteq deciding \cup answered /\ answered' = answered \cup {p}
    BY <1>7 DEF CardDecided, CardAnswered
  <2>2. decided' = decided \cup {p}
    BY <1>7 DEF CardDecided
  <2> QED
    BY <1>0, <1>2, <1>5, <2>1, <2>2 DEF DecidedWasListed, AnsweredIsHidden, ListOf
<1>8. ASSUME UNCHANGED <<answered, decided>>, deciding' \subseteq deciding
      PROVE  DecidedWasListed' /\ AnsweredIsHidden'
  BY <1>0, <1>2, <1>5, <1>8 DEF DecidedWasListed, AnsweredIsHidden, ListOf
<1>9. DecidedWasListed' /\ AnsweredIsHidden'
  BY <1>6, <1>7, <1>8 DEF QuietNext, queueVars, Submitted, DecidedElsewhere, CardFails,
       CardAnswered
<1> QED
  BY <1>3, <1>9

\* What is asked for next is what the AS serves now.
LEMMA FetchStep ==
  ASSUME QueueTypeOK, BornOnce, ActedIsOver, Ordered, NEW l \in Lists, Fetch(l)
  PROVE  Ordered'
<1>0. reads \in [Lists -> Seq(Asked)]
  BY DEF QueueTypeOK, Asked
<1>1. UNCHANGED <<list, decided, deciding, answered, overtook>> /\ \A m \in Lists : Serves(m)' = Serves(m)
  BY DEF Fetch, queueAs, Serves
<1>2. reads' = [reads EXCEPT ![l] = Append(reads[l], [saw |-> Serves(l), overtaken |-> FALSE])]
  BY DEF Fetch
<1>3. \A m \in Lists :
        /\ DOMAIN reads[m] = 1 .. Len(reads[m]) /\ Len(reads[m]) \in Nat
        /\ \A k \in DOMAIN reads[m] : k \in DOMAIN reads'[m] /\ reads'[m][k] = reads[m][k]
        /\ \A k \in DOMAIN reads'[m] \ DOMAIN reads[m] :
             k = Len(reads[m]) + 1 /\ reads'[m][k].saw = Serves(m)
  BY <1>0, <1>2 DEF Asked
<1> SUFFICES ASSUME ~overtook PROVE TakenInOrder' /\ DecidedWasListed' /\ AnsweredIsHidden'
  BY <1>1 DEF Ordered
<1>4. TakenInOrder /\ DecidedWasListed /\ AnsweredIsHidden
  BY DEF Ordered
<1>5. AnsweredIsHidden'
  BY <1>1, <1>4 DEF AnsweredIsHidden, ListOf
<1>6. DecidedWasListed'
  <2>1. \A m \in Lists : \A p : Gone(m, p) => Gone(m, p)'
    BY <1>1, <1>3 DEF Gone
  <2> QED
    BY <1>1, <1>4, <2>1 DEF DecidedWasListed, ListOf, Lists
<1>7. TakenInOrder'
  <2> SUFFICES ASSUME NEW m \in Lists, NEW j \in DOMAIN reads'[m], NEW p \in list[m] \ reads'[m][j].saw,
                      ~reads'[m][j].overtaken
               PROVE  p \notin Serves(m) /\ \A k \in DOMAIN reads'[m] : j < k => p \notin reads'[m][k].saw
    BY <1>1 DEF TakenInOrder
  <2>1. CASE j \in DOMAIN reads[m]
    <3>1. p \notin Serves(m) /\ \A k \in DOMAIN reads[m] : j < k => p \notin reads[m][k].saw
      BY <1>3, <1>4, <2>1 DEF TakenInOrder
    <3> QED
      BY <1>3, <3>1
  <2>2. CASE j \notin DOMAIN reads[m]
    <3>1. j = Len(reads[m]) + 1 /\ p \notin Serves(m)
      BY <1>3, <2>2
    <3>2. \A k \in DOMAIN reads'[m] : ~(j < k)
      BY <1>3, <3>1
    <3> QED
      BY <3>1, <3>2
  <2> QED
    BY <2>1, <2>2
<1> QED
  BY <1>5, <1>6, <1>7

\* An answer that fails leaves the others in their order.
LEMMA ListFailsStep ==
  ASSUME QueueTypeOK, Ordered, NEW l \in Lists, NEW i \in DOMAIN reads[l], ListFails(l, i)
  PROVE  Ordered'
<1>0. reads \in [Lists -> Seq(Asked)]
  BY DEF QueueTypeOK, Asked
<1>1. UNCHANGED <<list, decided, deciding, answered, overtook>> /\ \A m \in Lists : Serves(m)' = Serves(m)
  BY DEF ListFails, queueAs, Serves
<1>2. /\ \A m \in Lists \ {l} : reads'[m] = reads[m]
      /\ \A k \in DOMAIN reads'[l] :
           /\ Before(i, k) \in DOMAIN reads[l]
           /\ reads'[l][k].saw = reads[l][Before(i, k)].saw
           /\ reads[l][Before(i, k)].overtaken => reads'[l][k].overtaken
  BY Remaining
<1>3. \A a, b \in DOMAIN reads'[l] : a < b => Before(i, a) < Before(i, b)
  <2>1. DOMAIN reads'[l] \subseteq Nat /\ i \in Nat
    BY <1>0, Remaining
  <2> QED
    BY <2>1 DEF Before
<1> SUFFICES ASSUME ~overtook PROVE TakenInOrder' /\ DecidedWasListed' /\ AnsweredIsHidden'
  BY <1>1 DEF Ordered
<1>4. TakenInOrder /\ DecidedWasListed /\ AnsweredIsHidden
  BY DEF Ordered
<1>5. AnsweredIsHidden'
  BY <1>1, <1>4 DEF AnsweredIsHidden, ListOf
<1>6. DecidedWasListed'
  <2>1. \A m \in Lists : \A p : Gone(m, p) => Gone(m, p)'
    BY <1>1, <1>2 DEF Gone
  <2> QED
    BY <1>1, <1>4, <2>1 DEF DecidedWasListed, ListOf, Lists
<1>7. TakenInOrder'
  BY <1>1, <1>2, <1>3, <1>4 DEF TakenInOrder
<1> QED
  BY <1>5, <1>6, <1>7

\* An answer that is taken: either it has been overtaken, or what the list had
\* and the answer has not is gone for good.
LEMMA ListedStep ==
  ASSUME QueueTypeOK, BornOnce, ServedInOrder, Ordered, NEW l \in Lists, NEW i \in
         DOMAIN reads[l], Listed(l, i)
  PROVE  Ordered'
<1>0. reads \in [Lists -> Seq(Asked)] /\ list \in [Lists -> SUBSET Proposal]
  BY DEF QueueTypeOK, Asked
<1>1. /\ UNCHANGED <<deciding, answered>> /\ \A m \in Lists : Serves(m)' = Serves(m)
      /\ list' = [list EXCEPT ![l] = reads[l][i].saw]
      /\ decided' = decided \cap (list'["mine"] \cup list'["approver"])
      /\ ~overtook' => ~overtook /\ ~reads[l][i].overtaken
  BY DEF Listed, queueAs, Serves, Prune
<1>2. /\ \A m \in Lists \ {l} : reads'[m] = reads[m]
      /\ \A k \in DOMAIN reads'[l] :
           /\ Before(i, k) \in DOMAIN reads[l]
           /\ reads'[l][k].saw = reads[l][Before(i, k)].saw
           /\ reads[l][Before(i, k)].overtaken => reads'[l][k].overtaken
           /\ reads'[l][k].overtaken \/ i < Before(i, k)
  BY Remaining
<1>3. \A a, b \in DOMAIN reads'[l] : a < b => Before(i, a) < Before(i, b)
  <2>1. DOMAIN reads'[l] \subseteq Nat /\ i \in Nat
    BY <1>0, Remaining
  <2> QED
    BY <2>1 DEF Before
<1> SUFFICES ASSUME ~overtook' PROVE TakenInOrder' /\ DecidedWasListed' /\ AnsweredIsHidden'
  BY DEF Ordered
<1>4. TakenInOrder /\ DecidedWasListed /\ AnsweredIsHidden /\ ~reads[l][i].overtaken
  BY <1>1 DEF Ordered
<1>5. list'[l] = reads[l][i].saw /\ \A m \in Lists \ {l} : list'[m] = list[m]
  BY <1>0, <1>1
<1>6. TakenInOrder'
  <2> SUFFICES ASSUME NEW m \in Lists, NEW j \in DOMAIN reads'[m], NEW p \in list'[m] \ reads'[m][j].saw,
                      ~reads'[m][j].overtaken
               PROVE  p \notin Serves(m) /\ \A k \in DOMAIN reads'[m] : j < k => p \notin reads'[m][k].saw
    BY <1>1 DEF TakenInOrder
  <2>1. CASE m # l
    BY <1>2, <1>4, <1>5, <2>1 DEF TakenInOrder
  <2>2. CASE m = l
    <3>1. /\ i < Before(i, j) /\ Before(i, j) \in DOMAIN reads[l]
          /\ p \in reads[l][i].saw \ reads[l][Before(i, j)].saw
      BY <1>2, <1>5, <2>2
    <3>2. /\ p \notin Serves(l)
          /\ \A k \in DOMAIN reads[l] : Before(i, j) < k => p \notin reads[l][k].saw
      BY <3>1 DEF ServedInOrder
    <3> QED
      BY <1>2, <1>3, <2>2, <3>2
  <2> QED
    BY <2>1, <2>2
<1>7. ASSUME NEW p, NEW m \in Lists, p \in list[m] \/ Gone(m, p)
      PROVE  p \in list'[m] \/ Gone(m, p)'
  <2>1. CASE m # l
    BY <1>1, <1>2, <1>5, <1>7, <2>1 DEF Gone
  <2>2. CASE m = l /\ p \notin reads[l][i].saw /\ p \in list[l]
    <3>1. p \notin Serves(l) /\ \A k \in DOMAIN reads[l] : i < k => p \notin reads[l][k].saw
      BY <1>4, <2>2 DEF TakenInOrder
    <3> QED
      BY <1>1, <1>2, <1>5, <2>2, <3>1 DEF Gone
  <2>3. CASE m = l /\ p \notin reads[l][i].saw /\ Gone(l, p)
    BY <1>1, <1>2, <1>5, <2>3 DEF Gone
  <2>4. CASE m = l /\ p \in reads[l][i].saw
    BY <1>5, <2>4
  <2> QED
    BY <1>7, <2>1, <2>2, <2>3, <2>4
<1>8. DecidedWasListed'
  <2>1. \A p : ListOf(p) \in Lists
    BY DEF ListOf, Lists
  <2> QED
    BY <1>1, <1>4, <1>7, <2>1 DEF DecidedWasListed, ListOf
<1>9. AnsweredIsHidden'
  <2> SUFFICES ASSUME NEW p \in answered, p \in list'[ListOf(p)] PROVE p \in decided'
    BY <1>1 DEF AnsweredIsHidden, ListOf
  <2>1. ListOf(p) \in Lists /\ p \in list'["mine"] \cup list'["approver"]
    BY DEF ListOf, Lists
  <2>2. p \in list[ListOf(p)]
    <3>1. CASE ListOf(p) # l
      BY <1>5, <2>1, <3>1
    <3>2. CASE ListOf(p) = l
      BY <1>4, <1>5, <3>2 DEF DecidedWasListed, Gone
    <3> QED
      BY <3>1, <3>2
  <2>3. p \in decided
    BY <1>4, <2>2 DEF AnsweredIsHidden
  <2> QED
    BY <1>1, <2>1, <2>3
<1> QED
  BY <1>6, <1>8, <1>9

\* Nothing is there, nothing is asked for.
LEMMA QueueInvInit == ASSUME QueueAssumption, QueueInit PROVE QueueInv
<1>1. QueueTypeOK
  <2>1. reads \in [Lists -> Seq(Asked)]
    BY DEF QueueInit
  <2>2. SetTypes
    BY DEF QueueInit, SetTypes
  <2>3. overtook \in BOOLEAN
    BY Zenon DEF QueueInit
  <2> QED
    BY <2>1, <2>2, <2>3 DEF QueueTypeOK, SetTypes, Asked
<1>2. BornOnce /\ NamedOnly /\ ActedIsOver /\ ServedInOrder
  BY DEF QueueInit, BornOnce, NamedOnly, ActedIsOver, ServedInOrder, Lists
<1>3. Ordered
  BY DEF QueueInit, Ordered, TakenInOrder, DecidedWasListed, AnsweredIsHidden, Lists
<1> QED
  BY <1>1, <1>2, <1>3 DEF QueueInv

\* Every step keeps the invariant.
LEMMA QueueInvStep ==
  ASSUME QueueAssumption, QueueInv, [QueueNext]_queueVars
  PROVE  QueueInv'
<1>0. QueueTypeOK /\ BornOnce /\ NamedOnly /\ ActedIsOver /\ ServedInOrder /\ Ordered
  BY DEF QueueInv
<1>1. QueueTypeOK' /\ BornOnce' /\ NamedOnly' /\ ActedIsOver' /\ ServedInOrder'
  BY <1>0, QueueTypeStep, FactsStep, ServedStep
<1>2. \A l \in Lists : \A i : Listed(l, i) \/ ListFails(l, i) => i \in DOMAIN reads[l]
  BY DEF Listed, ListFails
<1>3. Ordered'
  BY <1>0, <1>2, QuietStep, FetchStep, ListedStep, ListFailsStep DEF QueueNext, QuietNext
<1> QED
  BY <1>1, <1>3 DEF QueueInv

\* What the invariant is for.
LEMMA QueueInvImplies == ASSUME QueueInv PROVE QueueIsTrue
<1>1. DecidedStaysAway
  BY QueuedIsListed DEF QueueInv, Ordered, AnsweredIsHidden, DecidedStaysAway
<1>2. QueueIsExact
  BY DEF QueueInv, ActedIsOver, QueueIsExact, Waiting, Serves, queued, Lists
<1> QED
  BY <1>1, <1>2 DEF QueueIsTrue

\* For any approvals and any number of requests for the two lists: the queue
\* (ApprovalQueueContext.tsx) keeps its types.
THEOREM QueueTypes == ASSUME QueueAssumption PROVE QueueSpec => []QueueTypeOK
<1>1. QueueInit => QueueInv
  BY QueueInvInit
<1>2. QueueInv /\ [QueueNext]_queueVars => QueueInv'
  BY QueueInvStep
<1>3. QueueInv => QueueTypeOK
  BY DEF QueueInv
<1> QED
  BY <1>1, <1>2, <1>3, PTL DEF QueueSpec

\* For any approvals and requests, and with answers in any order: what the
\* person decided stays away from the queue unless an overtaken answer brings it
\* back, and with nothing under way the queue is exactly what waits for this
\* person (markDecided, pruneDecided and buildMyQueue).
THEOREM QueueHolds == ASSUME QueueAssumption PROVE QueueSpec => []QueueIsTrue
<1>1. QueueInit => QueueInv
  BY QueueInvInit
<1>2. QueueInv /\ [QueueNext]_queueVars => QueueInv'
  BY QueueInvStep
<1>3. QueueInv => QueueIsTrue
  BY QueueInvImplies
<1> QED
  BY <1>1, <1>2, <1>3, PTL DEF QueueSpec

-----------------------------------------------------------------------------
(* The panel that shows the queue.                                          *)

\* Once loaded, what the panel knows is what waits.
KnowsWhatWaits == panel.known = IF loaded THEN ids ELSE {}

\* What is due waits, where a panel may open by itself.
DueCanOpen ==
  due # {} => loaded /\ autoOpen /\ ~onApprovalsPage /\ due \subseteq ids

\* As long as no result came over another, one is held at a time...
OneResult ==
  ~overlap =>
    /\ \A n \in Decision : Pending(n) => Holding
    /\ \A m, n \in Decision : Pending(m) /\ Pending(n) => m = n

\* ... and the last of what waits leaves nothing due behind it.
LastOwesNothing == ~overlap => \A n \in Decision : decision[n].at = "last" => due = {}

\* What is asked for, or shown, is of an approval.
AskedOfOne == \A n \in Decision : decision[n].at = "none" \/ decision[n].id \in Approval

Timers == OneResult /\ LastOwesNothing /\ AskedOfOne

\* What was sent away still waits.
SentAwayWaits == sentAway \subseteq IF loaded THEN ids ELSE {}

\* The inductive invariant of the panel.
PanelInv ==
  /\ PanelTypeOK /\ KnowsWhatWaits /\ DueCanOpen /\ SentAwayWaits /\ ArrivalsOpen
  /\ Timers

\* The flags, whose types are shown by themselves.
PanelFlags ==
  /\ loaded \in BOOLEAN /\ autoOpen \in BOOLEAN /\ typing \in BOOLEAN
  /\ onApprovalsPage \in BOOLEAN /\ overlap \in BOOLEAN

\* Nothing is loaded and nothing waits as the app starts.
LEMMA PanelInvInit == ASSUME PanelAssumption, PanelInit PROVE PanelInv
<1>1. PanelFlags
  BY Zenon DEF PanelInit, PanelFlags
<1>2. Timers
  BY DEF PanelInit, Timers, OneResult, LastOwesNothing, AskedOfOne, Pending, Free
<1>3. decision \in [Decision -> [at : Stages, id : Approval \cup {NoOne}]]
  BY DEF PanelInit, Free, Stages
<1> QED
  BY <1>1, <1>2, <1>3 DEF PanelAssumption, PanelInit, PanelInv, PanelTypeOK, PanelFlags, Timers,
       KnowsWhatWaits, DueCanOpen, SentAwayWaits, ArrivalsOpen, PanelClosed

\* What the effect at the end of an action leaves.
LEMMA EffectsKeep ==
  ASSUME PanelInv, Effects, PanelFlags', loaded => loaded', ids' \subseteq Approval
  PROVE  /\ panel' \in [open : BOOLEAN, known : SUBSET Approval, owed : BOOLEAN]
         /\ due' \subseteq Approval /\ sentAway' \subseteq Approval
         /\ KnowsWhatWaits' /\ DueCanOpen' /\ SentAwayWaits' /\ ArrivalsOpen'
         /\ LaterIsLater
         /\ Holding' => due' \subseteq due
<1> USE DEF PanelInv, PanelTypeOK, PanelFlags
<1>1. panel' \in [open : BOOLEAN, known : SUBSET Approval, owed : BOOLEAN]
  BY DEF Effects, Reconcile, PanelClosed
<1>2. due' \subseteq Approval /\ sentAway' \subseteq Approval
  BY DEF Effects
<1>3. KnowsWhatWaits'
  BY DEF KnowsWhatWaits, Effects, Reconcile, PanelClosed
<1>4. DueCanOpen'
  BY DEF DueCanOpen, Effects
<1>5. SentAwayWaits'
  BY DEF SentAwayWaits, Effects
<1>6. ArrivalsOpen'
  BY <1>1 DEF ArrivalsOpen, DueCanOpen, KnowsWhatWaits, Effects, Reconcile, PanelClosed
<1>7. LaterIsLater
  BY DEF LaterIsLater, ByItself, SentAwayWaits, KnowsWhatWaits, Effects, Reconcile, PanelClosed
<1>8. Holding' => due' \subseteq due
  BY DEF Effects
<1> QED
  BY <1>1, <1>2, <1>3, <1>4, <1>5, <1>6, <1>7, <1>8

\* An action that moves no timer and ends with the effect, with or without a
\* card that follows.
LEMMA QuietEffects ==
  ASSUME PanelInv, Effects, PanelFlags', loaded => loaded', ids' \subseteq Approval,
         UNCHANGED <<decision, settling, overlap>>, onScreen' \in {onScreen, NoOne},
         flips' \in 0 .. MaxFlips
  PROVE  PanelInv' /\ LaterIsLater
<1>1. Timers'
  BY EffectsKeep DEF PanelInv, Timers, OneResult, LastOwesNothing, AskedOfOne, Pending, Holding
<1>2. PanelTypeOK'
  BY EffectsKeep DEF PanelInv, PanelTypeOK, PanelFlags
<1> QED
  BY <1>1, <1>2, EffectsKeep DEF PanelInv, Timers

\* The card on screen is the one there was, or none.
LEMMA CardIsKept == ASSUME CardFollows PROVE onScreen' \in {onScreen, NoOne}
BY DEF CardFollows

\* What the person does that asks for nothing, and what closes the panel.
LEMMA HandsKeep ==
  ASSUME PanelInv, \/ Navigates \/ GoesLater \/ Opens \/ CardUnmounts \/ UNCHANGED panelVars
  PROVE  PanelInv' /\ LaterIsLater
<1> USE DEF PanelInv, PanelTypeOK, panelVars, inputs, cards
<1>1. UNCHANGED <<ids, loaded, autoOpen, typing, settling, decision, overlap, flips>>
  BY DEF Navigates, GoesLater, Opens, CardUnmounts
<1>2. onScreen' \in {onScreen, NoOne}
  BY CardIsKept DEF Navigates, GoesLater, Opens, CardUnmounts
<1>3. onApprovalsPage' \in BOOLEAN
  BY Zenon DEF Navigates, GoesLater, Opens, CardUnmounts
<1>4. /\ panel' \in [open : BOOLEAN, known : SUBSET Approval, owed : BOOLEAN]
      /\ KnowsWhatWaits'
  BY <1>1 DEF Navigates, GoesLater, Opens, CardUnmounts, Reconcile, PanelClosed, KnowsWhatWaits
<1>5. due' \in {due, {}} /\ DueCanOpen' /\ SentAwayWaits'
  BY <1>1 DEF Navigates, GoesLater, Opens, CardUnmounts, DueCanOpen, SentAwayWaits
<1>6. ArrivalsOpen'
  BY <1>1 DEF Navigates, GoesLater, Opens, CardUnmounts, ArrivalsOpen, DueCanOpen, Reconcile,
       PanelClosed, KnowsWhatWaits
<1>7. LaterIsLater
  BY <1>1 DEF Navigates, GoesLater, Opens, CardUnmounts, LaterIsLater, ByItself, Reconcile, PanelClosed
<1>8. Timers'
  BY <1>1, <1>5 DEF Timers, OneResult, LastOwesNothing, AskedOfOne, Pending, Holding
<1>9. PanelTypeOK'
  BY <1>1, <1>2, <1>3, <1>4, <1>5 DEF SentAwayWaits
<1> QED
  BY <1>4, <1>5, <1>6, <1>7, <1>8, <1>9

\* A decision that is asked for, or fails, moves no timer.
LEMMA AskingKeeps ==
  ASSUME PanelInv, NEW n \in Decision,
         DecisionFails(n) \/ \E p \in Approval : Decides(n, p)
  PROVE  PanelInv' /\ LaterIsLater
<1> USE DEF PanelInv, PanelTypeOK, inputs
<1>1. UNCHANGED <<ids, loaded, autoOpen, typing, onApprovalsPage, panel, settling, overlap, flips,
                  due, sentAway>>
  BY DEF DecisionFails, Decides
<1>2. onScreen' \in Decision \cup {NoOne}
  BY DEF DecisionFails, Decides
<1>3. PICK r \in [at : {"none", "out"}, id : Approval \cup {NoOne}] :
        /\ decision' = [decision EXCEPT ![n] = r]
        /\ r.at = "none" \/ r.id \in Approval
  BY DEF DecisionFails, Decides, Free
<1>4. \A m \in Decision : Pending(m)' => Pending(m)
  BY <1>3 DEF Pending
<1>5. \A m \in Decision : decision'[m].at = "last" => decision[m].at = "last"
  BY <1>3
<1>6. decision' \in [Decision -> [at : Stages, id : Approval \cup {NoOne}]]
  BY <1>3 DEF Stages
<1>7. Timers'
  <2>1. AskedOfOne'
    BY <1>3 DEF Timers, AskedOfOne
  <2> QED
    BY <1>1, <1>4, <1>5, <2>1 DEF Timers, OneResult, LastOwesNothing, Holding
<1> QED
  BY <1>1, <1>2, <1>6, <1>7 DEF Timers, KnowsWhatWaits, DueCanOpen, SentAwayWaits, ArrivalsOpen,
       LaterIsLater, ByItself

\* A result is held, alone or over another.
LEMMA ResultKeeps ==
  ASSUME PanelAssumption, PanelInv, NEW n \in Decision, ResultArrives(n)
  PROVE  PanelInv' /\ LaterIsLater
<1> USE DEF PanelInv, PanelTypeOK
<1> DEFINE p == decision[n].id
<1>1. /\ settling' = p /\ ids' = ids \ {p} /\ Effects /\ CardFollows
      /\ decision' = [decision EXCEPT ![n].at = IF ids \subseteq {p} THEN "last" ELSE "shown"]
      /\ overlap' = (overlap \/ \E m \in Decision : Pending(m))
      /\ UNCHANGED <<loaded, autoOpen, typing, onApprovalsPage, flips>>
  BY DEF ResultArrives
<1>2. decision[n].at = "out" /\ p \in Approval
  BY DEF ResultArrives, Timers, AskedOfOne
<1>3. PanelFlags'
  <2>1. overlap' \in BOOLEAN
    BY <1>1, Zenon
  <2> QED
    BY <1>1, <2>1 DEF PanelFlags
<1>4. Holding'
  BY <1>1, <1>2 DEF Holding, PanelAssumption
<1>5. decision' \in [Decision -> [at : Stages, id : Approval \cup {NoOne}]]
  BY <1>1 DEF Stages
<1>6. ~overlap' => \A m \in Decision : Pending(m)' => m = n
  BY <1>1 DEF Pending
<1>7. decision'[n].at = "last" => ids' = {}
  BY <1>1
<1>8. Timers'
  <2>1. AskedOfOne'
    BY <1>1, <1>2 DEF Timers, AskedOfOne
  <2>2. OneResult'
    BY <1>4, <1>6 DEF OneResult, Pending
  <2>3. DueCanOpen'
    BY <1>1, <1>3, EffectsKeep
  <2>4. LastOwesNothing'
    <3> SUFFICES ASSUME ~overlap', NEW m \in Decision, decision'[m].at = "last" PROVE due' = {}
      BY DEF LastOwesNothing
    <3>1. m = n
      BY <1>6 DEF Pending
    <3> QED
      BY <1>7, <2>3, <3>1 DEF DueCanOpen
  <2> QED
    BY <2>1, <2>2, <2>4 DEF Timers
<1> QED
  BY <1>1, <1>2, <1>3, <1>5, <1>8, EffectsKeep, CardIsKept DEF Timers, PanelFlags

\* The last timer of a result frees it, and what is held.
LEMMA ReleaseKeeps ==
  ASSUME PanelInv, NEW n \in Decision, Pending(n), Released(n)
  PROVE  PanelInv' /\ LaterIsLater
<1> USE DEF PanelInv, PanelTypeOK
<1>1. /\ settling' = NoOne /\ Effects /\ CardFollows /\ UNCHANGED <<inputs, flips>>
      /\ decision' = [decision EXCEPT ![n] = Free]
      /\ overlap' = (overlap /\ \E m \in Decision \ {n} : Pending(m))
  BY DEF Released
<1>2. PanelFlags'
  <2>1. overlap' \in BOOLEAN
    BY <1>1, Zenon
  <2> QED
    BY <1>1, <2>1 DEF PanelFlags, inputs
<1>3. decision' \in [Decision -> [at : Stages, id : Approval \cup {NoOne}]]
  BY <1>1 DEF Free, Stages
<1>4. \A m \in Decision : Pending(m)' => m # n /\ Pending(m)
  BY <1>1 DEF Pending, Free
<1>5. ~overlap' => \A m \in Decision : ~Pending(m)'
  BY <1>1, <1>4 DEF Timers, OneResult
<1>6. Timers'
  <2>1. AskedOfOne'
    BY <1>1 DEF Timers, AskedOfOne, Free
  <2> QED
    BY <1>5, <2>1 DEF Timers, OneResult, LastOwesNothing, Pending
<1> QED
  BY <1>1, <1>2, <1>3, <1>6, EffectsKeep, CardIsKept DEF Timers, PanelFlags, inputs

\* The last of what waits takes the panel out, with nothing due unless another
\* result has come.
LEMMA SlideKeeps ==
  ASSUME PanelInv, NEW n \in Decision, ResultShown(n), ~Released(n)
  PROVE  PanelInv' /\ LaterIsLater
<1> USE DEF PanelInv, PanelTypeOK
<1>1. /\ decision[n].at = "last"
      /\ decision' = [decision EXCEPT ![n].at = "sliding"]
      /\ panel' = [panel EXCEPT !.open = FALSE]
      /\ due' = IF overlap THEN {} ELSE due
      /\ UNCHANGED <<inputs, settling, onScreen, overlap, flips, sentAway>>
  BY DEF ResultShown
<1>2. due' = {}
  BY <1>1 DEF Timers, LastOwesNothing
<1>3. decision' \in [Decision -> [at : Stages, id : Approval \cup {NoOne}]]
  BY <1>1 DEF Stages
<1>4. \A m \in Decision : Pending(m)' <=> Pending(m)
  BY <1>1 DEF Pending
<1>5. Timers'
  BY <1>1, <1>2, <1>4 DEF Timers, OneResult, LastOwesNothing, AskedOfOne, Holding
<1> QED
  BY <1>1, <1>2, <1>3, <1>5 DEF Timers, inputs, KnowsWhatWaits, DueCanOpen, SentAwayWaits,
       ArrivalsOpen, LaterIsLater, ByItself

\* Every action keeps the invariant, and none opens what was sent away.
LEMMA PanelStep ==
  ASSUME PanelAssumption, PanelInv, [PanelNext]_panelVars
  PROVE  PanelInv' /\ LaterIsLater
<1> USE DEF PanelAssumption
<1>0. PanelTypeOK
  BY DEF PanelInv
<1> DEFINE Kept == PanelInv' /\ LaterIsLater
<1>1. ASSUME Loads PROVE Kept
  BY <1>0, <1>1, QuietEffects DEF Loads, PanelTypeOK, PanelFlags, cards
<1>2. ASSUME QueueChanges PROVE Kept
  BY <1>0, <1>2, QuietEffects, CardIsKept DEF QueueChanges, PanelTypeOK, PanelFlags
<1>3. ASSUME SettingChanges PROVE Kept
  BY <1>0, <1>3, QuietEffects DEF SettingChanges, PanelTypeOK, PanelFlags, cards
<1>4. ASSUME Types PROVE Kept
  BY <1>0, <1>4, QuietEffects DEF Types, PanelTypeOK, PanelFlags, cards
<1>5. ASSUME Navigates \/ GoesLater \/ Opens \/ CardUnmounts \/ UNCHANGED panelVars PROVE Kept
  BY <1>5, HandsKeep
<1>6. ASSUME NEW n \in Decision, DecisionFails(n) \/ \E p \in Approval : Decides(n, p) PROVE Kept
  BY <1>6, AskingKeeps
<1>7. ASSUME NEW n \in Decision, ResultArrives(n) PROVE Kept
  BY <1>7, ResultKeeps
<1>8. ASSUME NEW n \in Decision, ResultShown(n) \/ SlidOut(n) PROVE Kept
  <2>1. Released(n) => Pending(n)
    BY <1>8 DEF ResultShown, SlidOut, Pending
  <2>2. ~Released(n) => ResultShown(n)
    BY <1>8 DEF SlidOut
  <2> QED
    BY <2>1, <2>2, ReleaseKeeps, SlideKeeps
<1> HIDE DEF Kept
<1> QED
  BY <1>1, <1>2, <1>3, <1>4, <1>5, <1>6, <1>7, <1>8 DEF PanelNext, Kept

\* For any approvals and any number of decisions under way: through loads, polls,
\* navigation, typing, results and the setting, the panel (ApprovalPanelHost.tsx)
\* keeps its types.
THEOREM PanelTypes == ASSUME PanelAssumption PROVE PanelSpec => []PanelTypeOK
<1>1. PanelInit => PanelInv
  BY PanelInvInit
<1>2. PanelInv /\ [PanelNext]_panelVars => PanelInv'
  BY PanelStep
<1>3. PanelInv => PanelTypeOK
  BY DEF PanelInv
<1> QED
  BY <1>1, <1>2, <1>3, PTL DEF PanelSpec

\* For any approvals and any number of decisions under way: what arrives while no
\* result is held opens a panel that may open by itself, or is owed to a person
\* who types, until a result that another has come over takes the panel with it;
\* and what the person sent away does not come back by itself (reconcilePanel()
\* of approval-panel.ts, called by the effect of ApprovalPanelHost.tsx).
THEOREM PanelDoesFollow == ASSUME PanelAssumption PROVE PanelSpec => PanelFollows
<1>1. PanelInit => PanelInv
  BY PanelInvInit
<1>2. PanelInv /\ [PanelNext]_panelVars => PanelInv'
  BY PanelStep
<1>3. PanelInv' => ArrivalsOpen'
  BY DEF PanelInv
<1>4. PanelInv /\ [PanelNext]_panelVars => [ArrivalsOpen' /\ LaterIsLater]_panelVars
  BY <1>2, <1>3, PanelStep
<1> QED
  BY <1>1, <1>2, <1>4, PTL DEF PanelSpec, PanelFollows

=============================================================================
