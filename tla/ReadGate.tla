------------------------------ MODULE ReadGate ------------------------------
(* A read tool's call (tool-proxy.ts, the read branch) and the predicates   *)
(* it is decided with (read-gate.ts): what is refused before the connector  *)
(* is called, what is put into the outgoing arguments, and what is held     *)
(* back of its answer.  While the call is under way the owner may change    *)
(* the local read policy, the mandates may be synced and time passes.       *)
EXTENDS Integers, FiniteSets, FiniteSetsExt

CONSTANTS Tools,        \* read tools, as their manifests declare them
          Mandates,     \* mandates on the tool's profile
          Windows,      \* read-age windows in days
          Folders,      \* containers
          Items,        \* what the connector's account holds
          Fragments,    \* search queries of the agent
          MaxNow, MaxChanges    \* bounds: the clock, changes of policy

Day == 2                \* clock units in a day
Unset == -1
NoFolder == "none"

ReadAssumption ==
    /\ Tools \subseteq [gate : BOOLEAN, exempt : BOOLEAN, age : BOOLEAN,
                        marked : BOOLEAN, by : {"get", "query", "floor", "list", "plain"},
                        folder : {"none", "arg", "result"}, blocks : BOOLEAN]
    /\ Mandates \subseteq [complete : BOOLEAN, access : BOOLEAN, folders : SUBSET Folders,
                           window : Windows \union {Unset}, v8 : BOOLEAN]
    /\ Items \subseteq [stamp : Int, dated : BOOLEAN, folder : Folders, spam : BOOLEAN]
    /\ Fragments \subseteq [older : Windows \union {Unset}, dangling : BOOLEAN]
    /\ Windows \subseteq Nat /\ IsFiniteSet(Windows) /\ Items # {} /\ Fragments # {}
    /\ {MaxNow, MaxChanges} \subseteq Nat

VARIABLES tool, request,   \* the call: its tool and the agent's arguments
          unlocked, team,  \* signed in; the mandates are a team's
          held,            \* the enriched authorizations
          local,           \* the integration's readAgeDays
          now,
          pc,              \* asked, called, answered or the reason it was denied
          window,          \* readMaxAge, resolved before the call
          outgoing,        \* the arguments the connector gets
          result,          \* what it answered, then what is returned
          granted,         \* the policy the call was decided under (history)
          changes

readVars == <<tool, request, unlocked, team, held, local, now, pc, window, outgoing,
              result, granted, changes>>
call == <<tool, request, unlocked, team>>

Requests == [item : Items, folder : Folders \union {NoFolder},
             fragment : Fragments, since : Windows \union {Unset}]

(* Arguments the tool does not have are left at one value                   *)
ReadInit ==
    /\ tool \in Tools
    /\ request \in {r \in Requests :
          /\ tool.by # "get" => r.item = CHOOSE i \in Items : TRUE
          /\ tool.by # "query" => r.fragment = CHOOSE f \in Fragments : TRUE
          /\ tool.by # "floor" => r.since = Unset
          /\ tool.folder # "arg" => r.folder = NoFolder}
    /\ unlocked \in BOOLEAN /\ team \in BOOLEAN
    /\ held \in SUBSET Mandates
    /\ local \in Windows \union {Unset}
    /\ now = 0 /\ pc = "asked" /\ window = Unset
    /\ outgoing = request /\ result = {} /\ changes = 0
    /\ granted = [held |-> {}, local |-> Unset]

-----------------------------------------------------------------------------
(* read-gate.ts                                                             *)

ReadToolIsGoverned == tool.gate \/ tool.exempt \/ tool.by # "plain"
AllowedResources(ms) == UNION {m.folders : m \in ms}
SignedWindows(ms) == {m.window : m \in ms} \ {Unset}
MaxReadAgeDays(ms) == IF SignedWindows(ms) = {} THEN Unset ELSE Max(SignedWindows(ms))
AgeInDays(item) == (now - item.stamp) \div Day
(* As if the last day of the window were outside it                         *)
IsOlderOrAtMaxAge(item, days) == ~item.dated \/ AgeInDays(item) >= days
IsOlderThanMaxAge(item, days) == ~item.dated \/ AgeInDays(item) > days
Older(item, days) == now - item.stamp > days * Day
DetectAgeConflict(days) ==
    days # Unset /\ request.fragment.older # Unset /\ request.fragment.older >= days

(* An omitted or unparsable lower bound, or one beyond the window, becomes  *)
(* the window                                                               *)
ClampAgeFloor(since, days) == IF since # Unset /\ since <= days THEN since ELSE days

-----------------------------------------------------------------------------
(* Before the call                                                          *)

Matching == {m \in held : m.complete}

(* The signed bound is a ceiling for a team, and where a v0.8 mandate says  *)
(* so; else the local setting wins                                          *)
Ceiling == team \/ (tool.marked /\ \E m \in Matching : m.v8)
(* As if the local setting won everywhere                                   *)
ReadMaxAgeLocal == IF local = Unset THEN MaxReadAgeDays(Matching) ELSE local
ReadMaxAge == LET signed == MaxReadAgeDays(Matching)
              IN  IF Ceiling /\ signed # Unset
                  THEN IF local = Unset THEN signed ELSE Min({local, signed})
                  ELSE IF local = Unset THEN signed ELSE local

Requested == IF request.folder # NoFolder THEN request.folder ELSE "primary"

(* Why a call is refused: the first of these that applies                   *)
Reasons(days) ==
    <<[code |-> "locked",       holds |-> ~unlocked],
      [code |-> "ungoverned",   holds |-> ~ReadToolIsGoverned],
      [code |-> "no mandate",   holds |-> Matching = {}],
      [code |-> "read_gate",    holds |-> tool.gate /\ \A m \in Matching : ~m.access],
      [code |-> "unset_age",    holds |-> tool.age /\ days = Unset],
      [code |-> "resource",     holds |-> tool.folder = "arg" /\
                                            Requested \notin AllowedResources(Matching)],
      [code |-> "age_window",   holds |-> tool.by = "query" /\ DetectAgeConflict(days)],
      [code |-> "query_unsafe", holds |-> tool.by = "query" /\ request.fragment.dangling]>>
Refusals(days) == {i \in DOMAIN Reasons(days) : Reasons(days)[i].holds}

(* The folder is pinned, the floor clamped                                  *)
Outgoing(days) ==
    [request EXCEPT
       !.folder = IF tool.folder = "arg" THEN Requested ELSE @,
       !.since = IF tool.by = "floor" /\ tool.age THEN ClampAgeFloor(@, days) ELSE @]

(* The window is resolved once; what is refused is refused before the call  *)
Decide ==
    /\ pc = "asked"
    /\ window' = IF tool.age THEN ReadMaxAge ELSE Unset
    /\ granted' = [held |-> Matching, local |-> local]
    /\ IF Refusals(window') = {}
       THEN pc' = "called" /\ outgoing' = Outgoing(window')
       ELSE pc' = Reasons(window')[Min(Refusals(window'))].code /\ UNCHANGED outgoing
    /\ UNCHANGED <<call, held, local, now, result, changes>>

-----------------------------------------------------------------------------
(* The connector answers, and the answer is looked at                       *)

MatchesFragment(item) ==
    request.fragment.older = Unset \/ Older(item, request.fragment.older)
InFolder(item) == tool.folder = "arg" => item.folder = outgoing.folder

(* composeReadQuery() brackets the fragment, the ceiling is ANDed to it     *)
MatchesQuery(item) ==
    /\ MatchesFragment(item)
    /\ window # Unset => ~Older(item, window)
    /\ tool.blocks => ~item.spam

Found == CASE tool.by = "get"   -> {item \in {request.item} : InFolder(item)}
           [] tool.by = "query" -> {item \in Items : InFolder(item) /\ MatchesQuery(item)}
           [] tool.by = "floor" -> {item \in Items : InFolder(item)
                                      /\ (outgoing.since # Unset
                                            => ~Older(item, outgoing.since))}
           [] OTHER             -> {item \in Items : InFolder(item)}

(* A single item in an excluded container, or beyond the window, is denied; *)
(* an enumeration is filtered                                               *)
BlockedItems(items) == tool.by = "get" /\ tool.blocks /\ \E item \in items : item.spam
TooOld(items) == /\ tool.by = "get" /\ tool.age
                 /\ (items = {} \/ \E item \in items : IsOlderThanMaxAge(item, window))
Visible(items) == IF tool.folder = "result"
                  THEN {item \in items : item.folder \in AllowedResources(granted.held)}
                  ELSE items

ReadAnswers ==
    /\ pc = "called"
    /\ pc' = IF BlockedItems(Found) THEN "spam"
             ELSE IF TooOld(Found) THEN "age" ELSE "answered"
    /\ result' = IF pc' = "answered" THEN Visible(Found) ELSE {}
    /\ UNCHANGED <<call, held, local, now, window, outgoing, granted, changes>>

-----------------------------------------------------------------------------
(* Meanwhile: the owner's setting, a sync of the mandates, the clock        *)
Changed == changes < MaxChanges /\ changes' = changes + 1
Underway == pc \in {"asked", "called"}

SetReadAge == /\ Underway /\ Changed
              /\ \E days \in (Windows \union {Unset}) \ {local} : local' = days
              /\ UNCHANGED <<call, held, now, pc, window, outgoing, result, granted>>
Sync == /\ Underway /\ Changed /\ held' = {} /\ held # {}
        /\ UNCHANGED <<call, local, now, pc, window, outgoing, result, granted>>
Tick == /\ Underway /\ now < MaxNow /\ now' = now + 1
        /\ UNCHANGED <<call, held, local, pc, window, outgoing, result, granted, changes>>

ReadNext == Decide \/ ReadAnswers \/ SetReadAge \/ Sync \/ Tick
ReadSpec == ReadInit /\ [][ReadNext]_readVars

-----------------------------------------------------------------------------
(* The state each variable ranges over.                                     *)
ReadTypeOK ==
    /\ tool \in Tools /\ request \in Requests /\ outgoing \in Requests
    /\ {unlocked, team} \subseteq BOOLEAN
    /\ held \subseteq Mandates /\ {local, window} \subseteq Windows \union {Unset}
    /\ pc \in {"asked", "called", "answered", "age", "spam", "locked", "ungoverned", "no mandate",
               "read_gate", "unset_age", "resource", "age_window", "query_unsafe"}
    /\ result \subseteq Items /\ (result # {} => pc = "answered")

Returned == IF pc = "answered" THEN result ELSE {}
Bounded == tool.age /\ tool.by \in {"get", "query", "floor"}

(* The age rule, item by item: under a ceiling some mandate that sets a     *)
(* window covers the item and the owner's setting, if any, covers it too;   *)
(* otherwise the owner's setting decides, and the mandates only without it. *)
Within(days, item) == days # Unset /\ AgeInDays(item) <= days
Covered(item) == \E m \in granted.held : Within(m.window, item)
Ceilinged == /\ team \/ (tool.marked /\ \E m \in granted.held : m.v8)
             /\ \E m \in granted.held : m.window # Unset
AgePermits(item) ==
    IF Ceilinged THEN Covered(item) /\ (granted.local = Unset \/ Within(granted.local, item))
    ELSE IF granted.local = Unset THEN Covered(item) ELSE Within(granted.local, item)

(* Whatever the agent asks for and however the window changes during the    *)
(* call, no item is returned that the policy the call was accepted under    *)
(* does not cover, and never one whose age cannot be told.                  *)
InsideTheWindow == Bounded => \A item \in Returned :
                                /\ AgePermits(item)
                                /\ tool.by = "get" => item.dated

(* An item of a bounded container comes from one some mandate names, and    *)
(* nothing comes from spam or trash, neither by searching nor by its id.    *)
InsideTheFolders ==
    \A item \in Returned :
        /\ tool.folder # "none" =>
             \E m \in granted.held : item.folder \in m.folders
        /\ tool.blocks /\ tool.by \in {"get", "query"} => ~item.spam

(* A read happens only signed in, under a complete mandate and, where the   *)
(* tool has a gate, one that opens it.                                      *)
ReadsAreGranted ==
    pc \in {"called", "answered"} =>
        /\ unlocked /\ granted.held # {}
        /\ \A m \in granted.held : m.complete
        /\ tool.gate => \E m \in granted.held : m.access

(* An item the mandates and the owner cover is not refused by its id: the   *)
(* gate withholds nothing it was not told to.                               *)
CoveredIsReadable ==
    pc = "age" => /\ tool.by = "get"
                  /\ \/ ~request.item.dated
                     \/ ~AgePermits(request.item)
                     \/ ~InFolder(request.item)

(* Reads follow the policy: what is answered was granted, lies in the       *)
(* folders of the mandates and within the window of the policy in force;    *)
(* and what the policy covers can be read.                                  *)
ReadsFollowThePolicy ==
    ReadsAreGranted /\ InsideTheFolders /\ InsideTheWindow /\ CoveredIsReadable

(* Every read tool with an age dimension is bounded by the window           *)
(* (tool-proxy.ts: "the item must fall inside the most-permissive           *)
(* read_max_age_days window").                                              *)
EveryAgeIsBounded == tool.age => \A item \in Returned : AgePermits(item)

(* A search for old items that comes back empty means there are none        *)
(* (tool-proxy.ts: "Silence here manufactures false answers").              *)
EmptyMeansNone ==
    pc = "answered" /\ tool.by = "query" /\ request.fragment.older # Unset /\ result = {}
        => \A item \in Items : ~(MatchesFragment(item) /\ ~item.spam)
=============================================================================
