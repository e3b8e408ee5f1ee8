---------------------- MODULE AutomaticExecutionProofs -----------------------
(***************************************************************************)
(* Theorems about AutomaticExecution and the fallback it chooses mandates  *)
(* by, for every set of calls, mandates, keys, values, scopes and modes,   *)
(* every capacity, and every number of attempts, failures and crashes.     *)
(*                                                                         *)
(* The fallback first: the text comparison of scope-specificity.ts, key by *)
(* key over token sets, is shown to be what it stands for, the inclusion   *)
(* of the covered calls; what is chosen then follows from the dominators   *)
(* and the tie-break, with a pool that never loses a mandate that wants    *)
(* approval.                                                               *)
(***************************************************************************)
EXTENDS AutomaticExecution, SelectionFallback, WellFoundedInduction, TLAPS

-----------------------------------------------------------------------------
(* The fallback.                                                            *)

\* Among the ids of any mandates one comes first.
LEMMA FirstExists ==
  ASSUME RankAssumption, NEW S \in SUBSET Mandate, S # {}
  PROVE  \E m \in S : \A n \in S : Rank[m] <= Rank[n]
<1> DEFINE R == {Rank[m] : m \in S}
<1>1. R \subseteq Nat /\ R # {}
  BY DEF RankAssumption
<1>2. \E x \in R : \A y \in R : ~(<<y, x>> \in OpToRel(<, Nat))
  <2> HIDE DEF R
  <2> QED
    BY <1>1, NatLessThanWellFounded, WFMin, Zenon
<1>3. \E x \in R : \A y \in R : ~(y < x)
  BY <1>1, <1>2, Zenon DEF OpToRel
<1>4. PICK m \in S : \A y \in R : ~(y < Rank[m])
  BY <1>3
<1>5. \A n \in S : Rank[n] \in R /\ Rank[n] \in Nat /\ Rank[m] \in Nat
  BY DEF RankAssumption
<1>6. \A n \in S : Rank[m] <= Rank[n]
  <2> TAKE n \in S
  <2>1. ~(Rank[n] < Rank[m]) /\ Rank[n] \in Nat /\ Rank[m] \in Nat
    BY <1>4, <1>5
  <2> HIDE DEF R
  <2> QED
    BY <2>1
<1> QED
  BY <1>6

\* The choice is a dominator if there is one, else one of the tie-break.
LEMMA SelectIsMeant ==
  ASSUME RankAssumption, NEW P \in SUBSET Mandate, P # {}, NEW scope, NEW review
  PROVE  /\ Select(P, scope, review) \in P
         /\ Dominators(P, scope) # {} => Select(P, scope, review) \in Dominators(P, scope)
         /\ Dominators(P, scope) = {} => Select(P, scope, review) \in FailSafe(P, scope, review)
<1> DEFINE D == Dominators(P, scope)
           F == FailSafe(P, scope, review)
           G == IF D # {} THEN D ELSE F
<1>1. D \subseteq P
  BY DEF Dominators
<1>2. F # {} /\ F \subseteq P
  <2> DEFINE from == IF P \cap review # {} THEN P \cap review ELSE P
  <2>1. from \in (SUBSET Mandate) \ {{}} /\ from \subseteq P
    OBVIOUS
  <2>2. F = {m \in from : \A n \in from : Rank[m] <= Rank[n]}
    BY DEF FailSafe
  <2>3. QED BY <2>1, <2>2, FirstExists
<1>3. \E m \in P : m \in G
  BY <1>1, <1>2
<1>4. Select(P, scope, review) = CHOOSE m \in P : m \in G
  BY DEF Select
<1>5. Select(P, scope, review) \in P /\ Select(P, scope, review) \in G
  BY <1>3, <1>4
<1>6. QED BY <1>5

\* What is chosen without approval is strictly more specific than every
\* candidate that wants one.
LEMMA UnreviewedIsNarrower ==
  ASSUME RankAssumption, NEW P \in SUBSET Mandate, NEW scope, NEW review,
         Select(P, scope, review) \notin review, NEW m \in P \cap review
  PROVE  StrictlyMoreSpecific(scope[Select(P, scope, review)], scope[m])
<1>1. Dominators(P, scope) # {}
  <2>1. FailSafe(P, scope, review) \subseteq review
    BY DEF FailSafe
  <2>2. QED BY <2>1, SelectIsMeant
<1>2. Select(P, scope, review) \in Dominators(P, scope)
  BY <1>1, SelectIsMeant
<1>3. QED BY <1>2 DEF Dominators

-----------------------------------------------------------------------------
\* subsetOrEqual() on every key holds exactly if every covered call of the
\* first scope is one of the second: the empty set stands for every value.
LEMMA SpecificIsInclusion ==
  ASSUME OtherAssumption, NEW a \in Scope, NEW b \in Scope
  PROVE  AtLeastAsSpecific(a, b) <=> Covered(a) \subseteq Covered(b)
<1>1. ASSUME AtLeastAsSpecific(a, b)
      PROVE  Covered(a) \subseteq Covered(b)
  BY <1>1 DEF AtLeastAsSpecific, SubsetOrEqual, Covered
<1>2. ASSUME NEW k \in Key, ~ SubsetOrEqual(a[k], b[k])
      PROVE  ~ (Covered(a) \subseteq Covered(b))
  <2>1. PICK v \in Value \cup {"other"} : (a[k] = {} \/ v \in a[k]) /\ v \notin b[k]
    <3>1. CASE a[k] = {}
      <4>1. "other" \notin b[k]
        BY DEF OtherAssumption, Scope
      <4>2. QED BY <4>1, <3>1
    <3>2. CASE a[k] # {}
      <4>1. PICK v \in a[k] : v \notin b[k]
        BY <1>2, <3>2 DEF SubsetOrEqual
      <4>2. v \in Value
        BY <4>1 DEF Scope
      <4>3. QED BY <4>1, <4>2
    <3>3. QED BY <3>1, <3>2
  <2>2. b[k] # {}
    BY <1>2 DEF SubsetOrEqual
  <2> DEFINE e == [j \in Key |-> IF j = k THEN v
                                 ELSE IF a[j] = {} THEN "other" ELSE CHOOSE x \in a[j] : TRUE]
  <2>3. \A j \in Key : e[j] \in Value \cup {"other"} /\ (a[j] = {} \/ e[j] \in a[j])
    <3>1. TAKE j \in Key
    <3>2. CASE j = k
      BY <3>2, <2>1
    <3>3. CASE j # k /\ a[j] = {}
      BY <3>3
    <3>4. CASE j # k /\ a[j] # {}
      <4>1. e[j] \in a[j]
        BY <3>4
      <4>2. a[j] \subseteq Value
        BY DEF Scope
      <4>3. QED BY <4>1, <4>2
    <3>5. QED BY <3>2, <3>3, <3>4
  <2>4. e \in Covered(a)
    BY <2>3 DEF Covered
  <2>5. e[k] = v
    OBVIOUS
  <2>6. e \notin Covered(b)
    BY <2>1, <2>2, <2>5 DEF Covered
  <2>7. QED BY <2>4, <2>6
<1>3. QED BY <1>1, <1>2 DEF AtLeastAsSpecific

\* The strict comparison is proper inclusion, hence asymmetric.
LEMMA StrictIsProper ==
  ASSUME OtherAssumption, NEW a \in Scope, NEW b \in Scope
  PROVE  StrictlyMoreSpecific(a, b) <=>
           Covered(a) \subseteq Covered(b) /\ Covered(a) # Covered(b)
BY SpecificIsInclusion DEF StrictlyMoreSpecific

-----------------------------------------------------------------------------
\* What the pool keeps through every fallback: it is never empty, and the
\* mandates under review stay in it.
PoolKeepsReview ==
  /\ signedScope \in [Mandate -> Scope]
  /\ passedChecks \subseteq Mandate /\ candidates \subseteq passedChecks /\ candidates # {}
  /\ signedReview \subseteq candidates

LEMMA PoolKept == SelectionSpec => []PoolKeepsReview
<1>1. SelectionInit => PoolKeepsReview
  BY DEF SelectionInit, PoolKeepsReview
<1>2. PoolKeepsReview /\ [SelectionNext]_selectionVars => PoolKeepsReview'
  BY DEF PoolKeepsReview, SelectionNext, SelectionFallsBack, selectionVars
<1>3. QED BY <1>1, <1>2, PTL DEF SelectionSpec

\* What follows in every state with such a pool.
LEMMA PoolDecides ==
  ASSUME RankAssumption, OtherAssumption, PoolKeepsReview
  PROVE  SpecificMeansFewer /\ NeverWeakened /\ ExceptionWins
<1>1. \A m \in Mandate : signedScope[m] \in Scope
  BY DEF PoolKeepsReview
<1>2. SpecificMeansFewer
  BY <1>1, StrictIsProper DEF SpecificMeansFewer, PoolKeepsReview
<1>3. candidates \subseteq Mandate
  BY DEF PoolKeepsReview
<1>4. /\ Chosen \in candidates
      /\ Dominators(candidates, signedScope) # {} => Chosen \in Dominators(candidates, signedScope)
  BY <1>3, SelectIsMeant DEF Chosen, PoolKeepsReview
<1>5. NeverWeakened
  <2> SUFFICES ASSUME Chosen \notin signedReview, NEW m \in signedReview \cap passedChecks
               PROVE  /\ Covered(signedScope[Chosen]) \subseteq Covered(signedScope[m])
                      /\ Covered(signedScope[Chosen]) # Covered(signedScope[m])
    BY DEF NeverWeakened
  <2>1. m \in candidates \cap signedReview
    BY DEF PoolKeepsReview
  <2>2. StrictlyMoreSpecific(signedScope[Chosen], signedScope[m])
    BY <1>3, <2>1, UnreviewedIsNarrower DEF Chosen
  <2>3. QED BY <2>1, <2>2, <1>1, <1>3, <1>4, StrictIsProper
<1>6. ExceptionWins
  <2> SUFFICES ASSUME NEW m \in candidates,
                      \A n \in candidates \ {m} :
                        /\ Covered(signedScope[m]) \subseteq Covered(signedScope[n])
                        /\ Covered(signedScope[m]) # Covered(signedScope[n])
               PROVE  Chosen = m
    BY DEF ExceptionWins
  <2>1. \A n \in candidates \ {m} : StrictlyMoreSpecific(signedScope[m], signedScope[n])
    BY <1>1, <1>3, StrictIsProper
  <2>2. m \in Dominators(candidates, signedScope)
    BY <2>1 DEF Dominators
  <2>3. Chosen \in Dominators(candidates, signedScope)
    BY <2>2, <1>4
  <2>4. ASSUME Chosen # m PROVE FALSE
    <3>1. StrictlyMoreSpecific(signedScope[Chosen], signedScope[m])
      BY <2>3, <2>4 DEF Dominators
    <3>2. StrictlyMoreSpecific(signedScope[m], signedScope[Chosen])
      BY <2>1, <2>4, <1>4
    <3>3. QED BY <3>1, <3>2 DEF StrictlyMoreSpecific
  <2>5. QED BY <2>4
<1>7. QED BY <1>2, <1>5, <1>6

\* For any number of mandates, keys and values, and after any number of
\* fallbacks: specificity means fewer calls, a narrower exception is used, and
\* nothing runs unapproved that a mandate covering no more wanted to see.
THEOREM SelectionSound ==
  ASSUME RankAssumption, OtherAssumption
  PROVE  SelectionSpec => []SelectionIsSound
<1>1. PoolKeepsReview => SelectionIsSound
  BY PoolDecides DEF SelectionIsSound
<1>2. QED BY <1>1, PoolKept, PTL

-----------------------------------------------------------------------------
(* The executions.                                                          *)

Assumed == RankAssumption /\ MandateAssumption /\ AttemptsAssumption

-----------------------------------------------------------------------------
(* The inductive invariant, call by call.                                   *)

\* The mandate in use was not signed for review and is narrower than every
\* candidate that wants approval.
Free(c) ==
  /\ at[c].mandate \in Mandate
  /\ Mode[at[c].mandate] # "review"
  /\ \A n \in at[c].passers :
       RequiresApproval(n) => StrictlyMoreSpecific(ScopeOf[at[c].mandate], ScopeOf[n])

Evidenced(k) == k \in issued /\ k \in archive /\ journal.row[k].ticket = 1

\* A request under way or answered was recorded first.  Only the mandate in
\* use can have a ticket, or get one: what is still under way for another one
\* will be refused, since that is why it was given up.
TicketsAreLast(c) ==
  \A m \in Mandate :
    /\ <<c, m>> \in wire \cup issued =>
         at[c].pc \notin {"idle", "checks"} /\ journal.row[<<c, m>>].state # "none"
    /\ <<c, m>> \in issued => m = at[c].mandate
    /\ <<c, m>> \in wire /\ m # at[c].mandate => validity[m] # "valid"

Asking(c) ==
  at[c].pc = "ask" =>
    /\ journal.row[KeyOf(c)].state # "none"
    /\ FallsBack(at[c].answer) => validity[at[c].mandate] # "valid" /\ KeyOf(c) \notin issued
    /\ at[c].answer = "ticket" => KeyOf(c) \in issued
    /\ at[c].pool \subseteq at[c].passers
    /\ \A n \in at[c].passers : RequiresApproval(n) => n \in at[c].pool

Running(c) ==
  /\ at[c].pc \in {"ask", "evidence", "begun", "call"} => Free(c) /\ at[c].reply = "none"
  /\ at[c].pc = "evidence" => KeyOf(c) \in issued
  /\ at[c].pc \in {"begun", "call"} =>
       Evidenced(KeyOf(c)) /\ journal.row[KeyOf(c)].state = "intent"
  /\ at[c].pc = "call" => runs[KeyOf(c)] = 1

\* A call that was made was made by this mandate, is the last thing done, and
\* has its evidence.
Ran(c) ==
  \A m \in Mandate : runs[<<c, m>>] > 0 =>
    /\ m = at[c].mandate /\ Free(c)
    /\ at[c].pc \in {"call", "over", "dead"} /\ at[c].reply # "nothing ran"
    /\ Evidenced(<<c, m>>) /\ journal.row[<<c, m>>].state \in {"intent", "done", "failed"}
    /\ runs[<<c, m>>] = 1

CallIsSound(c) == TicketsAreLast(c) /\ Asking(c) /\ Running(c) /\ Ran(c)

Sound == TypeOK /\ \A c \in Call : CallIsSound(c)

-----------------------------------------------------------------------------
(* The journal's operators, on the keys <<call, mandate>>.                  *)

\* From K, by a method for the key k, to L.
JournalStep(K, k, L) ==
  /\ L \in J!JournalType
  /\ \A r \in Request \ {k} : L.row[r] = K.row[r]
  /\ \A r \in Request : K.row[r].state # "none" => L.row[r].state # "none"

LEMMA JournalSteps ==
  ASSUME NEW K \in J!JournalType, NEW k \in Request, NEW s \in {"done", "failed"}
  PROVE  /\ JournalStep(K, k, J!Requested(K, k))
         /\ JournalStep(K, k, J!RefusedBeforeTicket(K, k))
         /\ JournalStep(K, k, J!Begin(K, k, 1))
         /\ JournalStep(K, k, J!Complete(K, k, s, ""))
<1> USE DEF JournalStep, J!JournalType, J!Row, J!RowState, J!Outcome
<1>1. K.row \in [Request -> J!Row] /\ K.row[k] \in J!Row
  OBVIOUS
<1>2. JournalStep(K, k, J!Requested(K, k))
  BY <1>1 DEF J!Requested
<1>3. JournalStep(K, k, J!RefusedBeforeTicket(K, k))
  BY <1>1 DEF J!RefusedBeforeTicket
<1>4. JournalStep(K, k, J!Begin(K, k, 1))
  BY <1>1 DEF J!Begin
<1>5. JournalStep(K, k, J!Complete(K, k, s, ""))
  BY <1>1 DEF J!Complete
<1>6. QED BY <1>2, <1>3, <1>4, <1>5

\* What each method writes into the row of its key.
LEMMA JournalRows ==
  ASSUME NEW K \in J!JournalType, NEW k \in Request, NEW s \in {"done", "failed"}
  PROVE  /\ J!Requested(K, k).row[k].state # "none"
         /\ J!Begin(K, k, 1).row[k].state = "intent" /\ J!Begin(K, k, 1).row[k].ticket = 1
         /\ J!Complete(K, k, s, "").row[k].state = s
         /\ J!Complete(K, k, s, "").row[k].ticket = K.row[k].ticket
BY DEF J!JournalType, J!Row, J!RowState, J!Outcome, J!Requested, J!Begin, J!Complete

-----------------------------------------------------------------------------
\* A call is untouched by what changes nothing of its own: others may get
\* tickets, mandates may become invalid, requests may be lost.
LEMMA Frame ==
  ASSUME Sound, NEW c \in Call, at'[c] = at[c],
         \A m \in Mandate :
           /\ <<c, m>> \in wire' => <<c, m>> \in wire
           /\ <<c, m>> \in issued' <=> <<c, m>> \in issued
           /\ <<c, m>> \in archive => <<c, m>> \in archive'
           /\ journal'.row[<<c, m>>] = journal.row[<<c, m>>]
           /\ runs'[<<c, m>>] = runs[<<c, m>>]
           /\ validity[m] # "valid" => validity'[m] # "valid"
  PROVE  CallIsSound(c)'
<1> USE DEF KeyOf
<1>1. CallIsSound(c)
  BY DEF Sound
<1>2. TicketsAreLast(c)'
  BY <1>1 DEF CallIsSound, TicketsAreLast
<1>3. at[c].pc = "ask" => at[c].mandate \in Mandate
  BY <1>1 DEF CallIsSound, Running, Free
<1>4. Asking(c)'
  BY <1>1, <1>3 DEF CallIsSound, Asking
<1>5. Free(c)' <=> Free(c)
  BY DEF Free
<1>6. Running(c)'
  BY <1>1, <1>5 DEF CallIsSound, Running, Evidenced, Free
<1>7. Ran(c)'
  BY <1>1, <1>5 DEF CallIsSound, Ran, Evidenced
<1>8. QED BY <1>2, <1>4, <1>6, <1>7 DEF CallIsSound

LEMMA Others ==
  ASSUME Sound, NEW c \in Call,
         \A d \in Call \ {c} : at'[d] = at[d],
         validity' = validity, archive \subseteq archive',
         \A r \in Request : r[1] # c =>
           /\ r \in wire' => r \in wire
           /\ r \in issued' <=> r \in issued
           /\ journal'.row[r] = journal.row[r]
           /\ runs'[r] = runs[r]
  PROVE  \A d \in Call \ {c} : CallIsSound(d)'
<1> TAKE d \in Call \ {c}
<1>1. \A m \in Mandate : <<d, m>> \in Request /\ <<d, m>>[1] # c
  BY DEF Request
<1>2. QED BY <1>1, Frame

-----------------------------------------------------------------------------
(* Selecting a mandate.                                                     *)

\* An attempt under m leaves the call as a: ended, about to propose, or asking
\* for a ticket under a mandate it may use by itself.
Attempted(c, passers, pool, J0, m, a) ==
  /\ at' = [at EXCEPT ![c] = a]
  /\ a.passers = passers /\ a.pool = pool /\ a.mandate = m /\ a.answer = "none"
  /\ \/ /\ a.pc \in {"over", "proposal"}
        /\ journal' = J0 /\ wire' = wire
     \/ /\ a.pc = "ask" /\ a.reply = "none"
        /\ Mode[m] # "review"
        /\ \A n \in passers :
             RequiresApproval(n) => StrictlyMoreSpecific(ScopeOf[m], ScopeOf[n])
        /\ journal' = J!Requested(J0, <<c, m>>)
        /\ wire' = wire \cup {<<c, m>>}

LEMMA AttemptCases ==
  ASSUME Assumed, NEW c \in Call,
         NEW passers \in SUBSET Mandate, NEW pool \in SUBSET passers, pool # {},
         \A n \in passers : RequiresApproval(n) => n \in pool,
         NEW J0, Attempt(c, passers, pool, J0)
  PROVE  \E m \in pool : \E a \in At : Attempted(c, passers, pool, J0, m, a)
<1> DEFINE review == {n \in Mandate : RequiresApproval(n)}
           m == Select(pool, ScopeOf, review)
           Next0(pc, n, reply) == [pc |-> pc, passers |-> passers, pool |-> pool,
                                     mandate |-> m, attempt |-> n, answer |-> "none",
                                     reply |-> reply]
<1>1. pool \in SUBSET Mandate /\ m \in pool
  BY SelectIsMeant DEF Assumed
<1>2. \A pc \in Pc, n \in {0, 1}, reply \in Reply : Next0(pc, n, reply) \in At
  <2>1. {0, 1} \subseteq 0 .. MaxAttempts
    BY DEF Assumed, AttemptsAssumption
  <2>2. m \in Mandate \cup {NoMandate} /\ "none" \in Answer
    BY <1>1 DEF Answer
  <2>3. QED BY <1>1, <2>1, <2>2 DEF At
<1>3. ~ RequiresApproval(m) =>
        \A n \in passers : RequiresApproval(n) => StrictlyMoreSpecific(ScopeOf[m], ScopeOf[n])
  <2> SUFFICES ASSUME ~ RequiresApproval(m), NEW n \in passers, RequiresApproval(n)
               PROVE  StrictlyMoreSpecific(ScopeOf[m], ScopeOf[n])
    OBVIOUS
  <2>1. m \notin review /\ n \in pool \cap review
    OBVIOUS
  <2>2. QED BY <1>1, <2>1, UnreviewedIsNarrower DEF Assumed
<1>4. ~ RequiresApproval(m) /\ ~ Downgrade(m) => Mode[m] # "review"
  BY DEF RequiresApproval, Downgrade
<1>5. \/ \E pc \in {"over", "proposal"}, reply \in Reply :
            at' = [at EXCEPT ![c] = Next0(pc, 0, reply)] /\ journal' = J0 /\ wire' = wire
      \/ /\ ~ RequiresApproval(m) /\ ~ Downgrade(m)
         /\ at' = [at EXCEPT ![c] = Next0("ask", 1, "none")]
         /\ journal' = J!Requested(J0, <<c, m>>)
         /\ wire' = wire \cup {<<c, m>>}
  BY DEF Attempt, RecordRequest, Reply
<1>6. CASE \E pc \in {"over", "proposal"}, reply \in Reply :
             at' = [at EXCEPT ![c] = Next0(pc, 0, reply)] /\ journal' = J0 /\ wire' = wire
  <2>1. PICK pc \in {"over", "proposal"}, reply \in Reply :
             at' = [at EXCEPT ![c] = Next0(pc, 0, reply)] /\ journal' = J0 /\ wire' = wire
    BY <1>6
  <2>2. Next0(pc, 0, reply) \in At
    BY <1>2 DEF Pc
  <2>3. QED BY <1>1, <2>1, <2>2 DEF Attempted
<1>7. CASE /\ ~ RequiresApproval(m) /\ ~ Downgrade(m)
           /\ at' = [at EXCEPT ![c] = Next0("ask", 1, "none")]
           /\ journal' = J!Requested(J0, <<c, m>>)
           /\ wire' = wire \cup {<<c, m>>}
  <2>1. Next0("ask", 1, "none") \in At
    BY <1>2 DEF Pc, Reply
  <2>2. QED BY <1>1, <1>3, <1>4, <1>7, <2>1 DEF Attempted
<1>8. QED BY <1>5, <1>6, <1>7

\* An attempt is sound when no ticket of this call is left, nor on its way.
LEMMA AttemptSound ==
  ASSUME Assumed, Sound, NEW c \in Call,
         NEW passers \in SUBSET Mandate, NEW pool \in SUBSET passers, pool # {},
         \A n \in passers : RequiresApproval(n) => n \in pool,
         NEW J0 \in J!JournalType, Attempt(c, passers, pool, J0),
         \A r \in Request : r[1] # c => J0.row[r] = journal.row[r],
         \A m \in Mandate :
           /\ <<c, m>> \notin issued /\ runs[<<c, m>>] = 0
           /\ <<c, m>> \in wire => validity[m] # "valid" /\ J0.row[<<c, m>>].state # "none",
         cache' \in SUBSET Mandate, flagged' \in SUBSET Mandate,
         UNCHANGED <<asVars, archive, outcomes, faults>>
  PROVE  Sound'
<1> USE DEF asVars, outcomes
<1>1. PICK m \in pool, a \in At : Attempted(c, passers, pool, J0, m, a)
  BY AttemptCases
<1>2. /\ at' = [at EXCEPT ![c] = a]
      /\ a.passers = passers /\ a.pool = pool /\ a.mandate = m /\ a.answer = "none"
      /\ \/ /\ a.pc \in {"over", "proposal"}
            /\ journal' = J0 /\ wire' = wire
         \/ /\ a.pc = "ask" /\ a.reply = "none"
            /\ Mode[m] # "review"
            /\ \A n \in passers :
                 RequiresApproval(n) => StrictlyMoreSpecific(ScopeOf[m], ScopeOf[n])
            /\ journal' = J!Requested(J0, <<c, m>>)
            /\ wire' = wire \cup {<<c, m>>}
  BY <1>1 DEF Attempted
<1>3. at'[c] = a /\ \A d \in Call \ {c} : at'[d] = at[d]
  BY <1>2 DEF Sound, TypeOK
<1>4. m \in Mandate /\ <<c, m>> \in Request
  BY DEF Request
<1>5. /\ journal' \in J!JournalType
      /\ \A r \in Request \ {<<c, m>>} : journal'.row[r] = J0.row[r]
      /\ \A r \in Request : J0.row[r].state # "none" => journal'.row[r].state # "none"
      /\ a.pc = "ask" => journal'.row[<<c, m>>].state # "none"
  <2>1. CASE a.pc = "ask"
    <3>1. journal' = J!Requested(J0, <<c, m>>)
      BY <1>2, <2>1
    <3>2. "done" \in {"done", "failed"}
      OBVIOUS
    <3>3. /\ journal' \in J!JournalType
          /\ \A r \in Request \ {<<c, m>>} : journal'.row[r] = J0.row[r]
          /\ \A r \in Request : J0.row[r].state # "none" => journal'.row[r].state # "none"
      BY <1>4, <3>1, <3>2, JournalSteps DEF JournalStep
    <3>4. journal'.row[<<c, m>>].state # "none"
      BY <1>4, <3>1, <3>2, JournalRows
    <3>5. QED BY <3>3, <3>4
  <2>2. CASE a.pc # "ask"
    BY <1>2, <2>2
  <2>3. QED BY <2>1, <2>2
<1>6. TypeOK'
  BY <1>2, <1>4, <1>5 DEF Sound, TypeOK
<1>7. \A d \in Call \ {c} : CallIsSound(d)'
  <2>1. \A r \in Request : r[1] # c =>
           /\ r \in wire' => r \in wire
           /\ r \in issued' <=> r \in issued
           /\ journal'.row[r] = journal.row[r]
           /\ runs'[r] = runs[r]
    BY <1>2, <1>5
  <2>2. QED BY <1>3, <2>1, Others
<1>8. CallIsSound(c)'
  <2>1. TicketsAreLast(c)'
    <3>1. \A n \in Mandate : <<c, n>> \in Request
      BY DEF Request
    <3>2. QED BY <1>2, <1>3, <1>5, <3>1 DEF TicketsAreLast
  <2>2. Asking(c)'
    BY <1>2, <1>3, <1>4, <1>5 DEF Asking, KeyOf, FallsBack
  <2>3. Free(c)' \/ a.pc \in {"over", "proposal"}
    BY <1>2, <1>3, <1>4 DEF Free
  <2>4. Running(c)'
    BY <1>2, <1>3, <2>3 DEF Running
  <2>5. Ran(c)'
    <3>1. \A n \in Mandate : runs'[<<c, n>>] = 0
      OBVIOUS
    <3>2. \A n \in Mandate : ~ (runs'[<<c, n>>] > 0)
      BY <3>1
    <3>3. QED BY <3>2 DEF Ran
  <2>6. QED BY <2>1, <2>2, <2>4, <2>5 DEF CallIsSound
<1>9. QED
  <2>1. \A d \in Call : CallIsSound(d)'
    BY <1>7, <1>8
  <2>2. QED BY <1>6, <2>1 DEF Sound

-----------------------------------------------------------------------------
(* The steps.                                                               *)

\* A step of one call c is sound when it is sound for c.
LEMMA OneCall ==
  ASSUME Sound, NEW c \in Call, TypeOK', CallIsSound(c)',
         \A d \in Call \ {c} : at'[d] = at[d],
         validity' = validity, archive \subseteq archive',
         \A r \in Request : r[1] # c =>
           /\ r \in wire' => r \in wire
           /\ r \in issued' <=> r \in issued
           /\ journal'.row[r] = journal.row[r]
           /\ runs'[r] = runs[r]
  PROVE  Sound'
<1>1. \A d \in Call \ {c} : CallIsSound(d)'
  BY Others
<1>2. QED BY <1>1 DEF Sound

\* A call that has not chosen a mandate has asked for nothing; one that waits
\* has run nothing.
LEMMA NotYet ==
  ASSUME Sound, NEW c \in Call, at[c].pc \notin {"call", "over", "dead"}
  PROVE  \A m \in Mandate :
           /\ runs[<<c, m>>] = 0 /\ ~ (runs[<<c, m>>] > 0)
           /\ at[c].pc \in {"idle", "checks"} => <<c, m>> \notin wire \cup issued
<1> SUFFICES ASSUME NEW m \in Mandate
             PROVE  /\ runs[<<c, m>>] = 0 /\ ~ (runs[<<c, m>>] > 0)
                    /\ at[c].pc \in {"idle", "checks"} => <<c, m>> \notin wire \cup issued
  OBVIOUS
<1>1. CallIsSound(c) /\ <<c, m>> \in Request
  BY DEF Sound, Request
<1>2. runs[<<c, m>>] \in Nat /\ ~ (runs[<<c, m>>] > 0)
  BY <1>1 DEF Sound, TypeOK, CallIsSound, Ran
<1>3. QED BY <1>1, <1>2 DEF CallIsSound, TicketsAreLast

LEMMA InitSound ==
  ASSUME Assumed, Init
  PROVE  Sound
<1>1. Idle \in At
  BY DEF Assumed, AttemptsAssumption, Idle, At, Pc, Answer, Reply
<1>2. J!EmptyJournal \in J!JournalType
  BY DEF J!EmptyJournal, J!JournalType, J!NoRow, J!Row, J!RowState, J!Outcome
<1>3. TypeOK
  BY <1>1, <1>2 DEF Init, TypeOK
<1>4. ASSUME NEW c \in Call PROVE CallIsSound(c)
  <2>1. at[c].pc = "idle"
    BY DEF Init, Idle
  <2>2. \A m \in Mandate : ~ (runs[<<c, m>>] > 0)
    BY DEF Init, Request
  <2>3. QED BY <2>1, <2>2
             DEF Init, CallIsSound, TicketsAreLast, Asking, Running, Ran
<1>5. QED BY <1>3, <1>4 DEF Sound

\* What happens to a call when it ends, or goes on elsewhere.
LEMMA EndsShape ==
  ASSUME at \in [Call -> At], NEW c \in Call, NEW reply \in Reply, Ends(c, reply)
  PROVE  /\ at' \in [Call -> At] /\ \A d \in Call \ {c} : at'[d] = at[d]
         /\ at'[c].pc = "over" /\ at'[c].reply = reply
         /\ at'[c].mandate = at[c].mandate /\ at'[c].passers = at[c].passers
<1>1. at' = [at EXCEPT ![c] = [at[c] EXCEPT !.pc = "over", !.reply = reply]]
  BY DEF Ends
<1>2. [at[c] EXCEPT !.pc = "over", !.reply = reply] \in At
  BY DEF At, Pc
<1>3. QED BY <1>1, <1>2 DEF At

LEMMA GoesShape ==
  ASSUME at \in [Call -> At], NEW c \in Call, NEW pc \in Pc,
         at' = [at EXCEPT ![c].pc = pc]
  PROVE  /\ at' \in [Call -> At] /\ \A d \in Call \ {c} : at'[d] = at[d]
         /\ at'[c].pc = pc /\ at'[c].reply = at[c].reply
         /\ at'[c].mandate = at[c].mandate /\ at'[c].passers = at[c].passers
<1>1. [at[c] EXCEPT !.pc = pc] \in At
  BY DEF At
<1>2. QED BY <1>1 DEF At

\* Before the ticket is asked for.
LEMMA ArriveSound ==
  ASSUME Assumed, Sound, NEW c \in Call, Arrive(c)
  PROVE  Sound'
<1> USE DEF asVars, diskVars, outcomes
<1>1. at[c].pc = "idle"
  <2>1. at[c] = Idle
    BY DEF Arrive
  <2>2. QED BY <2>1 DEF Idle
<1>2. /\ at'[c].pc \in {"over", "checks"} /\ at' \in [Call -> At]
      /\ \A d \in Call \ {c} : at'[d] = at[d]
  <2>1. at \in [Call -> At] /\ cache \in SUBSET Mandate
    BY DEF Sound, TypeOK
  <2>2. CASE cache = {}
    <3>1. Ends(c, "nothing ran") /\ "nothing ran" \in Reply
      BY <2>2 DEF Arrive, Reply
    <3>2. QED BY <2>1, <3>1, EndsShape
  <2>3. CASE cache # {}
    <3>1. at' = [at EXCEPT ![c] = [at[c] EXCEPT !.pc = "checks", !.pool = cache]]
      BY <2>3 DEF Arrive
    <3>2. [at[c] EXCEPT !.pc = "checks", !.pool = cache] \in At
      BY <2>1 DEF At, Pc
    <3>3. QED BY <2>1, <3>1, <3>2 DEF At
  <2>4. QED BY <2>2, <2>3
<1>3. TypeOK'
  BY <1>2 DEF Arrive, Sound, TypeOK
<1>4. \A m \in Mandate : <<c, m>> \notin wire \cup issued /\ ~ (runs[<<c, m>>] > 0)
  BY <1>1, NotYet
<1>5. CallIsSound(c)'
  BY <1>2, <1>4 DEF Arrive, CallIsSound, TicketsAreLast, Asking, Running, Ran
<1>6. QED BY <1>2, <1>3, <1>5, OneCall DEF Arrive

LEMMA ChecksPassSound ==
  ASSUME Assumed, Sound, NEW c \in Call, ChecksPass(c)
  PROVE  Sound'
<1>1. PICK passers \in (SUBSET at[c].pool) \ {{}} : Attempt(c, passers, passers, journal)
  BY DEF ChecksPass
<1>2. passers \in SUBSET Mandate /\ passers # {} /\ passers \in SUBSET passers
  BY DEF Sound, TypeOK, At
<1>3. \A m \in Mandate : <<c, m>> \notin wire \cup issued /\ runs[<<c, m>>] = 0
  BY NotYet DEF ChecksPass
<1>4. /\ journal \in J!JournalType
      /\ cache' \in SUBSET Mandate /\ flagged' \in SUBSET Mandate
      /\ UNCHANGED <<asVars, archive, outcomes, faults>>
  BY DEF Sound, TypeOK, ChecksPass
<1>5. QED BY <1>1, <1>2, <1>3, <1>4, AttemptSound

\* Steps of the call that leave disk, network and AS alone.
LEMMA MemoryStepSound ==
  ASSUME Assumed, Sound, NEW c \in Call,
         ChecksFail(c) \/ TicketArrives(c) \/ EvidenceFails(c) \/ Propose(c)
  PROVE  Sound'
<1> USE DEF asVars, diskVars, outcomes
<1>1. /\ at[c].pc \in {"checks", "ask", "evidence", "proposal"}
      /\ UNCHANGED <<validity, issued, wire, journal, archive, cache, flagged, outcomes, faults>>
      /\ proposed' \in SUBSET Call
  BY DEF ChecksFail, TicketArrives, EvidenceFails, Propose, Sound, TypeOK
<1>2. /\ at' \in [Call -> At]
      /\ \A d \in Call \ {c} : at'[d] = at[d]
      /\ at'[c].mandate = at[c].mandate /\ at'[c].passers = at[c].passers
      /\ \/ at'[c].pc = "over"
         \/ at[c].pc = "ask" /\ at[c].answer = "ticket" /\ at'[c].pc = "evidence"
            /\ at'[c].reply = at[c].reply
  <2>1. at \in [Call -> At]
    BY DEF Sound, TypeOK
  <2>2. CASE TicketArrives(c)
    <3>1. at' = [at EXCEPT ![c].pc = "evidence"] /\ "evidence" \in Pc
      BY <2>2 DEF TicketArrives, Pc
    <3>2. QED BY <2>1, <2>2, <3>1, GoesShape DEF TicketArrives
  <2>3. CASE ~ TicketArrives(c)
    <3>1. \E reply \in Reply : Ends(c, reply)
      BY <2>3 DEF ChecksFail, EvidenceFails, Propose, Reply
    <3>2. QED BY <2>1, <3>1, EndsShape
  <2>4. QED BY <2>2, <2>3
<1>3. TypeOK'
  BY <1>1, <1>2 DEF Sound, TypeOK
<1>4. \A m \in Mandate : ~ (runs[<<c, m>>] > 0)
  BY <1>1, NotYet
<1>5. CallIsSound(c)
  BY DEF Sound
<1>6. TicketsAreLast(c)'
  BY <1>1, <1>2, <1>5 DEF CallIsSound, TicketsAreLast
<1>7. Running(c)'
  BY <1>1, <1>2, <1>5 DEF CallIsSound, Running, Asking, Free, KeyOf
<1>8. CallIsSound(c)'
  BY <1>1, <1>2, <1>4, <1>6, <1>7 DEF CallIsSound, Asking, Ran
<1>9. QED BY <1>1, <1>2, <1>3, <1>8, OneCall

\* The request ends without a ticket: its row is closed if it is still open.
LEMMA ClosedRows ==
  ASSUME Sound, NEW c \in Call, at[c].pc = "ask"
  PROVE  /\ Closed(c) \in J!JournalType
         /\ \A r \in Request : journal.row[r].state # "none" => Closed(c).row[r].state # "none"
         /\ \A r \in Request : r[1] # c => Closed(c).row[r] = journal.row[r]
<1>1. at[c].mandate \in Mandate
  BY DEF Sound, CallIsSound, Running, Free
<1>2. KeyOf(c) \in Request /\ KeyOf(c)[1] = c /\ journal \in J!JournalType
  BY <1>1 DEF KeyOf, Request, Sound, TypeOK
<1>3. JournalStep(journal, KeyOf(c), Closed(c))
  <2>1. "done" \in {"done", "failed"}
    OBVIOUS
  <2>2. QED BY <1>2, <2>1, JournalSteps DEF Closed
<1>4. QED BY <1>2, <1>3 DEF JournalStep

\* The call goes on without this ticket, or any other.
LEMMA RefusedSound ==
  ASSUME Assumed, Sound, NEW c \in Call, at[c].pc = "ask",
         journal' = Closed(c), wire' = wire,
         cache' \in SUBSET Mandate, flagged' \in SUBSET Mandate,
         UNCHANGED <<asVars, archive, outcomes, faults>>,
         \/ Ends(c, "nothing ran")
         \/ at' = [at EXCEPT ![c].pc = "proposal"]
  PROVE  Sound'
<1> USE DEF asVars, outcomes
<1>1. /\ at' \in [Call -> At]
      /\ \A d \in Call \ {c} : at'[d] = at[d]
      /\ at'[c].mandate = at[c].mandate
      /\ at'[c].pc \in {"over", "proposal"}
  <2>1. "nothing ran" \in Reply /\ "proposal" \in Pc /\ at \in [Call -> At]
    BY DEF Reply, Pc, Sound, TypeOK
  <2>2. QED BY <2>1, EndsShape, GoesShape
<1>2. TypeOK'
  BY <1>1, ClosedRows DEF Sound, TypeOK
<1>3. \A m \in Mandate : ~ (runs[<<c, m>>] > 0) /\ <<c, m>> \in Request
  BY NotYet DEF Request
<1>4. TicketsAreLast(c)'
  BY <1>1, <1>3, ClosedRows DEF Sound, CallIsSound, TicketsAreLast
<1>5. CallIsSound(c)'
  BY <1>1, <1>3, <1>4 DEF CallIsSound, Asking, Running, Ran
<1>6. \A r \in Request : r[1] # c => journal'.row[r] = journal.row[r]
  BY ClosedRows
<1>7. QED BY <1>1, <1>2, <1>5, <1>6, OneCall
\* A mandate that does not hold any more is given up for another candidate.
LEMMA FallbackSound ==
  ASSUME Assumed, Sound, NEW c \in Call, Fallback(c)
  PROVE  Sound'
<1>1. /\ at[c].pc = "ask" /\ FallsBack(at[c].answer)
      /\ UNCHANGED <<asVars, archive, outcomes, faults>>
  BY DEF Fallback
<1>2. cache' \in SUBSET Mandate /\ flagged' \in SUBSET Mandate
  <2>1. at[c].mandate \in Mandate
    BY <1>1 DEF Sound, CallIsSound, Running, Free
  <2>2. QED BY <2>1 DEF Fallback, Sound, TypeOK
<1>3. CASE Remaining(c) = {}
  <2>1. Ends(c, "nothing ran") /\ journal' = Closed(c) /\ wire' = wire
    BY <1>3 DEF Fallback
  <2>2. QED BY <1>1, <1>2, <2>1, RefusedSound
<1>4. CASE Remaining(c) # {}
  <2>1. Attempt(c, at[c].passers, Remaining(c), Closed(c))
    BY <1>4 DEF Fallback
  <2>2. CallIsSound(c) /\ at[c] \in At
    BY DEF Sound, TypeOK
  <2>3. at[c].passers \in SUBSET Mandate /\ Remaining(c) \in SUBSET at[c].passers
    BY <1>1, <2>2 DEF CallIsSound, Asking, Remaining, At
  <2>4. \A n \in at[c].passers : RequiresApproval(n) => n \in Remaining(c)
    BY <1>1, <2>2 DEF CallIsSound, Asking, Running, Free, Remaining, RequiresApproval
  <2>5. ASSUME NEW m \in Mandate
        PROVE  /\ <<c, m>> \notin issued /\ runs[<<c, m>>] = 0
               /\ <<c, m>> \in wire =>
                    validity[m] # "valid" /\ Closed(c).row[<<c, m>>].state # "none"
    <3>1. runs[<<c, m>>] = 0 /\ <<c, m>> \in Request
      BY <1>1, NotYet DEF Request
    <3>2. validity[at[c].mandate] # "valid" /\ <<c, at[c].mandate>> \notin issued
      BY <1>1, <2>2 DEF CallIsSound, Asking, KeyOf
    <3>3. <<c, m>> \notin issued
      BY <2>2, <3>2 DEF CallIsSound, TicketsAreLast
    <3>4. <<c, m>> \in wire => validity[m] # "valid" /\ journal.row[<<c, m>>].state # "none"
      BY <2>2, <3>2 DEF CallIsSound, TicketsAreLast
    <3>5. QED BY <1>1, <3>1, <3>3, <3>4, ClosedRows
  <2>6. /\ Closed(c) \in J!JournalType
        /\ \A r \in Request : r[1] # c => Closed(c).row[r] = journal.row[r]
    BY <1>1, ClosedRows
  <2>7. QED BY <1>1, <1>2, <1>4, <2>1, <2>3, <2>4, <2>5, <2>6, AttemptSound
<1>5. QED BY <1>3, <1>4

\* The request is refused for good, or becomes a proposal.
LEMMA GivenUpSound ==
  ASSUME Assumed, Sound, NEW c \in Call, AboveCap(c) \/ Blocked(c)
  PROVE  Sound'
<1>1. /\ at[c].pc = "ask" /\ journal' = Closed(c) /\ wire' = wire
      /\ UNCHANGED <<asVars, archive, outcomes, faults>>
      /\ \/ Ends(c, "nothing ran")
         \/ at' = [at EXCEPT ![c].pc = "proposal"]
  BY DEF AboveCap, Blocked
<1>2. cache' \in SUBSET Mandate /\ flagged' \in SUBSET Mandate
  BY DEF AboveCap, Blocked, Sound, TypeOK
<1>3. QED BY <1>1, <1>2, RefusedSound

\* An attempt fails in transport: the same request again, or no answer.
LEMMA AttemptFailsSound ==
  ASSUME Assumed, Sound, NEW c \in Call, AttemptFails(c)
  PROVE  Sound'
<1> USE DEF asVars, diskVars, outcomes
<1>1. /\ at[c].pc = "ask" /\ at[c].answer = "none"
      /\ UNCHANGED <<validity, issued, proposed, journal, archive, cache, flagged, runs, refused>>
      /\ faults' \in Nat
  BY DEF AttemptFails, Awaiting, Fault, Sound, TypeOK
<1>2. CallIsSound(c) /\ at[c].mandate \in Mandate /\ KeyOf(c) \in Request /\ KeyOf(c)[1] = c
  BY <1>1 DEF Sound, CallIsSound, Running, Free, KeyOf, Request
<1>3. wire' \in {wire, wire \cup {KeyOf(c)}}
  BY DEF AttemptFails
<1>4. /\ at' \in [Call -> At]
      /\ \A d \in Call \ {c} : at'[d] = at[d]
      /\ at'[c].pc = "ask" /\ at'[c].reply = at[c].reply
      /\ at'[c].mandate = at[c].mandate
      /\ at'[c].passers = at[c].passers /\ at'[c].pool = at[c].pool
      /\ at'[c].answer \in {"none", "failed"}
  <2>1. at \in [Call -> At] /\ at[c] \in At /\ at[c].attempt \in 0 .. MaxAttempts
    BY DEF Sound, TypeOK, At
  <2>2. CASE at[c].attempt < MaxAttempts
    <3>1. at' = [at EXCEPT ![c] = [at[c] EXCEPT !.attempt = at[c].attempt + 1]]
      BY <2>2 DEF AttemptFails
    <3>2. at[c].attempt + 1 \in 0 .. MaxAttempts
      BY <2>1, <2>2 DEF Assumed, AttemptsAssumption
    <3>3. [at[c] EXCEPT !.attempt = at[c].attempt + 1] \in At
      BY <2>1, <3>2 DEF At
    <3>4. QED BY <1>1, <2>1, <3>1, <3>3 DEF At
  <2>3. CASE ~ (at[c].attempt < MaxAttempts)
    <3>1. at' = [at EXCEPT ![c] = [at[c] EXCEPT !.answer = "failed"]]
      BY <2>3 DEF AttemptFails
    <3>2. [at[c] EXCEPT !.answer = "failed"] \in At
      BY <2>1 DEF At, Answer
    <3>3. QED BY <1>1, <2>1, <3>1, <3>2 DEF At
  <2>4. QED BY <2>2, <2>3
<1>5. TypeOK'
  BY <1>1, <1>2, <1>3, <1>4 DEF Sound, TypeOK
<1>6. TicketsAreLast(c)'
  BY <1>1, <1>2, <1>3, <1>4 DEF CallIsSound, TicketsAreLast, Asking, KeyOf
<1>7. Asking(c)'
  BY <1>1, <1>2, <1>4 DEF CallIsSound, Asking, KeyOf, FallsBack
<1>8. Running(c)'
  BY <1>1, <1>2, <1>4 DEF CallIsSound, Running, Free
<1>9. Ran(c)'
  BY <1>1, NotYet DEF Ran
<1>10. CallIsSound(c)'
  BY <1>6, <1>7, <1>8, <1>9 DEF CallIsSound
<1>11. \A r \in Request : r[1] # c => (r \in wire' => r \in wire)
  BY <1>2, <1>3
<1>12. QED BY <1>1, <1>4, <1>5, <1>10, <1>11, OneCall
\* A ticket is issued only while the mandate holds, so for the mandate in use.
LEMMA AsAnswersSound ==
  ASSUME Assumed, Sound, NEW k \in Request, AsAnswers(k)
  PROVE  Sound'
<1> USE DEF asVars, diskVars, outcomes
<1>1. PICK c \in Call, m \in Mandate : k = <<c, m>>
  BY DEF Request
<1>2. /\ k \in wire /\ wire' = wire \ {k}
      /\ issued' = IF Verdict(k) = "ticket" THEN issued \cup {k} ELSE issued
      /\ UNCHANGED <<validity, proposed, journal, archive, cache, flagged, runs, refused, faults>>
  BY DEF AsAnswers
<1>3. /\ Verdict(k) \in {"ticket", "stale", "version", "above cap", "refused"}
      /\ Verdict(k) = "ticket" /\ k \notin issued => validity[m] = "valid"
      /\ FallsBack(Verdict(k)) => validity[m] # "valid" /\ k \notin issued
      /\ k \in issued => Verdict(k) = "ticket"
  BY <1>1 DEF Verdict, FallsBack, Sound, TypeOK
<1>4. \/ at' = at
      \/ /\ at[c].pc = "ask" /\ at[c].answer = "none" /\ at[c].mandate = m
         /\ at' = [at EXCEPT ![c] = [at[c] EXCEPT !.answer = Verdict(k)]]
  <2>1. k[1] = c /\ (KeyOf(c) = k => at[c].mandate = m)
    BY <1>1 DEF KeyOf
  <2>2. QED BY <2>1 DEF AsAnswers, Awaiting
<1>5. /\ at' \in [Call -> At]
      /\ \A d \in Call \ {c} : at'[d] = at[d]
      /\ at'[c].pc = at[c].pc /\ at'[c].reply = at[c].reply
      /\ at'[c].mandate = at[c].mandate
      /\ at'[c].passers = at[c].passers /\ at'[c].pool = at[c].pool
      /\ \/ at'[c].answer = at[c].answer
         \/ at[c].pc = "ask" /\ at[c].mandate = m /\ at'[c].answer = Verdict(k)
  <2>1. at \in [Call -> At] /\ at[c] \in At
    BY DEF Sound, TypeOK
  <2>2. CASE at' = at
    BY <2>1, <2>2
  <2>3. CASE at' # at
    <3>1. [at[c] EXCEPT !.answer = Verdict(k)] \in At
      BY <1>3, <2>1 DEF At, Answer
    <3>2. QED BY <1>4, <2>1, <2>3, <3>1 DEF At
  <2>4. QED BY <2>2, <2>3
<1>6. CallIsSound(c)
  BY DEF Sound
<1>7. TypeOK'
  BY <1>2, <1>5 DEF Sound, TypeOK
<1>8. TicketsAreLast(c)'
  <2>1. k \in issued' => k \in issued \/ m = at[c].mandate
    BY <1>1, <1>2, <1>3, <1>6 DEF CallIsSound, TicketsAreLast
  <2>2. QED BY <1>1, <1>2, <1>5, <1>6, <2>1 DEF CallIsSound, TicketsAreLast
<1>9. Asking(c)'
  <2>1. SUFFICES ASSUME at[c].pc = "ask" PROVE Asking(c)'
    BY <1>5 DEF Asking
  <2>2. KeyOf(c)' = KeyOf(c) /\ (at[c].mandate = m => KeyOf(c) = k)
    BY <1>1, <1>5 DEF KeyOf
  <2>3. /\ journal.row[KeyOf(c)].state # "none"
        /\ FallsBack(at[c].answer) => validity[at[c].mandate] # "valid" /\ KeyOf(c) \notin issued
        /\ at[c].answer = "ticket" => KeyOf(c) \in issued
        /\ at[c].pool \subseteq at[c].passers
        /\ \A n \in at[c].passers : RequiresApproval(n) => n \in at[c].pool
    BY <1>6, <2>1 DEF CallIsSound, Asking
  <2>4. FallsBack(at'[c].answer) => validity[at[c].mandate] # "valid" /\ KeyOf(c) \notin issued'
    <3>1. CASE KeyOf(c) = k
      <4>1. at[c].mandate = m
        BY <1>1, <3>1 DEF KeyOf
      <4>2. QED BY <1>2, <1>3, <1>5, <2>3, <3>1, <4>1
    <3>2. CASE KeyOf(c) # k
      BY <1>2, <1>5, <2>2, <2>3, <3>2
    <3>3. QED BY <3>1, <3>2
  <2>5. at'[c].answer = "ticket" => KeyOf(c) \in issued'
    BY <1>2, <1>5, <2>2, <2>3
  <2>6. QED BY <1>2, <1>5, <2>2, <2>3, <2>4, <2>5 DEF Asking, FallsBack, RequiresApproval
<1>10. Running(c)'
  BY <1>2, <1>5, <1>6 DEF CallIsSound, Running, Free, Evidenced, KeyOf
<1>11. Ran(c)'
  BY <1>2, <1>5, <1>6 DEF CallIsSound, Ran, Free, Evidenced
<1>12. CallIsSound(c)'
  BY <1>8, <1>9, <1>10, <1>11 DEF CallIsSound
<1>13. \A r \in Request : r[1] # c => (r \in wire' => r \in wire) /\ (r \in issued' <=> r \in issued)
  BY <1>1, <1>2
<1>14. QED BY <1>2, <1>5, <1>7, <1>12, <1>13, OneCall

\* A mandate ceases to hold; what was issued under it stays issued.
LEMMA InvalidSound ==
  ASSUME Assumed, Sound, NEW n \in Mandate, Invalid(n)
  PROVE  Sound'
<1> USE DEF diskVars, outcomes
<1>1. TypeOK'
  BY DEF Invalid, Sound, TypeOK
<1>2. \A m \in Mandate : validity[m] # "valid" => validity'[m] # "valid"
  BY DEF Invalid, Sound, TypeOK
<1>3. ASSUME NEW c \in Call PROVE CallIsSound(c)'
  BY <1>2, Frame DEF Invalid
<1>4. QED BY <1>1, <1>3 DEF Sound

\* The process dies: no call is under way, nothing on disk or at the AS moves.
LEMMA CrashSound ==
  ASSUME Assumed, Sound, Crash
  PROVE  Sound'
<1> USE DEF asVars, diskVars, outcomes
<1>1. UNCHANGED <<validity, issued, wire, journal, archive, runs>>
  BY DEF Crash
<1>2. ASSUME NEW c \in Call
      PROVE  at'[c] \in At /\ (at'[c] = at[c] \/ at'[c] = [at[c] EXCEPT !.pc = "dead"])
  <2>1. at[c] \in At
    BY DEF Sound, TypeOK
  <2>2. at'[c] = at[c] \/ at'[c] = [at[c] EXCEPT !.pc = "dead"]
    BY DEF Crash
  <2>3. [at[c] EXCEPT !.pc = "dead"] \in At
    BY <2>1 DEF At, Pc
  <2>4. QED BY <2>1, <2>2, <2>3
<1>3. at' \in [Call -> At]
  BY <1>2 DEF Crash
<1>4. TypeOK'
  BY <1>3 DEF Crash, Fault, Sound, TypeOK
<1>5. ASSUME NEW c \in Call PROVE CallIsSound(c)'
  <2>1. CASE at'[c] = at[c]
    BY <1>1, <2>1, Frame
  <2>2. CASE at'[c] = [at[c] EXCEPT !.pc = "dead"]
    <3>1. at[c] \in At /\ CallIsSound(c)
      BY DEF Sound, TypeOK
    <3>2. /\ at'[c].pc = "dead" /\ at'[c].reply = at[c].reply
          /\ at'[c].mandate = at[c].mandate /\ at'[c].passers = at[c].passers
      BY <2>2, <3>1 DEF At
    <3>3. TicketsAreLast(c)'
      BY <1>1, <3>1, <3>2 DEF CallIsSound, TicketsAreLast
    <3>4. Ran(c)'
      BY <1>1, <3>1, <3>2 DEF CallIsSound, Ran, Free, Evidenced
    <3>5. QED BY <3>2, <3>3, <3>4 DEF CallIsSound, Asking, Running
  <2>3. QED BY <1>2, <2>1, <2>2
<1>6. QED BY <1>4, <1>5 DEF Sound

LEMMA StutterSound ==
  ASSUME Sound, UNCHANGED vars
  PROVE  Sound'
<1>1. TypeOK'
  BY DEF vars, Sound, TypeOK
<1>2. ASSUME NEW c \in Call PROVE CallIsSound(c)'
  BY Frame DEF vars
<1>3. QED BY <1>1, <1>2 DEF Sound
LEMMA PositiveIsNotZero == \A n \in Nat : n > 0 => n # 0
  OBVIOUS

\* From the ticket to the answer of the tool: only the row of the mandate in
\* use changes, and the call itself.
LEMMA TicketStepSound ==
  ASSUME Assumed, Sound, NEW c \in Call, NEW n \in Mandate, at[c].mandate = n,
         at[c].pc \in {"evidence", "begun", "call"},
         UNCHANGED <<validity, issued, proposed, wire, cache, flagged>>,
         at' \in [Call -> At], \A d \in Call \ {c} : at'[d] = at[d],
         at'[c].mandate = n, at'[c].passers = at[c].passers,
         journal' = journal \/ JournalStep(journal, <<c, n>>, journal'),
         archive \subseteq archive', archive' \in SUBSET Request,
         runs' \in [Request -> Nat], \A r \in Request : r # <<c, n>> => runs'[r] = runs[r],
         refused' \in SUBSET Request, faults' \in Nat,
         at'[c].pc \in {"begun", "call", "over"},
         at'[c].pc # "over" =>
           at'[c].reply = "none" /\ Evidenced(<<c, n>>)' /\ journal'.row[<<c, n>>].state = "intent",
         at'[c].pc = "call" => runs'[<<c, n>>] = 1,
         \/ runs'[<<c, n>>] = 0
         \/ /\ runs'[<<c, n>>] = 1 /\ Evidenced(<<c, n>>)'
            /\ journal'.row[<<c, n>>].state \in {"intent", "done", "failed"}
            /\ at'[c].pc \in {"call", "over"} /\ at'[c].reply # "nothing ran"
  PROVE  Sound'
<1> DEFINE k == <<c, n>>
<1>1. CallIsSound(c) /\ k \in Request /\ k[1] = c /\ journal \in J!JournalType
  BY DEF Sound, TypeOK, Request
<1>2. /\ journal' \in J!JournalType
      /\ \A r \in Request : r # k => journal'.row[r] = journal.row[r]
      /\ \A r \in Request : journal.row[r].state # "none" => journal'.row[r].state # "none"
  BY <1>1 DEF JournalStep
<1>3. TypeOK'
  BY <1>2 DEF Sound, TypeOK
<1>4. TicketsAreLast(c)'
  <2>1. \A m \in Mandate : <<c, m>> \in Request
    BY DEF Request
  <2>2. QED BY <1>1, <1>2, <2>1 DEF CallIsSound, TicketsAreLast
<1>5. Free(c)'
  BY <1>1 DEF CallIsSound, Running, Free
<1>6. Running(c)'
  BY <1>5 DEF Running, KeyOf
<1>7. Ran(c)'
  <2>1. SUFFICES ASSUME NEW m \in Mandate, runs'[<<c, m>>] > 0
        PROVE  /\ m = at'[c].mandate
               /\ at'[c].pc \in {"call", "over", "dead"} /\ at'[c].reply # "nothing ran"
               /\ Evidenced(<<c, m>>)'
               /\ journal'.row[<<c, m>>].state \in {"intent", "done", "failed"}
               /\ runs'[<<c, m>>] = 1
    BY <1>5 DEF Ran
  <2>2. <<c, m>> \in Request
    BY DEF Request
  <2>3. m = n
    <3>1. CASE m # n
      <4>1. <<c, m>> # k
        BY <3>1
      <4>2. runs[<<c, m>>] > 0
        BY <2>1, <2>2, <4>1
      <4>3. QED BY <1>1, <3>1, <4>2 DEF CallIsSound, Ran
    <3>2. QED BY <3>1
  <2>4. runs'[k] # 0
    <3>1. runs'[<<c, m>>] \in Nat /\ runs'[<<c, m>>] > 0
      BY <2>1, <2>2
    <3>2. runs'[<<c, m>>] # 0
      BY <3>1, PositiveIsNotZero, Zenon
    <3>3. QED BY <2>3, <3>2
  <2>5. QED BY <2>3, <2>4
<1>8. CallIsSound(c)'
  BY <1>4, <1>6, <1>7 DEF CallIsSound, Asking
<1>9. \A r \in Request : r[1] # c => journal'.row[r] = journal.row[r] /\ runs'[r] = runs[r]
  BY <1>1, <1>2
<1>10. QED BY <1>3, <1>8, <1>9, OneCall

LEMMA BeginSound ==
  ASSUME Assumed, Sound, NEW c \in Call, NEW m \in Mandate, at[c].mandate = m,
         Begin(c) \/ BeginThrows(c)
  PROVE  Sound'
<1> USE DEF asVars, diskVars, outcomes
<1> DEFINE k == <<c, m>>
<1>1. /\ KeyOf(c) = k /\ k \in Request
      /\ at \in [Call -> At] /\ journal \in J!JournalType /\ archive \in SUBSET Request
      /\ runs \in [Request -> Nat] /\ refused \in SUBSET Request /\ faults \in Nat
  BY DEF KeyOf, Request, Sound, TypeOK
<1>2. /\ at[c].pc = "evidence" /\ archive' = archive \cup {k}
      /\ UNCHANGED <<validity, issued, proposed, wire, cache, flagged, runs, refused>>
  BY <1>1 DEF Begin, BeginThrows
<1>3. faults' \in Nat
  <2>1. faults' = faults \/ faults' = faults + 1
    BY DEF Begin, BeginThrows, Fault
  <2>2. QED BY <1>1, <2>1
<1>4. k \in issued /\ at[c].reply = "none"
  BY <1>1, <1>2 DEF Sound, CallIsSound, Running
<1>5. runs[k] = 0
  BY <1>2, NotYet
<1>6. CASE journal' = J!Begin(journal, k, 1) /\ at' = [at EXCEPT ![c].pc = "begun"]
  <2>1. "begun" \in Pc /\ "done" \in {"done", "failed"}
    BY DEF Pc
  <2>2. /\ at' \in [Call -> At] /\ \A d \in Call \ {c} : at'[d] = at[d]
        /\ at'[c].pc = "begun" /\ at'[c].reply = at[c].reply
        /\ at'[c].mandate = m /\ at'[c].passers = at[c].passers
    BY <1>1, <1>6, <2>1, GoesShape
  <2>3. JournalStep(journal, k, J!Begin(journal, k, 1))
    BY <1>1, <2>1, JournalSteps
  <2>4. J!Begin(journal, k, 1).row[k].state = "intent" /\ J!Begin(journal, k, 1).row[k].ticket = 1
    BY <1>1, <2>1, JournalRows
  <2>5. Evidenced(k)' /\ journal'.row[k].state = "intent" /\ JournalStep(journal, k, journal')
    BY <1>2, <1>4, <1>6, <2>3, <2>4 DEF Evidenced
  <2>6. archive' \in SUBSET Request /\ archive \subseteq archive'
    BY <1>1, <1>2
  <2>7. runs' \in [Request -> Nat] /\ runs'[k] = 0 /\ refused' \in SUBSET Request
        /\ \A r \in Request : r # k => runs'[r] = runs[r]
    BY <1>1, <1>2, <1>5
  <2>8. QED BY <1>2, <1>3, <1>4, <2>2, <2>5, <2>6, <2>7, TicketStepSound
<1>7. CASE journal' = journal /\ (Ends(c, "nothing ran") \/ Ends(c, "threw"))
  <2>1. "nothing ran" \in Reply /\ "threw" \in Reply
    BY DEF Reply
  <2>2. /\ at' \in [Call -> At] /\ \A d \in Call \ {c} : at'[d] = at[d]
        /\ at'[c].pc = "over"
        /\ at'[c].mandate = m /\ at'[c].passers = at[c].passers
    BY <1>1, <1>7, <2>1, EndsShape
  <2>3. archive' \in SUBSET Request /\ archive \subseteq archive'
    BY <1>1, <1>2
  <2>4. runs' \in [Request -> Nat] /\ runs'[k] = 0 /\ refused' \in SUBSET Request
        /\ \A r \in Request : r # k => runs'[r] = runs[r]
    BY <1>1, <1>2, <1>5
  <2>5. QED BY <1>2, <1>3, <1>7, <2>2, <2>3, <2>4, TicketStepSound
<1>8. QED BY <1>1, <1>6, <1>7 DEF Begin, BeginThrows

LEMMA CallToolSound ==
  ASSUME Assumed, Sound, NEW c \in Call, NEW m \in Mandate, at[c].mandate = m,
         CallTool(c)
  PROVE  Sound'
<1> USE DEF asVars, diskVars, outcomes
<1> DEFINE k == <<c, m>>
<1>1. /\ KeyOf(c) = k /\ k \in Request
      /\ at \in [Call -> At] /\ archive \in SUBSET Request
      /\ runs \in [Request -> Nat] /\ refused \in SUBSET Request /\ faults \in Nat
  BY DEF KeyOf, Request, Sound, TypeOK
<1>2. /\ at[c].pc = "begun" /\ runs' = [runs EXCEPT ![k] = runs[k] + 1]
      /\ UNCHANGED <<validity, issued, proposed, wire, journal, archive, cache, flagged, refused, faults>>
      /\ at' = [at EXCEPT ![c].pc = "call"]
  BY <1>1 DEF CallTool
<1>3. Evidenced(k) /\ journal.row[k].state = "intent" /\ at[c].reply = "none"
  BY <1>1, <1>2 DEF Sound, CallIsSound, Running
<1>4. runs[k] = 0
  BY <1>2, NotYet
<1>5. /\ runs' \in [Request -> Nat] /\ runs'[k] = 1
      /\ \A r \in Request : r # k => runs'[r] = runs[r]
  BY <1>1, <1>2, <1>4
<1>6. /\ at' \in [Call -> At] /\ \A d \in Call \ {c} : at'[d] = at[d]
      /\ at'[c].pc = "call" /\ at'[c].reply = at[c].reply
      /\ at'[c].mandate = m /\ at'[c].passers = at[c].passers
  <2>1. "call" \in Pc
    BY DEF Pc
  <2>2. QED BY <1>1, <1>2, <2>1, GoesShape
<1>7. Evidenced(k)' /\ journal'.row[k].state = "intent"
  BY <1>2, <1>3 DEF Evidenced
<1>8. archive' \in SUBSET Request /\ archive \subseteq archive'
      /\ refused' \in SUBSET Request /\ faults' \in Nat
  BY <1>1, <1>2
<1>9. /\ UNCHANGED <<validity, issued, proposed, wire, cache, flagged>>
      /\ at[c].pc \in {"evidence", "begun", "call"} /\ journal' = journal
      /\ at'[c].reply = "none"
  BY <1>2, <1>3, <1>6
<1>10. QED BY <1>5, <1>6, <1>7, <1>8, <1>9, TicketStepSound

LEMMA AnswerSound ==
  ASSUME Assumed, Sound, NEW c \in Call, NEW m \in Mandate, at[c].mandate = m,
         ToolAnswers(c) \/ CallThrows(c)
  PROVE  Sound'
<1> USE DEF asVars, diskVars, outcomes
<1> DEFINE k == <<c, m>>
<1>1. /\ KeyOf(c) = k /\ k \in Request
      /\ at \in [Call -> At] /\ journal \in J!JournalType /\ archive \in SUBSET Request
      /\ runs \in [Request -> Nat] /\ refused \in SUBSET Request /\ faults \in Nat
  BY DEF KeyOf, Request, Sound, TypeOK
<1>2. /\ at[c].pc = "call"
      /\ UNCHANGED <<validity, issued, proposed, wire, archive, cache, flagged, runs>>
      /\ Ends(c, "tool") \/ Ends(c, "threw")
      /\ \/ journal' = journal
         \/ \E s \in {"done", "failed"} : journal' = J!Complete(journal, k, s, "")
  BY <1>1 DEF ToolAnswers, CallThrows
<1>3. refused' \in SUBSET Request
  BY <1>1 DEF ToolAnswers, CallThrows
<1>4. faults' \in Nat
  <2>1. faults' = faults \/ faults' = faults + 1
    BY DEF ToolAnswers, CallThrows, Fault
  <2>2. QED BY <1>1, <2>1
<1>5. Evidenced(k) /\ journal.row[k].state = "intent" /\ runs[k] = 1
  BY <1>1, <1>2 DEF Sound, CallIsSound, Running
<1>6. /\ at' \in [Call -> At] /\ \A d \in Call \ {c} : at'[d] = at[d]
      /\ at'[c].pc = "over" /\ at'[c].reply # "nothing ran"
      /\ at'[c].mandate = m /\ at'[c].passers = at[c].passers
  <2>1. "tool" \in Reply /\ "threw" \in Reply
    BY DEF Reply
  <2>2. QED BY <1>1, <1>2, <2>1, EndsShape
<1>7. /\ journal' = journal \/ JournalStep(journal, k, journal')
      /\ journal'.row[k].state \in {"intent", "done", "failed"}
      /\ journal'.row[k].ticket = journal.row[k].ticket
  <2>1. CASE journal' = journal
    BY <1>5, <2>1
  <2>2. CASE journal' # journal
    <3>1. PICK s \in {"done", "failed"} : journal' = J!Complete(journal, k, s, "")
      BY <1>2, <2>2
    <3>2. JournalStep(journal, k, J!Complete(journal, k, s, ""))
      BY <1>1, JournalSteps
    <3>3. J!Complete(journal, k, s, "").row[k].state = s
          /\ J!Complete(journal, k, s, "").row[k].ticket = journal.row[k].ticket
      BY <1>1, JournalRows
    <3>4. QED BY <3>1, <3>2, <3>3
  <2>3. QED BY <2>1, <2>2
<1>8. Evidenced(k)'
  BY <1>2, <1>5, <1>7 DEF Evidenced
<1>9. archive' \in SUBSET Request /\ archive \subseteq archive'
      /\ runs' \in [Request -> Nat] /\ runs'[k] = 1
      /\ \A r \in Request : r # k => runs'[r] = runs[r]
  BY <1>1, <1>2, <1>5
<1>10. QED BY <1>2, <1>3, <1>4, <1>6, <1>7, <1>8, <1>9, TicketStepSound
LEMMA StepSound ==
  ASSUME Assumed, Sound, [Next]_vars
  PROVE  Sound'
<1>1. ASSUME NEW c \in Call, Arrive(c) \/ Step(c) \/ AttemptFails(c) \/ BeginThrows(c)
      PROVE  Sound'
  <2>1. CASE Arrive(c) \/ ChecksPass(c) \/ ChecksFail(c) \/ TicketArrives(c)
             \/ EvidenceFails(c) \/ Propose(c)
    BY <2>1, ArriveSound, ChecksPassSound, MemoryStepSound
  <2>2. CASE Fallback(c) \/ AboveCap(c) \/ Blocked(c) \/ AttemptFails(c)
    BY <2>2, FallbackSound, GivenUpSound, AttemptFailsSound
  <2>3. CASE Begin(c) \/ BeginThrows(c) \/ CallTool(c) \/ ToolAnswers(c) \/ CallThrows(c)
    <3>1. at[c].pc \in {"evidence", "begun", "call"}
      BY <2>3 DEF Begin, BeginThrows, CallTool, ToolAnswers, CallThrows
    <3>2. at[c].mandate \in Mandate
      BY <3>1 DEF Sound, CallIsSound, Running, Free
    <3>3. QED BY <2>3, <3>2, BeginSound, CallToolSound, AnswerSound
  <2>4. QED BY <1>1, <2>1, <2>2, <2>3 DEF Step
<1>2. QED BY <1>1, AsAnswersSound, InvalidSound, CrashSound, StutterSound DEF Next

-----------------------------------------------------------------------------
(* The theorems.                                                            *)

LEMMA SoundAlways ==
  ASSUME Assumed
  PROVE  Spec => []Sound
<1>1. Init => Sound
  BY InitSound
<1>2. Sound /\ [Next]_vars => Sound'
  BY StepSound
<1>3. QED BY <1>1, <1>2, PTL DEF Spec

\* Every reachable state is well typed.
THEOREM AutomaticTypes ==
  ASSUME Assumed
  PROVE  Spec => []TypeOK
<1>1. Sound => TypeOK
  BY DEF Sound
<1>2. QED BY <1>1, SoundAlways, PTL

\* A call spends at most one ticket, however many mandates it falls back over,
\* however many attempts fail, and whatever arrives late.
THEOREM OneTicket ==
  ASSUME Assumed
  PROVE  Spec => []OneTicketPerCall
<1>1. Sound => OneTicketPerCall
  BY DEF Sound, CallIsSound, TicketsAreLast, OneTicketPerCall
<1>2. QED BY <1>1, SoundAlways, PTL

\* An agent that is told that nothing ran is told the truth.
THEOREM NothingRan ==
  ASSUME Assumed
  PROVE  Spec => []NothingRanIsTrue
<1>1. ASSUME Sound PROVE NothingRanIsTrue
  <2>1. SUFFICES ASSUME NEW k \in Request, at[k[1]].reply = "nothing ran"
                 PROVE  runs[k] = 0
    BY DEF NothingRanIsTrue
  <2>2. PICK c \in Call, m \in Mandate : k = <<c, m>>
    BY DEF Request
  <2>3. ~ (runs[k] > 0) /\ runs[k] \in Nat
    BY <1>1, <2>1, <2>2 DEF Sound, TypeOK, CallIsSound, Ran
  <2>4. QED BY <2>3
<1>2. QED BY <1>1, SoundAlways, PTL

\* What the AS counted has its row here, whenever the process died; what ran
\* has its ticket at the AS, in the archive and in the row it was begun under.
THEOREM Evidence ==
  ASSUME Assumed
  PROVE  Spec => []CallsAreEvidenced
<1>1. ASSUME Sound PROVE TicketsLeaveARow
  <2>1. SUFFICES ASSUME NEW k \in issued PROVE journal.row[k].state # "none"
    BY DEF TicketsLeaveARow
  <2>2. PICK c \in Call, m \in Mandate : k = <<c, m>>
    BY <1>1 DEF Sound, TypeOK, Request
  <2>3. QED BY <1>1, <2>2 DEF Sound, CallIsSound, TicketsAreLast
<1>2. ASSUME Sound PROVE RunsAreEvidenced
  <2>1. SUFFICES ASSUME NEW k \in Request, runs[k] > 0
                 PROVE  /\ k \in issued \cap archive
                        /\ journal.row[k].ticket = 1
                        /\ journal.row[k].state \in {"intent", "done", "failed"}
    BY DEF RunsAreEvidenced
  <2>2. PICK c \in Call, m \in Mandate : k = <<c, m>>
    BY DEF Request
  <2>3. QED BY <1>2, <2>1, <2>2 DEF Sound, CallIsSound, Ran, Evidenced
<1>3. Sound => CallsAreEvidenced
  BY <1>1, <1>2 DEF CallsAreEvidenced
<1>4. QED BY <1>3, SoundAlways, PTL

\* Nothing runs by itself under a mandate signed for review, nor under one
\* that is not narrower than every mandate that wanted to see the call.
THEOREM ReviewKept ==
  ASSUME Assumed
  PROVE  Spec => []ReviewIsKept
<1>1. ASSUME Sound PROVE ReviewIsKept
  BY <1>1 DEF ReviewIsKept, Sound, CallIsSound, Ran, Free
<1>2. QED BY <1>1, SoundAlways, PTL
-----------------------------------------------------------------------------
(* The refinement: what every step does to the claims.                      *)

Claims == [k \in Request |-> ClaimOf(k)]

\* Nothing moves in the abstract.
LEMMA NoClaimMoves ==
  ASSUME runs' = runs, \A k \in Request : ClaimOf(k)' = ClaimOf(k)
  PROVE  UNCHANGED OneExec!vars
BY DEF OneExec!vars

\* Writing a request down claims nothing; refusing it closes an open claim.
LEMMA ClaimsOfRows ==
  ASSUME NEW K \in J!JournalType, NEW k \in Request
  PROVE  /\ \A r \in Request \ {k} : J!Requested(K, k).row[r] = K.row[r]
         /\ J!Requested(K, k).row[k].state =
              IF K.row[k].state = "none" THEN "requested" ELSE K.row[k].state
         /\ \A r \in Request \ {k} : J!RefusedBeforeTicket(K, k).row[r] = K.row[r]
         /\ J!RefusedBeforeTicket(K, k).row[k].state =
              IF K.row[k].state = "requested" THEN "failed" ELSE K.row[k].state
BY DEF J!JournalType, J!Row, J!RowState, J!Outcome, J!Requested, J!RefusedBeforeTicket

\* An attempt under another mandate moves no claim by itself.
LEMMA AttemptClaims ==
  ASSUME Assumed, NEW c \in Call,
         NEW passers \in SUBSET Mandate, NEW pool \in SUBSET passers, pool # {},
         \A n \in passers : RequiresApproval(n) => n \in pool,
         NEW J0 \in J!JournalType, Attempt(c, passers, pool, J0)
  PROVE  \A r \in Request :
           \/ journal'.row[r].state = J0.row[r].state
           \/ J0.row[r].state = "none" /\ journal'.row[r].state = "requested"
<1>1. PICK m \in pool, a \in At : Attempted(c, passers, pool, J0, m, a)
  BY AttemptCases
<1>2. journal' = J0 \/ journal' = J!Requested(J0, <<c, m>>)
  BY <1>1 DEF Attempted
<1>3. <<c, m>> \in Request
  BY DEF Request
<1>4. QED BY <1>2, <1>3, ClaimsOfRows

\* What a refused request does to the claims.
LEMMA RefusalClaims ==
  ASSUME Sound, NEW c \in Call, NEW m \in Mandate, at[c].mandate = m,
         runs' = runs,
         \A r \in Request :
           \/ journal'.row[r].state = Closed(c).row[r].state
           \/ Closed(c).row[r].state = "none" /\ journal'.row[r].state = "requested"
  PROVE  [OneExec!Next]_(OneExec!vars)
<1> DEFINE k == <<c, m>>
<1>1. k \in Request /\ KeyOf(c) = k /\ journal \in J!JournalType
  BY DEF Request, KeyOf, Sound, TypeOK
<1>2. /\ \A r \in Request \ {k} : Closed(c).row[r] = journal.row[r]
      /\ Closed(c).row[k].state =
           IF journal.row[k].state = "requested" THEN "failed" ELSE journal.row[k].state
  BY <1>1, ClaimsOfRows DEF Closed
<1>3. \A r \in Request \ {k} : ClaimOf(r)' = ClaimOf(r)
  BY <1>2 DEF ClaimOf
<1>4. CASE journal.row[k].state = "requested"
  <2>1. ClaimOf(k) = "open" /\ ClaimOf(k)' = "failed"
    BY <1>1, <1>2, <1>4 DEF ClaimOf
  <2>2. Claims' = [Claims EXCEPT ![k] = "failed"]
    BY <1>1, <1>3, <2>1 DEF Claims
  <2>3. OneExec!Refuse(k)
    BY <1>1, <2>1, <2>2 DEF OneExec!Refuse, Claims
  <2>4. QED BY <1>1, <2>3 DEF OneExec!Next
<1>5. CASE journal.row[k].state # "requested"
  <2>1. ClaimOf(k)' = ClaimOf(k)
    BY <1>1, <1>2, <1>5 DEF ClaimOf
  <2>2. \A r \in Request : ClaimOf(r)' = ClaimOf(r)
    BY <1>3, <2>1
  <2>3. QED BY <2>2, NoClaimMoves
<1>6. QED BY <1>4, <1>5
\* Steps that leave the journal alone, or only write a request down.
LEMMA QuietPromise ==
  ASSUME Assumed, Sound, NEW c \in Call,
         Arrive(c) \/ ChecksPass(c) \/ ChecksFail(c) \/ Propose(c) \/ TicketArrives(c)
           \/ EvidenceFails(c) \/ AttemptFails(c) \/ BeginThrows(c)
  PROVE  UNCHANGED OneExec!vars
<1> USE DEF asVars, diskVars, outcomes
<1>1. runs' = runs
  BY DEF Arrive, ChecksPass, ChecksFail, Propose, TicketArrives, EvidenceFails,
         AttemptFails, BeginThrows
<1>2. CASE ChecksPass(c)
  <2>1. PICK passers \in (SUBSET at[c].pool) \ {{}} : Attempt(c, passers, passers, journal)
    BY <1>2 DEF ChecksPass
  <2>2. /\ passers \in SUBSET Mandate /\ passers # {} /\ passers \in SUBSET passers
        /\ journal \in J!JournalType
    BY DEF Sound, TypeOK, At
  <2>3. \A r \in Request :
           \/ journal'.row[r].state = journal.row[r].state
           \/ journal.row[r].state = "none" /\ journal'.row[r].state = "requested"
    BY <2>1, <2>2, AttemptClaims
  <2>4. \A r \in Request : ClaimOf(r)' = ClaimOf(r)
    BY <2>3 DEF ClaimOf
  <2>5. QED BY <1>1, <2>4, NoClaimMoves
<1>3. CASE ~ ChecksPass(c)
  <2>1. journal' = journal
    BY <1>3 DEF Arrive, ChecksFail, Propose, TicketArrives, EvidenceFails,
                AttemptFails, BeginThrows
  <2>2. \A r \in Request : ClaimOf(r)' = ClaimOf(r)
    BY <2>1 DEF ClaimOf
  <2>3. QED BY <1>1, <2>2, NoClaimMoves
<1>4. QED BY <1>2, <1>3

\* A refused request, with or without another attempt after it.
LEMMA RefusalPromise ==
  ASSUME Assumed, Sound, NEW c \in Call, NEW m \in Mandate, at[c].mandate = m,
         Fallback(c) \/ AboveCap(c) \/ Blocked(c)
  PROVE  [OneExec!Next]_(OneExec!vars)
<1>1. at[c].pc = "ask" /\ runs' = runs
  BY DEF Fallback, AboveCap, Blocked, outcomes
<1>2. \A r \in Request :
         \/ journal'.row[r].state = Closed(c).row[r].state
         \/ Closed(c).row[r].state = "none" /\ journal'.row[r].state = "requested"
  <2>1. CASE Fallback(c) /\ Remaining(c) # {}
    <3>1. Attempt(c, at[c].passers, Remaining(c), Closed(c))
      BY <2>1 DEF Fallback
    <3>2. CallIsSound(c) /\ at[c] \in At
      BY DEF Sound, TypeOK
    <3>3. at[c].passers \in SUBSET Mandate /\ Remaining(c) \in SUBSET at[c].passers
      BY <1>1, <3>2 DEF CallIsSound, Asking, Remaining, At
    <3>4. \A n \in at[c].passers : RequiresApproval(n) => n \in Remaining(c)
      BY <1>1, <3>2 DEF CallIsSound, Asking, Running, Free, Remaining, RequiresApproval
    <3>5. Closed(c) \in J!JournalType
      BY <1>1, ClosedRows
    <3>6. QED BY <2>1, <3>1, <3>3, <3>4, <3>5, AttemptClaims
  <2>2. CASE ~ (Fallback(c) /\ Remaining(c) # {})
    <3>1. journal' = Closed(c)
      BY <2>2 DEF Fallback, AboveCap, Blocked
    <3>2. QED BY <3>1
  <2>3. QED BY <2>1, <2>2
<1>3. QED BY <1>1, <1>2, RefusalClaims

\* From begin() to complete(): claimed, acted on, closed.
LEMMA TicketPromise ==
  ASSUME Assumed, Sound, NEW c \in Call, NEW m \in Mandate, at[c].mandate = m,
         Begin(c) \/ CallTool(c) \/ ToolAnswers(c) \/ CallThrows(c)
  PROVE  [OneExec!Next]_(OneExec!vars)
<1> USE DEF asVars, diskVars, outcomes
<1> DEFINE k == <<c, m>>
<1>1. /\ k \in Request /\ KeyOf(c) = k /\ journal \in J!JournalType
      /\ runs \in [Request -> Nat]
  BY DEF Request, KeyOf, Sound, TypeOK
<1>2. ASSUME journal' = journal, runs' = runs PROVE UNCHANGED OneExec!vars
  <2>1. \A r \in Request : ClaimOf(r)' = ClaimOf(r)
    BY <1>2 DEF ClaimOf
  <2>2. QED BY <1>2, <2>1, NoClaimMoves
<1>3. ASSUME JournalStep(journal, k, journal')
      PROVE  \A v : ClaimOf(k)' = v => Claims' = [Claims EXCEPT ![k] = v]
  <2>1. \A r \in Request : r # k => ClaimOf(r)' = ClaimOf(r)
    BY <1>3 DEF JournalStep, ClaimOf
  <2>2. QED BY <1>1, <2>1 DEF Claims
<1>4. CASE Begin(c)
  <2>1. runs' = runs
    BY <1>4 DEF Begin
  <2>2. CASE J!Claimable(journal, k, 1)
    <3>1. journal' = J!Begin(journal, k, 1) /\ "done" \in {"done", "failed"}
      BY <1>1, <1>4, <2>2 DEF Begin
    <3>2. ClaimOf(k) = "open"
      BY <2>2 DEF J!Claimable, ClaimOf
    <3>3. JournalStep(journal, k, J!Begin(journal, k, 1))
          /\ J!Begin(journal, k, 1).row[k].state = "intent"
      BY <1>1, <3>1, JournalSteps, JournalRows
    <3>4. ClaimOf(k)' = "claimed"
      BY <3>1, <3>3 DEF ClaimOf
    <3>5. Claims' = [Claims EXCEPT ![k] = "claimed"]
      BY <1>3, <3>1, <3>3, <3>4
    <3>6. OneExec!Claim(k)
      BY <1>1, <2>1, <3>2, <3>5 DEF OneExec!Claim, Claims
    <3>7. QED BY <1>1, <3>6 DEF OneExec!Next
  <2>3. CASE ~ J!Claimable(journal, k, 1)
    BY <1>1, <1>2, <1>4, <2>1, <2>3 DEF Begin
  <2>4. QED BY <2>2, <2>3
<1>5. CASE CallTool(c)
  <2>1. journal' = journal /\ runs' = [runs EXCEPT ![k] = runs[k] + 1] /\ at[c].pc = "begun"
    BY <1>1, <1>5 DEF CallTool
  <2>2. runs[k] = 0 /\ journal.row[k].state = "intent"
    BY <1>1, <2>1, NotYet DEF Sound, CallIsSound, Running
  <2>3. runs' = [runs EXCEPT ![k] = 1]
    BY <1>1, <2>1, <2>2
  <2>4. ClaimOf(k) = "claimed" /\ Claims' = Claims
    BY <2>1, <2>2 DEF ClaimOf, Claims
  <2>5. OneExec!Act(k)
    BY <1>1, <2>2, <2>3, <2>4 DEF OneExec!Act, Claims
  <2>6. QED BY <1>1, <2>5 DEF OneExec!Next
<1>6. CASE ToolAnswers(c) \/ CallThrows(c)
  <2>1. runs' = runs /\ at[c].pc = "call"
        /\ (journal' = journal \/ \E s \in {"done", "failed"} :
                                    journal' = J!Complete(journal, k, s, ""))
    BY <1>1, <1>6 DEF ToolAnswers, CallThrows
  <2>2. CASE journal' = journal
    BY <1>2, <2>1, <2>2
  <2>3. CASE journal' # journal
    <3>1. PICK s \in {"done", "failed"} : journal' = J!Complete(journal, k, s, "")
      BY <2>1, <2>3
    <3>2. JournalStep(journal, k, J!Complete(journal, k, s, ""))
          /\ J!Complete(journal, k, s, "").row[k].state = s
      BY <1>1, JournalSteps, JournalRows
    <3>3. runs[k] = 1 /\ journal.row[k].state = "intent"
      BY <1>1, <2>1 DEF Sound, CallIsSound, Running
    <3>4. ClaimOf(k) = "claimed" /\ ClaimOf(k)' = s
      BY <3>1, <3>2, <3>3 DEF ClaimOf
    <3>5. Claims' = [Claims EXCEPT ![k] = s]
      BY <1>3, <3>1, <3>2, <3>4
    <3>6. Claims[k] = "claimed" /\ runs[k] > 0
      BY <1>1, <3>3, <3>4 DEF Claims
    <3>7. OneExec!Close(k)
      <4>1. CASE s = "done"
        BY <2>1, <3>5, <3>6, <4>1 DEF OneExec!Close, Claims
      <4>2. CASE s = "failed"
        BY <2>1, <3>5, <3>6, <4>2 DEF OneExec!Close, Claims
      <4>3. QED BY <4>1, <4>2
    <3>8. QED BY <1>1, <3>7 DEF OneExec!Next
  <2>4. QED BY <2>2, <2>3
<1>7. QED BY <1>4, <1>5, <1>6

LEMMA StepPromise ==
  ASSUME Assumed, Sound, [Next]_vars
  PROVE  [OneExec!Next]_(OneExec!vars)
<1>1. ASSUME NEW c \in Call, Arrive(c) \/ Step(c) \/ AttemptFails(c) \/ BeginThrows(c)
      PROVE  [OneExec!Next]_(OneExec!vars)
  <2>1. CASE Fallback(c) \/ AboveCap(c) \/ Blocked(c) \/ Begin(c) \/ CallTool(c)
             \/ ToolAnswers(c) \/ CallThrows(c)
    <3>1. at[c].pc \in {"ask", "evidence", "begun", "call"}
      BY <2>1 DEF Fallback, AboveCap, Blocked, Begin, CallTool, ToolAnswers, CallThrows
    <3>2. at[c].mandate \in Mandate
      BY <3>1 DEF Sound, CallIsSound, Running, Free
    <3>3. QED BY <2>1, <3>2, RefusalPromise, TicketPromise
  <2>2. CASE Arrive(c) \/ ChecksPass(c) \/ ChecksFail(c) \/ Propose(c) \/ TicketArrives(c)
             \/ EvidenceFails(c) \/ AttemptFails(c) \/ BeginThrows(c)
    BY <2>2, QuietPromise
  <2>3. QED BY <1>1, <2>1, <2>2 DEF Step
<1>2. ASSUME journal' = journal, runs' = runs PROVE UNCHANGED OneExec!vars
  <2>1. \A r \in Request : ClaimOf(r)' = ClaimOf(r)
    BY <1>2 DEF ClaimOf
  <2>2. QED BY <1>2, <2>1, NoClaimMoves
<1>3. ASSUME (\E k \in Request : AsAnswers(k)) \/ (\E m \in Mandate : Invalid(m)) \/ Crash
             \/ UNCHANGED vars
      PROVE  journal' = journal /\ runs' = runs
  BY <1>3 DEF AsAnswers, Invalid, Crash, vars, diskVars, outcomes
<1>4. QED BY <1>1, <1>2, <1>3 DEF Next

\* The automatic path implements the abstract promise: a request is claimed on
\* disk before it is acted on, acted on at most once, and closed for good.
THEOREM AutomaticPromise ==
  ASSUME Assumed
  PROVE  Spec => OneExecutionPromise
<1>1. Init => OneExec!Init
  <2>1. ASSUME Init, NEW k \in Request PROVE ClaimOf(k) = "open"
    <3>1. journal.row[k].state = "none"
      BY <2>1 DEF Init, J!EmptyJournal, J!NoRow
    <3>2. QED BY <3>1 DEF ClaimOf
  <2>2. Init => runs = [k \in Request |-> 0]
    BY DEF Init
  <2>3. QED BY <2>1, <2>2 DEF OneExec!Init
<1>2. Sound /\ [Next]_vars => [OneExec!Next]_(OneExec!vars)
  BY StepPromise
<1>3. QED BY <1>1, <1>2, SoundAlways, PTL DEF Spec, OneExecutionPromise, OneExec!Spec
==============================================================================
