-------------------------- MODULE LifecycleProofs ----------------------------
(***************************************************************************)
(* Theorems about IntegrationLifecycle, for any number of requests,        *)
(* crashes and failures: a connector has at most one child, its respawns   *)
(* stay within what was asked for, and once all is done it has the newest  *)
(* credentials.  The respawns are bounded by a sum over the timers and the *)
(* queue, so what appending to a sequence and removing from it does to a   *)
(* sum comes first; the library has no induction this prover can use, and  *)
(* the least counterexample takes its place.                               *)
(***************************************************************************)
EXTENDS IntegrationLifecycle, NaturalsInduction, WellFoundedInduction, SequenceTheorems, TLAPS

-----------------------------------------------------------------------------
(* Sums of sequences.                                                       *)

\* Whoever starts at 0 and goes one up as long as there is room gets everywhere.
LEMMA UpTo ==
  ASSUME NEW m \in Nat, NEW S, 0 \in S, \A n \in 0 .. m : n \in S /\ n < m => n + 1 \in S
  PROVE  \A n \in 0 .. m : n \in S
<1> DEFINE T == {n \in 0 .. m : n \notin S}
<1>1. SUFFICES ASSUME T # {} PROVE FALSE
  OBVIOUS
<1>2. T \in SUBSET Nat
  OBVIOUS
<1>3. \E x \in T : \A y \in T : ~(<<y, x>> \in OpToRel(<, Nat))
  BY <1>1, <1>2, NatLessThanWellFounded, WFMin, Zenon
<1>4. PICK x \in T : \A y \in T : ~(y < x)
  BY <1>2, <1>3 DEF OpToRel
<1>5. x \in 0 .. m /\ x \notin S /\ x # 0
  OBVIOUS
<1>6. x - 1 \in 0 .. m /\ x - 1 < m /\ x - 1 < x /\ (x - 1) + 1 = x
  BY <1>5
<1>7. x - 1 \in S
  BY <1>4, <1>6
<1>8. (x - 1) + 1 \in S
  BY <1>6, <1>7
<1>9. QED BY <1>5, <1>6, <1>8

\* The sums of the first k elements, for every k up to n.
SumsTo(f, s, n) ==
  /\ f \in [0 .. n -> Int] /\ f[0] = 0
  /\ \A k \in 1 .. n : f[k] = f[k - 1] + s[k]
Sums(f, s) == SumsTo(f, s, Len(s))

LEMMA SumsExist == ASSUME NEW s \in Seq(Int) PROVE \E f : Sums(f, s)
<1> DEFINE S == {n \in 0 .. Len(s) : \E f : SumsTo(f, s, n)}
<1>1. 0 \in S
  <2>1. SumsTo([k \in 0 .. 0 |-> 0], s, 0)
    BY DEF SumsTo
  <2>2. \E f : SumsTo(f, s, 0)
    BY <2>1
  <2>3. QED BY <2>2
<1>2. ASSUME NEW n \in 0 .. Len(s), n \in S, n < Len(s) PROVE n + 1 \in S
  <2>1. PICK f : SumsTo(f, s, n)
    BY <1>2
  <2> DEFINE g == [k \in 0 .. n + 1 |-> IF k = n + 1 THEN f[n] + s[n + 1] ELSE f[k]]
  <2>2. n + 1 \in 1 .. Len(s) /\ s[n + 1] \in Int /\ f[n] \in Int
    BY <1>2, <2>1 DEF SumsTo
  <2>3. g \in [0 .. n + 1 -> Int] /\ g[0] = 0
    BY <2>1, <2>2 DEF SumsTo
  <2>4. ASSUME NEW k \in 1 .. n + 1 PROVE g[k] = g[k - 1] + s[k]
    <3>1. CASE k = n + 1
      <4>1. g[k] = f[n] + s[n + 1] /\ g[k - 1] = f[n]
        BY <3>1
      <4>2. QED BY <3>1, <4>1
    <3>2. CASE k # n + 1
      <4>1. k \in 1 .. n /\ g[k] = f[k] /\ g[k - 1] = f[k - 1]
        BY <3>2
      <4>2. QED BY <2>1, <4>1 DEF SumsTo
    <3>3. QED BY <3>1, <3>2
  <2> HIDE DEF g
  <2>5. SumsTo(g, s, n + 1)
    BY <2>3, <2>4 DEF SumsTo
  <2>6. \E h : SumsTo(h, s, n + 1)
    BY <2>5
  <2>7. n + 1 \in 0 .. Len(s)
    BY <1>2
  <2>8. QED BY <2>6, <2>7
<1> HIDE DEF S
<1>3. Len(s) \in Nat
  OBVIOUS
<1>4. \A n \in 0 .. Len(s) : n \in S
  BY <1>1, <1>2, <1>3, UpTo
<1>5. Len(s) \in S
  BY <1>3, <1>4
<1>6. QED BY <1>5 DEF S, Sums

\* ... are determined.
LEMMA SumsAgree ==
  ASSUME NEW s \in Seq(Int), NEW f, NEW g, Sums(f, s), Sums(g, s) PROVE f = g
<1> DEFINE S == {n \in 0 .. Len(s) : f[n] = g[n]}
<1>1. 0 \in S
  BY DEF Sums, SumsTo
<1>2. ASSUME NEW n \in 0 .. Len(s), n \in S, n < Len(s) PROVE n + 1 \in S
  <2>1. n + 1 \in 1 .. Len(s) /\ (n + 1) - 1 = n
    BY <1>2
  <2>2. f[n + 1] = f[n] + s[n + 1] /\ g[n + 1] = g[n] + s[n + 1]
    BY <2>1 DEF Sums, SumsTo
  <2>3. QED BY <1>2, <2>1, <2>2
<1> HIDE DEF S
<1>3. Len(s) \in Nat
  OBVIOUS
<1>4. \A n \in 0 .. Len(s) : n \in S
  BY <1>1, <1>2, <1>3, UpTo
<1>5. QED BY <1>4 DEF S, Sums, SumsTo

LEMMA SumIs ==
  ASSUME NEW s \in Seq(Int), NEW f, Sums(f, s) PROVE SumOf(s) = f[Len(s)] /\ SumOf(s) \in Int
<1> DEFINE Of(g) == [n \in 0 .. Len(s) |-> IF n = 0 THEN 0 ELSE g[n - 1] + s[n]]
           sum == CHOOSE g : g = Of(g)
<1>1. f = Of(f)
  BY DEF Sums, SumsTo
<1>2. sum = Of(sum)
  BY <1>1
<1>3. Sums(sum, s)
  <2> HIDE DEF sum
  <2> DEFINE S == {n \in 0 .. Len(s) : sum[n] \in Int}
  <2>1. Len(s) \in Nat /\ sum[0] = 0
    BY <1>2
  <2>2. ASSUME NEW n \in 1 .. Len(s) PROVE sum[n] = sum[n - 1] + s[n]
    <3>1. n \in 0 .. Len(s) /\ n # 0
      OBVIOUS
    <3>2. Of(sum)[n] = sum[n - 1] + s[n]
      BY <3>1
    <3>3. QED BY <1>2, <3>2, Zenon
  <2>3. 0 \in S
    BY <2>1
  <2>4. ASSUME NEW n \in 0 .. Len(s), n \in S, n < Len(s) PROVE n + 1 \in S
    <3>1. n + 1 \in 1 .. Len(s) /\ (n + 1) - 1 = n /\ s[n + 1] \in Int
      BY <2>4
    <3>2. sum[n + 1] = sum[n] + s[n + 1]
      BY <2>2, <3>1
    <3>3. QED BY <2>4, <3>1, <3>2
  <2> HIDE DEF S
  <2>5. \A n \in 0 .. Len(s) : n \in S
    BY <2>1, <2>3, <2>4, UpTo
  <2>6. sum \in [0 .. Len(s) -> Int]
    BY <1>2, <2>5 DEF S
  <2>7. QED BY <2>1, <2>2, <2>6 DEF Sums, SumsTo
<1>4. sum = f
  <2> HIDE DEF sum
  <2> QED BY <1>3, SumsAgree
<1>5. SumOf(s) = sum[Len(s)]
  BY DEF SumOf
<1>6. Len(s) \in 0 .. Len(s)
  OBVIOUS
<1> HIDE DEF sum
<1>7. QED BY <1>4, <1>5, <1>6 DEF Sums, SumsTo

LEMMA SumOfNone == SumOf(<<>>) = 0
<1>1. <<>> \in Seq(Int) /\ Len(<<>>) = 0
  OBVIOUS
<1>2. Sums([n \in 0 .. 0 |-> 0], <<>>)
  BY DEF Sums, SumsTo
<1>3. QED BY <1>1, <1>2, SumIs

LEMMA SumIsInt == ASSUME NEW s \in Seq(Int) PROVE SumOf(s) \in Int
BY SumsExist, SumIs

LEMMA SumGrows ==
  ASSUME NEW s \in Seq(Int), NEW r \in Seq(Int), Len(r) = Len(s) + 1,
         \A n \in 1 .. Len(s) : r[n] = s[n]
  PROVE  SumOf(r) = SumOf(s) + r[Len(r)]
<1>1. PICK f : Sums(f, s)
  BY SumsExist
<1>2. Len(s) \in Nat /\ Len(r) \in 1 .. Len(r) /\ Len(r) - 1 = Len(s) /\ r[Len(r)] \in Int
  OBVIOUS
<1> DEFINE g == [n \in 0 .. Len(r) |-> IF n = Len(r) THEN f[Len(s)] + r[Len(r)] ELSE f[n]]
<1>3. f \in [0 .. Len(s) -> Int] /\ f[0] = 0 /\ \A n \in 1 .. Len(s) : f[n] = f[n - 1] + s[n]
  BY <1>1 DEF Sums, SumsTo
<1>4. g \in [0 .. Len(r) -> Int] /\ g[0] = 0 /\ g[Len(r)] = f[Len(s)] + r[Len(r)]
  <2>1. f[Len(s)] \in Int /\ Len(r) \in 0 .. Len(r) /\ 0 \in 0 .. Len(r) /\ Len(r) # 0
    BY <1>2, <1>3
  <2>2. f[Len(s)] + r[Len(r)] \in Int
    BY <1>2, <2>1
  <2>3. ASSUME NEW n \in 0 .. Len(r), n # Len(r) PROVE f[n] \in Int
    <3>1. n \in 0 .. Len(s)
      BY <1>2, <2>3
    <3>2. QED BY <1>3, <3>1
  <2>4. g \in [0 .. Len(r) -> Int]
    BY <2>2, <2>3
  <2>5. g[0] = 0 /\ g[Len(r)] = f[Len(s)] + r[Len(r)]
    BY <1>3, <2>1
  <2>6. QED BY <2>4, <2>5
<1>5. ASSUME NEW n \in 1 .. Len(r) PROVE g[n] = g[n - 1] + r[n]
  <2>1. CASE n = Len(r)
    <3>0. Len(r) = Len(s) + 1 /\ Len(s) \in Nat
      BY <1>2
    <3>1. n - 1 = Len(s) /\ n - 1 \in 0 .. Len(r) /\ n - 1 # Len(r)
      BY <2>1, <3>0
    <3>2. g[n - 1] = f[Len(s)]
      BY <3>1
    <3>3. QED BY <1>4, <2>1, <3>2
  <2>2. CASE n # Len(r)
    <3>1. n \in 1 .. Len(s) /\ g[n] = f[n] /\ g[n - 1] = f[n - 1]
      BY <1>2, <2>2
    <3>2. QED BY <1>3, <3>1
  <2>3. QED BY <2>1, <2>2
<1> HIDE DEF g
<1>6. Sums(g, r)
  BY <1>4, <1>5 DEF Sums, SumsTo
<1>7. QED BY <1>1, <1>4, <1>6, SumIs

\* One element less.
LEMMA SumShrinks ==
  ASSUME NEW s \in Seq(Int), NEW r \in Seq(Int), NEW i \in 1 .. Len(s), Len(r) = Len(s) - 1,
         \A n \in 1 .. Len(r) : r[n] = IF n < i THEN s[n] ELSE s[n + 1]
  PROVE  SumOf(r) = SumOf(s) - s[i]
<1>1. PICK f : Sums(f, s)
  BY SumsExist
<1>2. PICK g : Sums(g, r)
  BY SumsExist
<1>3. f \in [0 .. Len(s) -> Int] /\ f[0] = 0 /\ \A n \in 1 .. Len(s) : f[n] = f[n - 1] + s[n]
  BY <1>1 DEF Sums, SumsTo
<1>4. g \in [0 .. Len(r) -> Int] /\ g[0] = 0 /\ \A n \in 1 .. Len(r) : g[n] = g[n - 1] + r[n]
  BY <1>2 DEF Sums, SumsTo
<1>5. Len(s) \in Nat /\ Len(r) \in Nat /\ s[i] \in Int
  OBVIOUS
<1> DEFINE S == {n \in 0 .. Len(r) : g[n] = IF n < i THEN f[n] ELSE f[n + 1] - s[i]}
<1>6. 0 \in S
  BY <1>3, <1>4, <1>5
<1>7. ASSUME NEW n \in 0 .. Len(r), n \in S, n < Len(r) PROVE n + 1 \in S
  <2>1. /\ n + 1 \in 1 .. Len(r) /\ (n + 1) - 1 = n /\ n + 1 \in 1 .. Len(s)
        /\ n + 2 \in 1 .. Len(s) /\ (n + 2) - 1 = n + 1 /\ (n + 1) + 1 = n + 2
    BY <1>5, <1>7
  <2>2. /\ g[n + 1] = g[n] + r[n + 1]
        /\ f[n + 1] = f[n] + s[n + 1] /\ f[n + 2] = f[n + 1] + s[n + 2]
        /\ r[n + 1] = IF n + 1 < i THEN s[n + 1] ELSE s[n + 2]
    BY <1>3, <1>4, <2>1
  <2>9. n \in 0 .. Len(s) /\ n + 1 \in 0 .. Len(s) /\ n + 2 \in 0 .. Len(s)
    BY <1>5, <2>1
  <2>3. /\ f[n] \in Int /\ f[n + 1] \in Int /\ f[n + 2] \in Int
        /\ s[n + 1] \in Int /\ s[n + 2] \in Int
    <3>1. f[n] \in Int /\ f[n + 1] \in Int /\ f[n + 2] \in Int
      BY <1>3, <2>9
    <3>2. s[n + 1] \in Int /\ s[n + 2] \in Int
      BY <2>1
    <3>3. QED BY <3>1, <3>2
  <2>4. g[n] = IF n < i THEN f[n] ELSE f[n + 1] - s[i]
    BY <1>7
  <2>5. CASE n + 1 < i
    BY <2>1, <2>2, <2>3, <2>4, <2>5
  <2>6. CASE n + 1 = i
    <3>1. n < i /\ ~(n + 1 < i) /\ s[i] = s[n + 1] /\ g[n] = f[n]
      BY <2>1, <2>4, <2>6
    <3>2. g[n + 1] = f[n] + s[n + 2] /\ f[n + 2] = f[n] + s[n + 1] + s[n + 2]
      BY <2>2, <2>3, <3>1
    <3>3. g[n + 1] = f[n + 2] - s[i]
      <4> DEFINE a == f[n]
                 b == s[n + 1]
                 c == s[n + 2]
      <4>1. a \in Int /\ b \in Int /\ c \in Int
        BY <2>3
      <4>2. g[n + 1] = a + c /\ f[n + 2] = a + b + c /\ s[i] = b
        BY <3>1, <3>2
      <4> HIDE DEF a, b, c
      <4>3. QED BY <4>1, <4>2
    <3>4. n + 1 \in 0 .. Len(r) /\ (n + 1) + 1 = n + 2
      BY <2>1
    <3>5. QED BY <3>1, <3>3, <3>4
  <2>7. CASE n >= i
    BY <1>5, <2>1, <2>2, <2>3, <2>4, <2>7
  <2>8. QED BY <2>5, <2>6, <2>7
<1> HIDE DEF S
<1>8. \A n \in 0 .. Len(r) : n \in S
  BY <1>5, <1>6, <1>7, UpTo
<1>9. Len(r) \in S
  BY <1>5, <1>8
<1>10. g[Len(r)] = f[Len(s)] - s[i]
  <2>1. CASE Len(r) < i
    <3>1. Len(s) = i /\ g[Len(r)] = f[i - 1] /\ f[i] = f[i - 1] + s[i]
      BY <1>3, <1>5, <1>9, <2>1 DEF S
    <3>4. i - 1 \in 0 .. Len(s)
      BY <1>5, <3>1
    <3>2. f[i - 1] \in Int
      BY <1>3, <3>4
    <3>3. QED BY <1>5, <3>1, <3>2
  <2>2. CASE Len(r) >= i
    BY <1>5, <1>9, <2>2 DEF S
  <2>3. QED BY <1>5, <2>1, <2>2
<1>11. QED BY <1>1, <1>2, <1>10, SumIs


-----------------------------------------------------------------------------
(* What the lifecycle keeps.                                                *)

\* A job that starts something knows with which gating and window.
Fit == {j \in Jobs : j.by \notin Stops => j.gating \in Gatings /\ j.age \in Ages}
Phases == {"idle", "closing", "installing", "connecting", "listing"}

LifeTypes ==
  /\ creds \in {0} \union Values /\ registry \in Gatings \union {None} /\ saved \in Ages
  /\ running \in Entries \union {NoEntry}
  /\ live \subseteq Children /\ abandoned \subseteq live
  /\ queue \in Seq(Fit) /\ work \in Fit \union {NoJob}
  /\ pc \in Phases /\ (pc = "idle" <=> work = NoJob)
  /\ timers \in Seq(Timers)
  /\ started \in Nat /\ respawned \in Nat
  /\ requests \in Nat /\ crashes \in Nat /\ failures \in Nat
LifeFlags == required \in BOOLEAN /\ gaveUp \in BOOLEAN /\ halted \in BOOLEAN

\* A child that was given up on is nobody's any more.
ChildrenAreSound ==
  /\ OneChild
  /\ running # NoEntry => running.child \notin abandoned
  /\ pc \in {"connecting", "listing"} => work.child \in Children \ abandoned
  /\ pc \in {"installing", "connecting", "listing"} => work.by \notin Stops

\* Whoever runs, or comes up, with credentials that are not the newest is
\* started again by a job that waits, or by its own.
Sent == \E n \in DOMAIN queue : queue[n].by \in {"add", "restart", "service"}
CredentialsFollow ==
  /\ creds = 0 /\ running # NoEntry => running.creds = 0
  /\ creds = 0 /\ pc \in {"connecting", "listing"} => work.creds = 0
  /\ registry # None /\ pc = "idle" /\ running # NoEntry /\ running.creds # creds => Sent
  /\ registry # None /\ pc \in {"connecting", "listing"} /\ work.creds # creds
       => Sent \/ work.by = "service"

LifeInv ==
  LifeTypes /\ LifeFlags /\ ChildrenAreSound /\ CredentialsFollow /\ RespawnsAreBounded

\* Which jobs there are.
Fresh == {j \in Fit : j.by # "respawn"}
LEMMA JobsAreFit ==
  ASSUME LifecycleAssumption
  PROVE  /\ \A gating \in Gatings, age \in Ages : Job("add", gating, 0, age) \in Fresh
         /\ \A by \in {"restore", "service", "restart"}, age \in Ages :
               Job(by, "manifest", 0, age) \in Fresh
         /\ \A by \in Stops : Job(by, None, 0, NoAge) \in Fresh
         /\ \A gating \in Gatings, age \in Ages, attempts \in 0 .. MaxRespawns - 1 :
               Job("respawn", gating, attempts, age) \in Fit
         /\ NoJob \notin Fit /\ NoEntry \notin Entries
<1>1. 0 \in 0 .. MaxRespawns - 1 /\ "manifest" \in Gatings
  BY DEF LifecycleAssumption, Gatings
<1>2. QED
  BY <1>1 DEF LifecycleAssumption, Fresh, Fit, Jobs, Job, Keeps, Stops, NoJob,
     NoEntry, Entries, None, Gatings

\* What a queue and the crash timers may still spend.
QueueSum(q) == SumOf([n \in DOMAIN q |-> OfJob(q[n])])
TimerSum(t) == SumOf([n \in DOMAIN t |-> Left(t[n].attempts)])

LEMMA JobSpends ==
  ASSUME LifecycleAssumption
  PROVE  /\ \A j \in Fit : OfJob(j) \in Nat /\ (j.by # "respawn" => OfJob(j) = 0)
         /\ \A j \in Fit : j.by = "respawn" => OfJob(j) = Left(j.attempts + 1)
         /\ \A t \in Timers : Left(t.attempts) \in Nat
         /\ \A entry \in Entries : Left(entry.attempts) \in Nat
         /\ OfJob(NoJob) = 0
<1>1. MaxRespawns \in Nat /\ MaxRespawns # 0
  BY DEF LifecycleAssumption
<1>2. \A a \in 0 .. MaxRespawns - 1 : MaxRespawns - a \in Nat /\ MaxRespawns - (a + 1) \in Nat
  BY <1>1
<1>3. \A a \in 0 .. MaxRespawns : MaxRespawns - a \in Nat
  BY <1>1
<1>4. \A j \in Fit : j.attempts \in 0 .. MaxRespawns - 1
  BY DEF Fit, Jobs
<1>5. \A t \in Timers : t.attempts \in 0 .. MaxRespawns - 1
  BY DEF Timers
<1>6. \A entry \in Entries : entry.attempts \in 0 .. MaxRespawns
  BY DEF Entries
<1>7. QED BY <1>2, <1>3, <1>4, <1>5, <1>6 DEF OfJob, Left, NoJob, Job, None

LEMMA QueueIsSummed ==
  ASSUME LifecycleAssumption, NEW q \in Seq(Fit)
  PROVE  /\ [n \in DOMAIN q |-> OfJob(q[n])] \in Seq(Int)
         /\ Len([n \in DOMAIN q |-> OfJob(q[n])]) = Len(q)
         /\ QueueSum(q) \in Int
<1>1. \A n \in 1 .. Len(q) : OfJob(q[n]) \in Int
  BY JobSpends
<1> DEFINE s == [n \in 1 .. Len(q) |-> OfJob(q[n])]
<1>2. s \in Seq(Int) /\ Len(s) = Len(q)
  BY <1>1, IsASeq
<1>3. DOMAIN q = 1 .. Len(q)
  OBVIOUS
<1>4. QED BY <1>2, <1>3, SumIsInt DEF QueueSum

LEMMA TimersAreSummed ==
  ASSUME LifecycleAssumption, NEW t \in Seq(Timers)
  PROVE  /\ [n \in DOMAIN t |-> Left(t[n].attempts)] \in Seq(Int)
         /\ Len([n \in DOMAIN t |-> Left(t[n].attempts)]) = Len(t)
         /\ TimerSum(t) \in Int
<1>1. \A n \in 1 .. Len(t) : Left(t[n].attempts) \in Int
  BY JobSpends
<1> DEFINE s == [n \in 1 .. Len(t) |-> Left(t[n].attempts)]
<1>2. s \in Seq(Int) /\ Len(s) = Len(t)
  BY <1>1, IsASeq
<1>3. DOMAIN t = 1 .. Len(t)
  OBVIOUS
<1>4. QED BY <1>2, <1>3, SumIsInt DEF TimerSum

LEMMA QueueSumAppends ==
  ASSUME LifecycleAssumption, NEW q \in Seq(Fit), NEW j \in Fit
  PROVE  Append(q, j) \in Seq(Fit) /\ QueueSum(Append(q, j)) = QueueSum(q) + OfJob(j)
<1> DEFINE p == Append(q, j)
           s == [n \in DOMAIN q |-> OfJob(q[n])]
           r == [n \in DOMAIN p |-> OfJob(p[n])]
<1>1. /\ p \in Seq(Fit) /\ Len(p) = Len(q) + 1 /\ p[Len(p)] = j
      /\ \A n \in 1 .. Len(q) : p[n] = q[n]
      /\ DOMAIN p = 1 .. Len(p) /\ DOMAIN q = 1 .. Len(q) /\ Len(q) \in Nat
  OBVIOUS
<1>2. s \in Seq(Int) /\ Len(s) = Len(q) /\ r \in Seq(Int) /\ Len(r) = Len(p)
  BY <1>1, QueueIsSummed
<1>3. \A n \in 1 .. Len(s) : r[n] = s[n]
  BY <1>1, <1>2
<1>4. r[Len(r)] = OfJob(j)
  BY <1>1, <1>2
<1>5. QueueSum(p) = SumOf(r) /\ QueueSum(q) = SumOf(s)
  BY DEF QueueSum
<1> HIDE DEF p, r, s
<1>6. QED BY <1>1, <1>2, <1>3, <1>4, <1>5, SumGrows DEF p

LEMMA QueueSumTail ==
  ASSUME LifecycleAssumption, NEW q \in Seq(Fit), q # <<>>
  PROVE  /\ Tail(q) \in Seq(Fit) /\ Head(q) \in Fit
         /\ QueueSum(Tail(q)) = QueueSum(q) - OfJob(Head(q))
<1> DEFINE p == Tail(q)
           s == [n \in DOMAIN q |-> OfJob(q[n])]
           r == [n \in DOMAIN p |-> OfJob(p[n])]
<1>1. /\ p \in Seq(Fit) /\ Len(p) = Len(q) - 1 /\ 1 \in 1 .. Len(q) /\ Head(q) = q[1]
      /\ \A n \in 1 .. Len(p) : p[n] = q[n + 1]
      /\ DOMAIN p = 1 .. Len(p) /\ DOMAIN q = 1 .. Len(q) /\ Len(q) \in Nat
  OBVIOUS
<1>2. s \in Seq(Int) /\ Len(s) = Len(q) /\ r \in Seq(Int) /\ Len(r) = Len(p)
  BY <1>1, QueueIsSummed
<1>3. s[1] = OfJob(Head(q))
  BY <1>1
<1>4. ASSUME NEW n \in 1 .. Len(r) PROVE r[n] = IF n < 1 THEN s[n] ELSE s[n + 1]
  <2>1. n \in 1 .. Len(p) /\ ~(n < 1) /\ n + 1 \in 1 .. Len(q)
    BY <1>1, <1>2
  <2>2. QED BY <1>1, <2>1
<1>5. QueueSum(p) = SumOf(r) /\ QueueSum(q) = SumOf(s)
  BY DEF QueueSum
<1> HIDE DEF p, r, s
<1>6. SumOf(r) = SumOf(s) - s[1]
  BY <1>1, <1>2, <1>4, SumShrinks
<1>7. Head(q) \in Fit
  BY <1>1
<1>8. QED BY <1>1, <1>3, <1>5, <1>6, <1>7 DEF p

LEMMA TimerSumAppends ==
  ASSUME LifecycleAssumption, NEW t \in Seq(Timers), NEW e \in Timers
  PROVE  /\ Append(t, e) \in Seq(Timers)
         /\ TimerSum(Append(t, e)) = TimerSum(t) + Left(e.attempts)
<1> DEFINE p == Append(t, e)
           s == [n \in DOMAIN t |-> Left(t[n].attempts)]
           r == [n \in DOMAIN p |-> Left(p[n].attempts)]
<1>1. /\ p \in Seq(Timers) /\ Len(p) = Len(t) + 1 /\ p[Len(p)] = e
      /\ \A n \in 1 .. Len(t) : p[n] = t[n]
      /\ DOMAIN p = 1 .. Len(p) /\ DOMAIN t = 1 .. Len(t) /\ Len(t) \in Nat
  OBVIOUS
<1>2. s \in Seq(Int) /\ Len(s) = Len(t) /\ r \in Seq(Int) /\ Len(r) = Len(p)
  BY <1>1, TimersAreSummed
<1>3. \A n \in 1 .. Len(s) : r[n] = s[n]
  BY <1>1, <1>2
<1>4. r[Len(r)] = Left(e.attempts)
  BY <1>1, <1>2
<1>5. TimerSum(p) = SumOf(r) /\ TimerSum(t) = SumOf(s)
  BY DEF TimerSum
<1> HIDE DEF p, r, s
<1>6. QED BY <1>1, <1>2, <1>3, <1>4, <1>5, SumGrows DEF p

LEMMA TimerSumRemoves ==
  ASSUME LifecycleAssumption, NEW t \in Seq(Timers), NEW i \in 1 .. Len(t)
  PROVE  /\ RemoveAt(t, i) \in Seq(Timers) /\ t[i] \in Timers
         /\ TimerSum(RemoveAt(t, i)) = TimerSum(t) - Left(t[i].attempts)
<1> DEFINE a == SubSeq(t, 1, i - 1)
           b == SubSeq(t, i + 1, Len(t))
           p == RemoveAt(t, i)
           s == [n \in DOMAIN t |-> Left(t[n].attempts)]
           r == [n \in DOMAIN p |-> Left(p[n].attempts)]
<1>1. Len(t) \in Nat /\ i \in Nat /\ DOMAIN t = 1 .. Len(t) /\ t[i] \in Timers
  OBVIOUS
<1>2. a \in Seq(Timers) /\ Len(a) = i - 1 /\ \A n \in 1 .. i - 1 : a[n] = t[n]
  BY <1>1
<1>3. b \in Seq(Timers) /\ Len(b) = Len(t) - i /\ \A n \in 1 .. Len(t) - i : b[n] = t[n + i]
  <2>1. \A n \in i + 1 .. Len(t) : t[n] \in Timers
    BY <1>1
  <2>2. /\ b \in Seq(Timers) /\ Len(b) = IF i + 1 <= Len(t) THEN Len(t) - (i + 1) + 1 ELSE 0
        /\ \A n \in 1 .. Len(t) - (i + 1) + 1 : b[n] = t[i + 1 + n - 1]
    BY <1>1, <2>1, SubSeqProperties
  <2> HIDE DEF b
  <2>6. i <= Len(t) /\ i \in Int /\ Len(t) \in Int
    BY <1>1
  <2>7. Len(t) - (i + 1) + 1 = Len(t) - i /\ (i + 1 > Len(t) => Len(t) - i = 0)
    BY <2>6
  <2>3. Len(b) = Len(t) - i
    <3>1. CASE i + 1 <= Len(t)
      <4>1. Len(b) = Len(t) - (i + 1) + 1
        BY <2>2, <3>1
      <4>2. QED BY <2>7, <4>1
    <3>2. CASE ~(i + 1 <= Len(t))
      <4>1. Len(b) = 0
        BY <2>2, <3>2
      <4>2. Len(t) - i = 0
        BY <2>6, <3>2
      <4>3. QED BY <4>1, <4>2
    <3>3. QED BY <3>1, <3>2
  <2>4. \A n \in 1 .. Len(t) - i : i + 1 + n - 1 = n + i
    BY <1>1
  <2>5. QED BY <2>2, <2>3, <2>4, <2>7
<1>4. p = a \o b
  BY DEF RemoveAt
<1> HIDE DEF a, b, p
<1>5. /\ p \in Seq(Timers) /\ Len(p) = Len(t) - 1 /\ DOMAIN p = 1 .. Len(p)
      /\ \A n \in 1 .. Len(p) : p[n] = IF n < i THEN t[n] ELSE t[n + 1]
  <2>1. p \in Seq(Timers) /\ Len(p) = Len(a) + Len(b) /\ DOMAIN p = 1 .. Len(p)
    <3>1. p \in Seq(Timers) /\ Len(p) = Len(a) + Len(b)
      BY <1>2, <1>3, <1>4, ConcatProperties
    <3>2. QED BY <3>1
  <2>2. Len(p) = Len(t) - 1
    BY <1>1, <1>2, <1>3, <2>1
  <2>3. ASSUME NEW n \in 1 .. Len(p) PROVE p[n] = IF n < i THEN t[n] ELSE t[n + 1]
    <3>1. CASE n < i
      <4>1. n \in 1 .. Len(a) /\ p[n] = a[n]
        BY <1>1, <1>2, <1>3, <1>4, <2>2, <3>1
      <4>2. QED BY <1>2, <3>1, <4>1
    <3>2. CASE ~(n < i)
      <4>1. n - Len(a) \in 1 .. Len(b) /\ p[n] = b[n - Len(a)] /\ n - Len(a) + i = n + 1
        BY <1>1, <1>2, <1>3, <1>4, <2>2, <3>2
      <4>2. n - Len(a) \in 1 .. Len(t) - i
        BY <1>3, <4>1
      <4>3. QED BY <1>3, <3>2, <4>1, <4>2
    <3>3. QED BY <3>1, <3>2
  <2>4. QED BY <2>1, <2>2, <2>3
<1>6. s \in Seq(Int) /\ Len(s) = Len(t) /\ r \in Seq(Int) /\ Len(r) = Len(p)
  BY <1>5, TimersAreSummed
<1>7. s[i] = Left(t[i].attempts)
  BY <1>1
<1>8. ASSUME NEW n \in 1 .. Len(r) PROVE r[n] = IF n < i THEN s[n] ELSE s[n + 1]
  <2>1. n \in 1 .. Len(p) /\ n \in 1 .. Len(t) /\ n + 1 \in 1 .. Len(t)
    BY <1>1, <1>5, <1>6
  <2>2. r[n] = Left(p[n].attempts) /\ s[n] = Left(t[n].attempts)
        /\ s[n + 1] = Left(t[n + 1].attempts)
    BY <1>1, <1>5, <2>1
  <2>3. QED BY <1>5, <2>1, <2>2
<1>9. TimerSum(p) = SumOf(r) /\ TimerSum(t) = SumOf(s)
  BY DEF TimerSum
<1> HIDE DEF r, s
<1>10. SumOf(r) = SumOf(s) - s[i]
  <2>1. Len(r) = Len(s) - 1
    BY <1>5, <1>6
  <2>2. i \in 1 .. Len(s)
    BY <1>1, <1>6
  <2>3. \A n \in 1 .. Len(r) : r[n] = IF n < i THEN s[n] ELSE s[n + 1]
    BY <1>8
  <2>4. s \in Seq(Int) /\ r \in Seq(Int)
    BY <1>6
  <2>5. QED BY <2>1, <2>2, <2>3, <2>4, SumShrinks
<1>11. TimerSum(p) = TimerSum(t) - Left(t[i].attempts)
  BY <1>7, <1>9, <1>10, Zenon
<1>12. p \in Seq(Timers) /\ t[i] \in Timers
  BY <1>1, <1>5
<1>13. QED BY <1>11, <1>12, Zenon DEF p

-----------------------------------------------------------------------------
(* The requests.                                                            *)

\* Another job at the end of the queue.
LEMMA SentAppends ==
  ASSUME NEW j \in Fit, queue \in Seq(Fit), queue' = Append(queue, j)
  PROVE  Sent \/ j.by \in {"add", "restart", "service"} => Sent'
<1>1. /\ DOMAIN queue = 1 .. Len(queue) /\ DOMAIN queue' = 1 .. Len(queue) + 1
      /\ Len(queue) \in Nat /\ queue'[Len(queue) + 1] = j
      /\ \A n \in 1 .. Len(queue) : queue'[n] = queue[n]
  OBVIOUS
<1>2. DOMAIN queue \subseteq DOMAIN queue' /\ Len(queue) + 1 \in DOMAIN queue'
  BY <1>1
<1>3. Sent => Sent'
  BY <1>1, <1>2 DEF Sent
<1>4. j.by \in {"add", "restart", "service"} => Sent'
  BY <1>1, <1>2 DEF Sent
<1>5. QED BY <1>3, <1>4

\* What a request may do.
Asks ==
  /\ UNCHANGED <<required, live, abandoned, work, pc, timers, gaveUp, started, respawned,
                 crashes, failures>>
  /\ requests' \in Nat /\ creds' \in {0} \union Values /\ (creds' = creds \/ creds' # 0)
  /\ registry' \in Gatings \union {None} /\ saved' \in Ages
  /\ queue' = queue \/ \E j \in Fresh : queue' = Append(queue, j)
  /\ running' \in Entries \union {NoEntry} /\ (running' = NoEntry <=> running = NoEntry)
  /\ running'.child = running.child /\ running'.creds = running.creds
  /\ running'.attempts = running.attempts

LEMMA RequestAsks == ASSUME LifecycleAssumption, LifeTypes, Request PROVE Asks
<1>1. Handled => UNCHANGED <<required, live, abandoned, work, pc, timers, gaveUp, started,
                             respawned, crashes, failures>>
  BY DEF Handled
<1>2. Asked => requests' \in Nat
  BY DEF Asked, LifeTypes
<1>3. /\ creds \in {0} \union Values /\ registry \in Gatings \union {None} /\ saved \in Ages
      /\ running \in Entries \union {NoEntry}
      /\ \A v \in Values : v # 0
  BY DEF LifeTypes, LifecycleAssumption
<1>4. CASE Add
  <2>1. PICK gating \in Gatings, age \in Ages :
          /\ registry' = gating /\ saved' = age
          /\ queue' = Append(queue, Job("add", gating, 0, age)) \/ queue' = queue
    BY <1>4 DEF Add, Enqueue
  <2>2. Job("add", gating, 0, age) \in Fresh
    BY JobsAreFit
  <2>3. queue' = queue \/ \E j \in Fresh : queue' = Append(queue, j)
    BY <2>1, <2>2
  <2>4. Handled /\ Asked /\ UNCHANGED <<creds, running>>
    BY <1>4 DEF Add
  <2>5. QED BY <1>1, <1>2, <1>3, <2>1, <2>3, <2>4 DEF Asks
<1>5. CASE Restore
  <2>1. Job("restore", "manifest", 0, saved) \in Fresh
    BY <1>3, JobsAreFit
  <2>2. queue' = queue \/ \E j \in Fresh : queue' = Append(queue, j)
    BY <1>5, <2>1 DEF Restore, Enqueue
  <2>3. Handled /\ Asked /\ UNCHANGED <<creds, registry, saved, running>>
    BY <1>5 DEF Restore
  <2>4. QED BY <1>1, <1>2, <1>3, <2>2, <2>3 DEF Asks
<1>6. CASE Service
  <2>1. Job("service", "manifest", 0, saved) \in Fresh
        /\ Job("restart", "manifest", 0, saved) \in Fresh
    BY <1>3, JobsAreFit
  <2>2. queue' = queue \/ \E j \in Fresh : queue' = Append(queue, j)
    BY <1>6, <2>1 DEF Service, Enqueue
  <2>3. Handled /\ Asked /\ UNCHANGED <<registry, saved, running>> /\ creds' \in Values
    BY <1>6 DEF Service
  <2>4. QED BY <1>1, <1>2, <1>3, <2>2, <2>3 DEF Asks
<1>7. CASE RemoveIt \/ StopAll
  <2>1. Job("remove", None, 0, NoAge) \in Fresh /\ Job("halt", None, 0, NoAge) \in Fresh
    BY JobsAreFit DEF Stops
  <2>2. queue' = queue \/ \E j \in Fresh : queue' = Append(queue, j)
    BY <1>7, <2>1 DEF RemoveIt, StopAll, Enqueue
  <2>3. Handled /\ Asked /\ UNCHANGED <<creds, registry, saved, running>>
    BY <1>7 DEF RemoveIt, StopAll
  <2>4. QED BY <1>1, <1>2, <1>3, <2>2, <2>3 DEF Asks
<1>8. CASE SetPolicy
  <2>1. Handled /\ Asked /\ UNCHANGED <<creds, registry, queue>> /\ saved' \in Ages
    BY <1>8 DEF SetPolicy
  <2>2. PICK age \in Ages : running' = IF running = NoEntry THEN running
                                       ELSE [running EXCEPT !.age = age]
    BY <1>8 DEF SetPolicy
  <2>3. CASE running = NoEntry
    BY <1>1, <1>2, <1>3, <2>1, <2>2, <2>3 DEF Asks
  <2>4. CASE running # NoEntry
    <3>1. running \in Entries /\ running' = [running EXCEPT !.age = age]
      BY <1>3, <2>2, <2>4
    <3>2. /\ running' \in Entries /\ running'.child = running.child
          /\ running'.creds = running.creds /\ running'.attempts = running.attempts
      BY <3>1 DEF Entries
    <3>3. running' # NoEntry
      BY <3>2, JobsAreFit
    <3>4. QED BY <1>1, <1>2, <1>3, <2>1, <2>4, <3>2, <3>3 DEF Asks
  <2>5. QED BY <2>3, <2>4
<1>9. QED BY <1>4, <1>5, <1>6, <1>7, <1>8 DEF Request

LEMMA AskedSoundly ==
  ASSUME LifecycleAssumption, LifeTypes, ChildrenAreSound, RespawnsAreBounded, Asks
  PROVE  LifeTypes' /\ ChildrenAreSound' /\ RespawnsAreBounded'
<1>1. queue' \in Seq(Fit) /\ QueueSum(queue') = QueueSum(queue)
  <2>1. CASE queue' = queue
    BY <2>1 DEF LifeTypes
  <2>2. ASSUME NEW j \in Fresh, queue' = Append(queue, j)
        PROVE  queue' \in Seq(Fit) /\ QueueSum(queue') = QueueSum(queue)
    <3>1. queue \in Seq(Fit) /\ j \in Fit /\ OfJob(j) = 0
      BY JobSpends DEF LifeTypes, Fresh
    <3>2. Append(queue, j) \in Seq(Fit) /\ QueueSum(Append(queue, j)) = QueueSum(queue) + OfJob(j)
      BY <3>1, QueueSumAppends
    <3>3. QueueSum(queue) \in Int
      BY <3>1, QueueIsSummed
    <3> HIDE DEF QueueSum
    <3>4. QED BY <2>2, <3>1, <3>2, <3>3
  <2>3. QED BY <2>1, <2>2 DEF Asks
<1>2. LifeTypes'
  BY <1>1 DEF LifeTypes, Asks
<1>3. ChildrenAreSound'
  BY DEF ChildrenAreSound, OneChild, Asks
<1>4. /\ OfTimers' = OfTimers /\ OfQueue' = OfQueue /\ OfJob(work)' = OfJob(work)
      /\ OfRunning' = OfRunning /\ started' = started /\ respawned' = respawned
  <2>1. OfQueue' = QueueSum(queue') /\ OfQueue = QueueSum(queue)
    BY DEF OfQueue, QueueSum
  <2>2. OfTimers' = OfTimers
    BY DEF OfTimers, Asks
  <2>3. OfRunning' = OfRunning /\ OfJob(work)' = OfJob(work)
    BY DEF OfRunning, Left, OfJob, Asks
  <2>4. QED BY <1>1, <2>1, <2>2, <2>3 DEF Asks
<1>5. RespawnsAreBounded'
  BY <1>4 DEF RespawnsAreBounded
<1>6. QED BY <1>2, <1>3, <1>5

LEMMA AskedForCredentials ==
  ASSUME LifecycleAssumption, LifeTypes, ChildrenAreSound, CredentialsFollow, Request
  PROVE  CredentialsFollow'
<1>1. Asks
  BY RequestAsks
<1>2. Sent => Sent'
  <2>1. CASE queue' = queue
    BY <2>1 DEF Sent
  <2>2. ASSUME NEW j \in Fresh, queue' = Append(queue, j) PROVE Sent => Sent'
    BY <2>2, SentAppends DEF LifeTypes, Fresh
  <2>3. QED BY <1>1, <2>1, <2>2 DEF Asks
<1>3. (creds' = 0 => creds = 0) /\ UNCHANGED <<work, pc>>
      /\ (running' = NoEntry <=> running = NoEntry) /\ running'.creds = running.creds
  BY <1>1 DEF Asks
<1>4. /\ creds' = 0 /\ running' # NoEntry => running'.creds = 0
      /\ creds' = 0 /\ pc' \in {"connecting", "listing"} => work'.creds = 0
  BY <1>3 DEF CredentialsFollow
<1>5. CASE UNCHANGED <<creds, registry>>
  BY <1>2, <1>3, <1>4, <1>5 DEF CredentialsFollow
<1>6. CASE Add
  <2>1. PICK gating \in Gatings, age \in Ages :
          IF Resolvable(creds) THEN Enqueue(Job("add", gating, 0, age)) ELSE UNCHANGED queue
    BY <1>6 DEF Add
  <2>2. UNCHANGED creds
    BY <1>6 DEF Add
  <2>3. CASE Resolvable(creds)
    <3>1. /\ queue' = Append(queue, Job("add", gating, 0, age))
          /\ Job("add", gating, 0, age) \in Fit /\ Job("add", gating, 0, age).by = "add"
      BY <2>1, <2>3, JobsAreFit DEF Enqueue, Fresh, Job
    <3>2. Sent'
      BY <3>1, SentAppends DEF LifeTypes
    <3>3. QED BY <1>4, <3>2 DEF CredentialsFollow
  <2>4. CASE ~Resolvable(creds)
    <3>1. creds = 0
      BY <2>4 DEF Resolvable
    <3>2. QED BY <1>4, <2>2, <3>1 DEF CredentialsFollow
  <2>5. QED BY <2>3, <2>4
<1>7. CASE Service
  <2>1. PICK value \in Values :
          /\ creds' = value
          /\ IF registry = None THEN UNCHANGED queue
             ELSE IF running = NoEntry THEN Enqueue(Job("service", "manifest", 0, saved))
             ELSE IF Changed(running, value) THEN Enqueue(Job("restart", "manifest", 0, saved))
             ELSE UNCHANGED queue
    BY <1>7 DEF Service
  <2>2. UNCHANGED registry
    BY <1>7 DEF Service
  <2>3. CASE registry = None
    BY <1>4, <2>2, <2>3 DEF CredentialsFollow
  <2>4. ASSUME NEW by \in {"service", "restart"}, Enqueue(Job(by, "manifest", 0, saved))
        PROVE  CredentialsFollow'
    <3>1. /\ queue' = Append(queue, Job(by, "manifest", 0, saved))
          /\ Job(by, "manifest", 0, saved) \in Fit /\ Job(by, "manifest", 0, saved).by = by
      BY <2>4, JobsAreFit DEF Enqueue, Fresh, Job, LifeTypes
    <3>2. Sent'
      BY <3>1, SentAppends DEF LifeTypes
    <3>3. QED BY <1>4, <3>2 DEF CredentialsFollow
  <2>5. CASE registry # None /\ running # NoEntry /\ ~Changed(running, value)
    <3>1. running'.creds = creds' /\ pc' \notin {"connecting", "listing"}
      BY <1>3, <2>1, <2>5 DEF Changed, ChildrenAreSound, OneChild
    <3>2. QED BY <1>4, <3>1 DEF CredentialsFollow
  <2>6. QED BY <2>1, <2>3, <2>4, <2>5
<1>8. CASE Restore \/ RemoveIt \/ StopAll \/ SetPolicy
  BY <1>5, <1>8 DEF Restore, RemoveIt, StopAll, SetPolicy
<1>9. QED BY <1>6, <1>7, <1>8 DEF Request

-----------------------------------------------------------------------------
(* How a job ends.                                                          *)

\* A crash is answered by a timer or by giving up.
LEMMA CrashHandled ==
  ASSUME LifecycleAssumption, timers \in Seq(Timers), NEW attempts \in 0 .. MaxRespawns,
         NEW config, config.gating \in Gatings, config.age \in Ages,
         HandleCrash(attempts, config)
  PROVE  /\ timers' \in Seq(Timers) /\ gaveUp' \in BOOLEAN
         /\ TimerSum(timers') <= TimerSum(timers) + Left(attempts)
<1>6. MaxRespawns \in Nat /\ Left(attempts) \in Nat
  BY DEF LifecycleAssumption, Left
<1>7. TimerSum(timers) \in Int
  BY TimersAreSummed
<1>1. MaxRespawns \in Nat /\ Left(attempts) \in Nat /\ TimerSum(timers) \in Int
  BY <1>6, <1>7
<1>2. gaveUp' = (attempts >= MaxRespawns)
  BY DEF HandleCrash
<1>3. CASE attempts >= MaxRespawns
  <2>1. timers' = timers
    BY <1>2, <1>3 DEF HandleCrash
  <2>2. gaveUp' \in BOOLEAN
    BY <1>2
  <2> HIDE DEF TimerSum, Left
  <2>3. QED BY <1>1, <2>1, <2>2
<1>4. CASE ~(attempts >= MaxRespawns)
  <2> DEFINE e == Timer(attempts, config)
  <2>1. attempts \in 0 .. MaxRespawns - 1
    BY <1>1, <1>4
  <2>2. e \in Timers /\ e.attempts = attempts
    BY <2>1 DEF Timer, Timers
  <2>3. timers' = Append(timers, e)
    BY <1>2, <1>4 DEF HandleCrash
  <2> HIDE DEF e
  <2>4. timers' \in Seq(Timers) /\ TimerSum(timers') = TimerSum(timers) + Left(attempts)
    BY <2>2, <2>3, TimerSumAppends
  <2>5. gaveUp' \in BOOLEAN
    BY <1>2
  <2> HIDE DEF TimerSum, Left
  <2>6. QED BY <1>1, <2>4, <2>5
<1>5. QED BY <1>3, <1>4

\* What an entry may still spend.
Spends(entry) == IF entry = NoEntry THEN 0 ELSE Left(entry.attempts)

\* A job settles: the types, and what may be spent from then on.
LEMMA Settles ==
  ASSUME LifecycleAssumption, LifeTypes, LifeFlags, NEW job \in Fit,
         NEW entry \in Entries \union {NoEntry}, NEW ok \in BOOLEAN, NEW rest \in Seq(Fit),
         Settle(job, entry, ok, rest)
  PROVE  /\ running' \in Entries \union {NoEntry} /\ (running' = NoEntry <=> entry = NoEntry)
         /\ running'.child = entry.child /\ running'.creds = entry.creds
         /\ queue' \in Seq(Fit) /\ registry' \in {registry, None} /\ timers' \in Seq(Timers)
         /\ gaveUp' \in BOOLEAN
         /\ QueueSum(queue') = QueueSum(rest) /\ OfJob(work') = 0
         /\ Spends(running') = IF job.by = "respawn" /\ entry # NoEntry
                               THEN OfJob(job) ELSE Spends(entry)
         /\ TimerSum(timers') <=
              TimerSum(timers) + (IF job.by = "respawn" /\ ~ok THEN OfJob(job) ELSE 0)
<1>1. MaxRespawns \in Nat /\ job.attempts \in 0 .. MaxRespawns - 1
      /\ job.attempts + 1 \in 0 .. MaxRespawns
  BY DEF LifecycleAssumption, Fit, Jobs
<1>2. job.by \notin Stops => job.gating \in Gatings /\ job.age \in Ages
  BY DEF Fit
<1>3. "respawn" \notin Stops /\ "service" \notin Stops
  BY DEF Stops
<1>4. /\ running' \in Entries \union {NoEntry} /\ (running' = NoEntry <=> entry = NoEntry)
      /\ running'.child = entry.child /\ running'.creds = entry.creds
      /\ Spends(running') = IF job.by = "respawn" /\ entry # NoEntry
                            THEN OfJob(job) ELSE Spends(entry)
  <2>1. running' = Stamped(job, entry)
    BY DEF Settle
  <2>2. CASE job.by = "respawn" /\ entry # NoEntry
    <3>1. entry \in Entries /\ running' = [entry EXCEPT !.attempts = job.attempts + 1]
      BY <2>1, <2>2 DEF Stamped
    <3>2. /\ running' \in Entries /\ running'.attempts = job.attempts + 1
          /\ running'.child = entry.child /\ running'.creds = entry.creds
      BY <1>1, <3>1 DEF Entries
    <3>3. running' # NoEntry
      BY <3>2, JobsAreFit
    <3>4. QED BY <2>2, <3>2, <3>3 DEF Spends, OfJob
  <2>3. CASE ~(job.by = "respawn" /\ entry # NoEntry)
    <3>1. running' = entry
      BY <2>1, <2>3 DEF Stamped
    <3>2. QED BY <2>3, <3>1
  <2>4. QED BY <2>2, <2>3
<1>5. queue' \in Seq(Fit) /\ QueueSum(queue') = QueueSum(rest)
  <2>1. CASE job.by = "service" /\ Changed(entry, creds)
    <3> DEFINE j == Job("restart", "manifest", 0, job.age)
    <3>1. j \in Fresh
      BY <1>2, <1>3, <2>1, JobsAreFit
    <3>2. j \in Fit /\ OfJob(j) = 0
      BY <3>1, JobSpends DEF Fresh
    <3>3. queue' = Append(rest, j)
      BY <2>1 DEF Settle
    <3> HIDE DEF j
    <3>4. queue' \in Seq(Fit) /\ QueueSum(queue') = QueueSum(rest) + OfJob(j)
      BY <3>2, <3>3, QueueSumAppends
    <3>5. QueueSum(rest) \in Int
      BY QueueIsSummed
    <3>6. QED BY <3>2, <3>4, <3>5
  <2>2. CASE ~(job.by = "service" /\ Changed(entry, creds))
    <3>1. queue' = rest
      BY <2>2 DEF Settle
    <3>2. QED BY <3>1
  <2>3. QED BY <2>1, <2>2
<1>6. /\ timers' \in Seq(Timers) /\ gaveUp' \in BOOLEAN
      /\ TimerSum(timers') <=
           TimerSum(timers) + (IF job.by = "respawn" /\ ~ok THEN OfJob(job) ELSE 0)
  <2>1. timers \in Seq(Timers) /\ TimerSum(timers) \in Int
    BY TimersAreSummed DEF LifeTypes
  <2>2. CASE job.by = "respawn" /\ ~ok
    <3>1. HandleCrash(job.attempts + 1, job)
      BY <2>2 DEF Settle
    <3>2. /\ timers' \in Seq(Timers) /\ gaveUp' \in BOOLEAN
          /\ TimerSum(timers') <= TimerSum(timers) + Left(job.attempts + 1)
      BY <1>1, <1>2, <1>3, <2>1, <2>2, <3>1, CrashHandled
    <3>3. OfJob(job) = Left(job.attempts + 1)
      BY <2>2 DEF OfJob
    <3>4. QED BY <2>2, <3>2, <3>3
  <2>3. CASE ~(job.by = "respawn" /\ ~ok)
    <3>1. UNCHANGED timers /\ UNCHANGED gaveUp
      BY <2>3 DEF Settle, Crashless
    <3>2. gaveUp' \in BOOLEAN
      BY <3>1, Zenon DEF LifeFlags
    <3>3. QED BY <2>1, <2>3, <3>1, <3>2
  <2>4. QED BY <2>2, <2>3
<1>7. registry' \in {registry, None} /\ OfJob(work') = 0
  BY JobSpends DEF Settle
<1>8. QED BY <1>4, <1>5, <1>6, <1>7

\* ... and the credentials.
LEMMA SettlesCredentials ==
  ASSUME LifecycleAssumption, LifeTypes, LifeFlags, NEW job \in Fit,
         NEW entry \in Entries \union {NoEntry}, NEW ok \in BOOLEAN, NEW rest \in Seq(Fit),
         Settle(job, entry, ok, rest),
         creds = 0 /\ entry # NoEntry => entry.creds = 0,
         registry # None /\ entry # NoEntry /\ entry.creds # creds /\ job.by # "service" =>
            \E n \in DOMAIN rest : rest[n].by \in {"add", "restart", "service"}
  PROVE  CredentialsFollow'
<1>1. /\ (running' = NoEntry <=> entry = NoEntry) /\ running'.creds = entry.creds
      /\ registry' \in {registry, None} /\ pc' = "idle" /\ creds' = creds
  BY Settles DEF Settle
<1>2. ASSUME registry # None, entry # NoEntry, entry.creds # creds PROVE Sent'
  <2>1. CASE job.by = "service"
    <3> DEFINE j == Job("restart", "manifest", 0, job.age)
    <3>1. queue' = Append(rest, j)
      BY <1>2, <2>1 DEF Settle, Changed
    <3>2. j.by = "restart"
      BY DEF Job
    <3> HIDE DEF j
    <3>3. Len(rest) + 1 \in DOMAIN queue' /\ queue'[Len(rest) + 1] = j
      BY <3>1
    <3>4. QED BY <3>2, <3>3 DEF Sent
  <2>2. CASE job.by # "service"
    <3>1. queue' = rest
      BY <2>2 DEF Settle
    <3>2. QED BY <1>2, <2>2, <3>1 DEF Sent
  <2>3. QED BY <2>1, <2>2
<1>3. QED BY <1>1, <1>2 DEF CredentialsFollow

\* The respawns still to come, and what they are bought with.
Budget == respawned + TimerSum(timers) + QueueSum(queue) + OfJob(work) + Spends(running)

LEMMA BudgetIs ==
  /\ RespawnsAreBounded <=> Budget <= MaxRespawns * started
  /\ RespawnsAreBounded' <=> Budget' <= MaxRespawns * started'
BY DEF RespawnsAreBounded, Budget, OfTimers, OfQueue, OfRunning, TimerSum, QueueSum,
    Spends

LEMMA BudgetTypes ==
  ASSUME LifecycleAssumption, NEW t \in Seq(Timers), NEW q \in Seq(Fit),
         NEW j \in Fit \union {NoJob}, NEW entry \in Entries \union {NoEntry}
  PROVE  /\ TimerSum(t) \in Int /\ QueueSum(q) \in Int
         /\ OfJob(j) \in Nat /\ Spends(entry) \in Nat
<1>1. TimerSum(t) \in Int
  BY TimersAreSummed
<1>2. QueueSum(q) \in Int
  BY QueueIsSummed
<1>3. OfJob(j) \in Nat
  <2>1. CASE j \in Fit
    BY <2>1, JobSpends
  <2>2. CASE j = NoJob
    BY <2>2, JobSpends
  <2>3. QED BY <2>1, <2>2
<1>4. Spends(entry) \in Nat
  <2>1. CASE entry = NoEntry
    BY <2>1 DEF Spends
  <2>2. CASE entry # NoEntry
    BY <2>2, JobSpends DEF Spends
  <2>3. QED BY <2>1, <2>2
<1>5. QED BY <1>1, <1>2, <1>3, <1>4

LEMMA BudgetHolds ==
  ASSUME LifecycleAssumption, LifeTypes, LifeTypes', RespawnsAreBounded,
         \/ started' = started /\ Budget' <= Budget
         \/ started' = started + 1 /\ Budget' <= Budget + MaxRespawns
  PROVE  RespawnsAreBounded'
<1>1. /\ started \in Nat /\ respawned \in Nat /\ respawned' \in Nat /\ MaxRespawns \in Nat
      /\ timers \in Seq(Timers) /\ queue \in Seq(Fit) /\ work \in Fit \union {NoJob}
      /\ running \in Entries \union {NoEntry}
      /\ timers' \in Seq(Timers) /\ queue' \in Seq(Fit) /\ work' \in Fit \union {NoJob}
      /\ running' \in Entries \union {NoEntry}
  BY DEF LifeTypes, LifecycleAssumption
<1>2. /\ TimerSum(timers) \in Int /\ QueueSum(queue) \in Int
      /\ OfJob(work) \in Nat /\ Spends(running) \in Nat
      /\ TimerSum(timers') \in Int /\ QueueSum(queue') \in Int
      /\ OfJob(work') \in Nat /\ Spends(running') \in Nat
  BY <1>1, BudgetTypes
<1>3. Budget \in Int
  BY <1>1, <1>2 DEF Budget
<1>4. Budget' = respawned' + TimerSum(timers') + QueueSum(queue') + OfJob(work') + Spends(running')
  BY DEF Budget, TimerSum, QueueSum, OfJob, Left, Spends
<1>5. Budget' \in Int
  BY <1>1, <1>2, <1>4
<1> DEFINE m == MaxRespawns * started
<1>6. m \in Nat /\ MaxRespawns * (started + 1) = m + MaxRespawns
  BY <1>1
<1>7. Budget <= m
  BY BudgetIs
<1>8. Budget' <= MaxRespawns * started'
  <2>1. CASE started' = started /\ Budget' <= Budget
    <3>1. MaxRespawns * started' = m
      BY <2>1
    <3> HIDE DEF m
    <3>2. QED BY <1>3, <1>5, <1>6, <1>7, <2>1, <3>1
  <2>2. CASE started' = started + 1 /\ Budget' <= Budget + MaxRespawns
    <3>1. MaxRespawns * started' = m + MaxRespawns
      BY <1>6, <2>2
    <3> HIDE DEF m
    <3>2. QED BY <1>1, <1>3, <1>5, <1>6, <1>7, <2>2, <3>1
  <2>3. QED BY <2>1, <2>2
<1>9. QED BY <1>8, BudgetIs

\* What settling a job makes of the children.
LEMMA SettlesSoundly ==
  ASSUME LifecycleAssumption, LifeTypes, LifeFlags, NEW job \in Fit,
         NEW entry \in Entries \union {NoEntry}, NEW ok \in BOOLEAN, NEW rest \in Seq(Fit),
         Settle(job, entry, ok, rest),
         live' \subseteq Children, abandoned' \subseteq live',
         live' \ abandoned' \subseteq IF entry = NoEntry THEN {} ELSE {entry.child},
         entry # NoEntry => entry.child \in live' \ abandoned',
         started' \in {started, started + 1}, failures' \in Nat
  PROVE  LifeTypes' /\ LifeFlags' /\ ChildrenAreSound'
<1>1. /\ running' \in Entries \union {NoEntry} /\ (running' = NoEntry <=> entry = NoEntry)
      /\ running'.child = entry.child
      /\ queue' \in Seq(Fit) /\ registry' \in {registry, None} /\ timers' \in Seq(Timers)
      /\ gaveUp' \in BOOLEAN
  BY Settles
<1>2. /\ work' = NoJob /\ pc' = "idle"
      /\ UNCHANGED <<creds, saved, respawned, requests, crashes>>
  BY DEF Settle
<1>3. LifeTypes'
  BY <1>1, <1>2 DEF LifeTypes, Phases
<1>4. LifeFlags'
  <2>1. required' \in BOOLEAN /\ halted' \in BOOLEAN
    BY Zenon DEF Settle, LifeFlags
  <2>2. QED BY <1>1, <2>1, Zenon DEF LifeFlags
<1>5. ChildrenAreSound'
  BY <1>1, <1>2 DEF ChildrenAreSound, OneChild
<1>6. QED BY <1>3, <1>4, <1>5

\* ... and of what may be spent: a respawn that has its child, or hands over to
\* the next timer, hands on what was left; any other start brings MaxRespawns.
LEMMA SettlesInBudget ==
  ASSUME LifecycleAssumption, LifeTypes, LifeFlags, LifeTypes', RespawnsAreBounded,
         NEW job \in Fit, NEW entry \in Entries \union {NoEntry}, NEW ok \in BOOLEAN,
         NEW rest \in Seq(Fit), Settle(job, entry, ok, rest),
         QueueSum(rest) + OfJob(job) = QueueSum(queue) + OfJob(work),
         ok \/ entry = NoEntry,
         \/ started' = started /\ (job.by # "respawn" => Spends(entry) <= Spends(running))
         \/ started' = started + 1 /\ job.by # "respawn" /\ Spends(entry) <= MaxRespawns
  PROVE  RespawnsAreBounded'
<1>1. /\ timers \in Seq(Timers) /\ queue \in Seq(Fit) /\ work \in Fit \union {NoJob}
      /\ running \in Entries \union {NoEntry} /\ respawned \in Nat /\ MaxRespawns \in Nat
      /\ timers' \in Seq(Timers) /\ running' \in Entries \union {NoEntry}
  BY DEF LifeTypes, LifecycleAssumption
<1>2. /\ TimerSum(timers) \in Int /\ QueueSum(queue) \in Int /\ QueueSum(rest) \in Int
      /\ OfJob(work) \in Nat /\ OfJob(job) \in Nat
      /\ Spends(running) \in Nat /\ Spends(entry) \in Nat /\ Spends(NoEntry) = 0
      /\ TimerSum(timers') \in Int /\ Spends(running') \in Nat
  <2>1. Spends(NoEntry) = 0
    BY DEF Spends
  <2>2. QED BY <1>1, <2>1, BudgetTypes
<1>3. /\ QueueSum(queue') = QueueSum(rest) /\ OfJob(work') = 0
      /\ Spends(running') = IF job.by = "respawn" /\ entry # NoEntry
                            THEN OfJob(job) ELSE Spends(entry)
      /\ TimerSum(timers') <=
           TimerSum(timers) + (IF job.by = "respawn" /\ ~ok THEN OfJob(job) ELSE 0)
  BY Settles
<1>4. Budget' = respawned' + TimerSum(timers') + QueueSum(queue') + OfJob(work') + Spends(running')
  BY DEF Budget, TimerSum, QueueSum, OfJob, Left, Spends
<1>5. respawned' = respawned
  BY DEF Settle
<1>6. Budget' = respawned + TimerSum(timers') + QueueSum(rest) + Spends(running')
  BY <1>1, <1>2, <1>3, <1>4, <1>5
<1>7. /\ Budget = respawned + TimerSum(timers) + QueueSum(queue) + OfJob(work) + Spends(running)
      /\ QueueSum(rest) + OfJob(job) = QueueSum(queue) + OfJob(work)
  BY DEF Budget
<1>11. ASSUME NEW d \in Int,
              TimerSum(timers') + Spends(running') <= TimerSum(timers) + Spends(running) + OfJob(job) + d
       PROVE  Budget' <= Budget + d
  <2> HIDE DEF TimerSum, QueueSum, OfJob, Spends, Budget
  <2>1. /\ Budget = respawned + TimerSum(timers) + QueueSum(queue) + OfJob(work) + Spends(running)
        /\ Budget' = respawned + TimerSum(timers') + QueueSum(rest) + Spends(running')
        /\ QueueSum(rest) + OfJob(job) = QueueSum(queue) + OfJob(work)
    BY <1>6, <1>7
  <2>2. respawned \in Int /\ OfJob(work) \in Int /\ OfJob(job) \in Int
        /\ Spends(running) \in Int /\ Spends(running') \in Int
    BY <1>1, <1>2
  <2>4. /\ TimerSum(timers) \in Int /\ TimerSum(timers') \in Int
        /\ QueueSum(queue) \in Int /\ QueueSum(rest) \in Int
    BY <1>2
  <2> DEFINE p == respawned
             t == TimerSum(timers)
             u == TimerSum(timers')
             q == QueueSum(queue)
             r == QueueSum(rest)
             w == OfJob(work)
             j == OfJob(job)
             x == Spends(running)
             y == Spends(running')
             b == Budget
             c == Budget'
  <2>5. /\ p \in Int /\ t \in Int /\ u \in Int /\ q \in Int /\ r \in Int /\ w \in Int
        /\ j \in Int /\ x \in Int /\ y \in Int
        /\ b = p + t + q + w + x /\ c = p + u + r + y /\ r + j = q + w /\ u + y <= t + x + j + d
    BY <1>11, <2>1, <2>2, <2>4
  <2> HIDE DEF p, t, u, q, r, w, j, x, y, b, c
  <2>6. c <= b + d
    BY <2>5
  <2>7. QED BY <2>6 DEF b, c
<1>12. Budget \in Int
  BY <1>1, <1>2, <1>7
<1>13. Budget' \in Int
  BY <1>1, <1>2, <1>6
<1>8. CASE job.by = "respawn"
  <2>1. TimerSum(timers') + Spends(running') <= TimerSum(timers) + Spends(running) + OfJob(job) + 0
    <3> HIDE DEF TimerSum, OfJob, Spends
    <3>1. CASE entry # NoEntry
      BY <1>2, <1>3, <1>8, <3>1
    <3>2. CASE entry = NoEntry
      BY <1>2, <1>3, <1>8, <3>2
    <3>3. QED BY <3>1, <3>2
  <2>2. Budget' <= Budget
    BY <1>11, <1>12, <1>13, <2>1
  <2>3. QED BY <1>8, <2>2, BudgetHolds
<1>10. CASE job.by # "respawn"
  <2>1. TimerSum(timers') <= TimerSum(timers) /\ Spends(running') = Spends(entry) /\ OfJob(job) = 0
    BY <1>2, <1>3, <1>10, JobSpends
  <2>2. CASE started' = started /\ Spends(entry) <= Spends(running)
    <3>1. TimerSum(timers') + Spends(running') <= TimerSum(timers) + Spends(running) + OfJob(job) + 0
      BY <1>2, <2>1, <2>2
    <3>2. Budget' <= Budget
      BY <1>11, <1>12, <1>13, <3>1
    <3>3. QED BY <2>2, <3>2, BudgetHolds
  <2>3. CASE started' = started + 1 /\ Spends(entry) <= MaxRespawns
    <3>1. /\ MaxRespawns \in Int
          /\ TimerSum(timers') + Spends(running')
               <= TimerSum(timers) + Spends(running) + OfJob(job) + MaxRespawns
      BY <1>1, <1>2, <2>1, <2>3
    <3>2. Budget' <= Budget + MaxRespawns
      BY <1>11, <3>1
    <3>3. QED BY <2>3, <3>2, BudgetHolds
  <2>4. QED BY <1>10, <2>2, <2>3
<1>14. QED BY <1>8, <1>10

-----------------------------------------------------------------------------
(* The steps of a job.                                                      *)

\* What a step that settles nothing and starts nothing leaves alone.
LEMMA NothingSpent ==
  ASSUME LifecycleAssumption, LifeTypes, LifeTypes', RespawnsAreBounded,
         UNCHANGED <<started, respawned, timers>>,
         QueueSum(queue') + OfJob(work') = QueueSum(queue) + OfJob(work),
         Spends(running') <= Spends(running)
  PROVE  RespawnsAreBounded'
<1>1. /\ timers \in Seq(Timers) /\ queue \in Seq(Fit) /\ work \in Fit \union {NoJob}
      /\ running \in Entries \union {NoEntry} /\ respawned \in Nat
      /\ queue' \in Seq(Fit) /\ work' \in Fit \union {NoJob}
      /\ running' \in Entries \union {NoEntry}
  BY DEF LifeTypes
<1>2. /\ TimerSum(timers) \in Int /\ QueueSum(queue) \in Int /\ QueueSum(queue') \in Int
      /\ OfJob(work) \in Nat /\ OfJob(work') \in Nat
      /\ Spends(running) \in Nat /\ Spends(running') \in Nat
  BY <1>1, BudgetTypes
<1>3. Budget' = respawned + TimerSum(timers) + QueueSum(queue') + OfJob(work') + Spends(running')
  BY DEF Budget, TimerSum, QueueSum, OfJob, Left, Spends
<1>4. Budget = respawned + TimerSum(timers) + QueueSum(queue) + OfJob(work) + Spends(running)
  BY DEF Budget
<1>5. Budget' <= Budget
  <2> DEFINE b == Budget
             c == Budget'
             t == TimerSum(timers)
             q == QueueSum(queue)
             r == QueueSum(queue')
             w == OfJob(work)
             v == OfJob(work')
             x == Spends(running)
             y == Spends(running')
  <2>1. /\ respawned \in Int /\ t \in Int /\ q \in Int /\ r \in Int /\ w \in Int /\ v \in Int
        /\ x \in Int /\ y \in Int /\ r + v = q + w /\ y <= x
        /\ b = respawned + t + q + w + x /\ c = respawned + t + r + v + y
    BY <1>1, <1>2, <1>3, <1>4
  <2> HIDE DEF b, c, t, q, r, w, v, x, y
  <2>2. c <= b
    BY <2>1
  <2>3. QED BY <2>2 DEF b, c
<1>6. QED BY <1>5, BudgetHolds

LEMMA Begins == ASSUME LifecycleAssumption, LifeInv, Begin PROVE LifeInv'
<1> USE DEF LifeInv
<1>1. /\ pc = "idle" /\ queue # <<>> /\ work = NoJob /\ queue \in Seq(Fit)
      /\ work' = Head(queue) /\ queue' = Tail(queue)
      /\ pc' = IF running = NoEntry THEN "installing" ELSE "closing"
      /\ (running = NoEntry => Head(queue).by \notin Stops)
      /\ UNCHANGED <<process, failures, required, creds, registry, saved, timers, gaveUp, halted,
                     started, respawned, requests, crashes>>
  BY DEF Begin, Goes, Idles, LifeTypes
<1>2. /\ Tail(queue) \in Seq(Fit) /\ Head(queue) \in Fit
      /\ QueueSum(Tail(queue)) = QueueSum(queue) - OfJob(Head(queue))
  BY <1>1, QueueSumTail
<1>3. LifeTypes'
  <2>1. work' # NoJob /\ pc' # "idle" /\ pc' \in Phases
    BY <1>1, <1>2, JobsAreFit DEF Phases
  <2>2. QED BY <1>1, <1>2, <2>1 DEF LifeTypes, process
<1>4. LifeFlags'
  BY <1>1, Zenon DEF LifeFlags
<1>5. ChildrenAreSound' /\ CredentialsFollow'
  BY <1>1 DEF ChildrenAreSound, OneChild, CredentialsFollow, process
<1>6. RespawnsAreBounded'
  <2>1. QueueSum(queue) \in Int /\ OfJob(Head(queue)) \in Nat /\ OfJob(work) = 0
    BY <1>1, <1>2, QueueIsSummed, JobSpends
  <2>2. QueueSum(queue') + OfJob(work') = QueueSum(queue) + OfJob(work)
    <3> HIDE DEF QueueSum, OfJob
    <3>1. QED BY <1>1, <1>2, <2>1
  <2>3. running \in Entries \union {NoEntry} /\ running' = running
    BY <1>1 DEF LifeTypes, process
  <2>4. Spends(running) \in Nat
    BY <1>1, <2>3, BudgetTypes DEF LifeTypes
  <2>5. Spends(running') <= Spends(running)
    BY <2>3, <2>4
  <2>6. QED BY <1>1, <1>3, <2>2, <2>5, NothingSpent
<1>7. QED BY <1>3, <1>4, <1>5, <1>6

LEMMA HasNothingToDo == ASSUME LifecycleAssumption, LifeInv, NothingToDo PROVE LifeInv'
<1> USE DEF LifeInv
<1> DEFINE job == Head(queue)
           rest == Tail(queue)
<1>1. /\ pc = "idle" /\ queue # <<>> /\ work = NoJob /\ queue \in Seq(Fit)
      /\ running \in Entries \union {NoEntry}
      /\ Settle(job, running, TRUE, rest) /\ Idles(job)
      /\ UNCHANGED <<live, abandoned, started, failures>>
  BY DEF NothingToDo, LifeTypes
<1>2. /\ rest \in Seq(Fit) /\ job \in Fit /\ QueueSum(rest) = QueueSum(queue) - OfJob(job)
  BY <1>1, QueueSumTail
<1>3. /\ DOMAIN queue = 1 .. Len(queue) /\ DOMAIN rest = 1 .. Len(queue) - 1 /\ Len(queue) \in Nat
      /\ \A n \in DOMAIN rest : rest[n] = queue[n + 1]
      /\ job = queue[1]
  BY <1>1
<1> HIDE DEF job, rest
<1>4. LifeTypes' /\ LifeFlags' /\ ChildrenAreSound'
  <2>1. /\ live' \subseteq Children /\ abandoned' \subseteq live'
        /\ live' \ abandoned' \subseteq IF running = NoEntry THEN {} ELSE {running.child}
        /\ running # NoEntry => running.child \in live' \ abandoned'
        /\ started' \in {started, started + 1} /\ failures' \in Nat
    BY <1>1 DEF ChildrenAreSound, OneChild, LifeTypes
  <2>2. TRUE \in BOOLEAN
    OBVIOUS
  <2>3. QED BY <1>1, <1>2, <2>1, <2>2, SettlesSoundly
<1>5. CredentialsFollow'
  <2>1. creds = 0 /\ running # NoEntry => running.creds = 0
    BY DEF CredentialsFollow
  <2>2. ASSUME registry # None, running # NoEntry, running.creds # creds, job.by # "service"
        PROVE  \E n \in DOMAIN rest : rest[n].by \in {"add", "restart", "service"}
    <3>1. PICK n \in DOMAIN queue : queue[n].by \in {"add", "restart", "service"}
      BY <1>1, <2>2 DEF CredentialsFollow, Sent
    <3>2. job.by \in Keeps
      BY <1>1, <2>2 DEF Idles
    <3>3. n # 1
      BY <1>3, <2>2, <3>1, <3>2 DEF Keeps
    <3>4. n - 1 \in DOMAIN rest /\ (n - 1) + 1 = n
      BY <1>3, <3>3
    <3>5. rest[n - 1] = queue[n]
      BY <1>3, <3>4
    <3>6. QED BY <3>1, <3>4, <3>5
  <2>3. TRUE \in BOOLEAN
    OBVIOUS
  <2>4. QED BY <1>1, <1>2, <2>1, <2>2, <2>3, SettlesCredentials
<1>6. RespawnsAreBounded'
  <2>1. QueueSum(queue) \in Int /\ OfJob(job) \in Nat /\ OfJob(work) = 0
    BY <1>1, <1>2, QueueIsSummed, JobSpends
  <2>2. QueueSum(rest) + OfJob(job) = QueueSum(queue) + OfJob(work)
    BY <1>2, <2>1
  <2>3. Spends(running) \in Nat
    BY <1>1, BudgetTypes DEF LifeTypes
  <2>4. Spends(running) <= Spends(running) /\ TRUE \in BOOLEAN
    BY <2>3
  <2>5. QED BY <1>1, <1>2, <1>4, <2>2, <2>4, SettlesInBudget
<1>7. QED BY <1>4, <1>5, <1>6

\* A job in one of its phases settles without an entry.
LEMMA SettlesWithout ==
  ASSUME LifecycleAssumption, LifeInv, pc # "idle", NEW ok \in BOOLEAN,
         Settle(work, NoEntry, ok, queue), UNCHANGED started, failures' \in Nat,
         live' \subseteq Children, abandoned' \subseteq live', live' \subseteq abandoned'
  PROVE  LifeInv'
<1> USE DEF LifeInv
<1>1. work \in Fit /\ queue \in Seq(Fit)
  BY DEF LifeTypes
<1>2. live' \ abandoned' \subseteq IF NoEntry = NoEntry THEN {} ELSE {NoEntry.child}
  OBVIOUS
<1>3. LifeTypes' /\ LifeFlags' /\ ChildrenAreSound'
  BY <1>1, <1>2, SettlesSoundly
<1>4. CredentialsFollow'
  BY <1>1, SettlesCredentials
<1>5. RespawnsAreBounded'
  <2>1. Spends(NoEntry) = 0
    BY DEF Spends
  <2>2. Spends(running) \in Nat
    BY <1>1, BudgetTypes DEF LifeTypes
  <2>3. Spends(NoEntry) <= Spends(running)
    BY <2>1, <2>2
  <2>4. QueueSum(queue) + OfJob(work) = QueueSum(queue) + OfJob(work)
    OBVIOUS
  <2>5. QED BY <1>1, <1>3, <2>3, <2>4, SettlesInBudget
<1>6. QED BY <1>3, <1>4, <1>5

LEMMA Closes == ASSUME LifecycleAssumption, LifeInv, Close PROVE LifeInv'
<1> USE DEF LifeInv
<1>1. /\ pc = "closing" /\ live' = live \ {running.child} /\ UNCHANGED <<abandoned, failures>>
      /\ work \in Fit /\ queue \in Seq(Fit) /\ failures \in Nat
  BY DEF Close, LifeTypes
<1>2. /\ live' \subseteq Children /\ abandoned' \subseteq live' /\ live' \subseteq abandoned'
  <2>1. running = NoEntry => running.child \notin live
    BY DEF NoEntry, LifeTypes, LifecycleAssumption
  <2>2. QED BY <1>1, <2>1 DEF ChildrenAreSound, OneChild, LifeTypes
<1>3. CASE work.by \in Stops
  <2>1. Settle(work, NoEntry, TRUE, queue) /\ UNCHANGED started /\ TRUE \in BOOLEAN
    BY <1>3 DEF Close
  <2>2. QED BY <1>1, <1>2, <2>1, SettlesWithout
<1>4. CASE work.by \notin Stops
  <2>1. /\ running' = NoEntry /\ pc' = "installing" /\ UNCHANGED <<work, queue>>
        /\ UNCHANGED <<required, creds, registry, saved, timers, gaveUp, halted,
                       started, respawned, requests, crashes>>
    BY <1>4 DEF Close, Goes
  <2>2. LifeTypes'
    BY <1>1, <1>2, <2>1 DEF LifeTypes, Phases
  <2>3. LifeFlags'
    BY <2>1, Zenon DEF LifeFlags
  <2>4. ChildrenAreSound' /\ CredentialsFollow'
    BY <1>1, <1>2, <1>4, <2>1 DEF ChildrenAreSound, OneChild, CredentialsFollow
  <2>5. RespawnsAreBounded'
    <3>1. Spends(running') = 0
      BY <2>1 DEF Spends
    <3>2. Spends(running) \in Nat
      BY <1>1, BudgetTypes DEF LifeTypes
    <3>3. Spends(running') <= Spends(running)
      BY <3>1, <3>2
    <3>4. QueueSum(queue') + OfJob(work') = QueueSum(queue) + OfJob(work)
      BY <2>1
    <3>5. QED BY <2>1, <2>2, <3>3, <3>4, NothingSpent
  <2>6. QED BY <2>2, <2>3, <2>4, <2>5
<1>5. QED BY <1>3, <1>4

LEMMA Spawns == ASSUME LifecycleAssumption, LifeInv, Spawn PROVE LifeInv'
<1> USE DEF LifeInv
<1> DEFINE child == CHOOSE c \in Children : c \notin live
<1>1. child \in Children /\ child \notin live
  <2>1. \E c \in Children : c \notin live
    BY DEF Spawn, LifeTypes
  <2>2. QED BY <2>1
<1>2. /\ pc = "installing" /\ live' = live \union {child} /\ running = NoEntry
      /\ work' = [work EXCEPT !.creds = creds, !.child = child] /\ pc' = "connecting"
      /\ UNCHANGED <<running, abandoned, queue, failures, required, creds, registry, saved, timers,
                     gaveUp, halted, started, respawned, requests, crashes>>
  BY DEF Spawn, Goes, ChildrenAreSound, OneChild
<1> HIDE DEF child
<1>3. /\ work \in Fit /\ work.by \notin Stops /\ creds \in {0} \union Values
      /\ live \subseteq Children /\ abandoned \subseteq live
  BY <1>2 DEF LifeTypes, ChildrenAreSound
<1>4. /\ work' \in Fit /\ work'.by = work.by /\ work'.attempts = work.attempts
      /\ work'.creds = creds /\ work'.child = child
  BY <1>1, <1>2, <1>3 DEF Fit, Jobs
<1>5. LifeTypes'
  <2>1. work' # NoJob
    BY <1>4, JobsAreFit
  <2>2. QED BY <1>1, <1>2, <1>3, <1>4, <2>1 DEF LifeTypes, Phases
<1>6. LifeFlags'
  BY <1>2, Zenon DEF LifeFlags
<1>7. ChildrenAreSound' /\ CredentialsFollow'
  BY <1>1, <1>2, <1>3, <1>4 DEF ChildrenAreSound, OneChild, CredentialsFollow
<1>8. RespawnsAreBounded'
  <2>1. OfJob(work') = OfJob(work)
    BY <1>4 DEF OfJob
  <2>2. Spends(running) \in Nat
    BY <1>3, BudgetTypes DEF LifeTypes
  <2>3. Spends(running') <= Spends(running)
    BY <1>2, <2>2
  <2>4. QueueSum(queue') + OfJob(work') = QueueSum(queue) + OfJob(work)
    BY <1>2, <2>1
  <2>5. QED BY <1>2, <1>5, <2>3, <2>4, NothingSpent
<1>9. QED BY <1>5, <1>6, <1>7, <1>8

LEMMA Connects == ASSUME LifecycleAssumption, LifeInv, Connect PROVE LifeInv'
<1> USE DEF LifeInv
<1>1. /\ pc = "connecting" /\ pc' = "listing"
      /\ UNCHANGED <<process, work, queue, failures, required, creds, registry, saved, timers,
                     gaveUp, halted, started, respawned, requests, crashes>>
  BY DEF Connect, Goes
<1>2. LifeTypes'
  BY <1>1 DEF LifeTypes, Phases, process
<1>3. LifeFlags'
  BY <1>1, Zenon DEF LifeFlags
<1>4. ChildrenAreSound' /\ CredentialsFollow'
  BY <1>1 DEF ChildrenAreSound, OneChild, CredentialsFollow, Sent, process
<1>5. RespawnsAreBounded'
  BY <1>1 DEF RespawnsAreBounded, OfTimers, OfQueue, OfJob, OfRunning, Left, process
<1>6. QED BY <1>2, <1>3, <1>4, <1>5

LEMMA Lists == ASSUME LifecycleAssumption, LifeInv, List PROVE LifeInv'
<1> USE DEF LifeInv
<1> DEFINE entry == Entry(work.child)
<1>1. /\ pc = "listing" /\ work.child \in live /\ Settle(work, entry, TRUE, queue)
      /\ started' = (IF work.by = "respawn" THEN started ELSE started + 1)
      /\ UNCHANGED <<live, abandoned, failures>>
      /\ running = NoEntry /\ work \in Fit /\ queue \in Seq(Fit) /\ work.by \notin Stops
      /\ TRUE \in BOOLEAN
  BY DEF List, ChildrenAreSound, OneChild, LifeTypes
<1>2. /\ entry \in Entries /\ entry # NoEntry /\ entry.child = work.child
      /\ entry.creds = work.creds /\ entry.attempts = 0
  <2>1. /\ work.child \in Children /\ work.gating \in Gatings /\ work.age \in Ages
        /\ work.creds \in {0} \union Values /\ 0 \in 0 .. MaxRespawns
    BY <1>1 DEF Fit, Jobs, ChildrenAreSound, LifecycleAssumption
  <2>2. /\ entry \in Entries /\ entry.child = work.child
        /\ entry.creds = work.creds /\ entry.attempts = 0
    BY <2>1 DEF Entry, Entries
  <2>3. QED BY <2>2, JobsAreFit
<1> HIDE DEF entry
<1>3. LifeTypes' /\ LifeFlags' /\ ChildrenAreSound'
  <2>1. /\ live' \subseteq Children /\ abandoned' \subseteq live'
        /\ live' \ abandoned' \subseteq IF entry = NoEntry THEN {} ELSE {entry.child}
        /\ entry # NoEntry => entry.child \in live' \ abandoned'
        /\ started' \in {started, started + 1} /\ failures' \in Nat
    BY <1>1, <1>2 DEF ChildrenAreSound, OneChild, LifeTypes
  <2>2. QED BY <1>1, <1>2, <2>1, SettlesSoundly
<1>4. CredentialsFollow'
  <2>1. creds = 0 /\ entry # NoEntry => entry.creds = 0
    BY <1>1, <1>2 DEF CredentialsFollow
  <2>2. registry # None /\ entry # NoEntry /\ entry.creds # creds /\ work.by # "service" =>
          \E n \in DOMAIN queue : queue[n].by \in {"add", "restart", "service"}
    BY <1>1, <1>2 DEF CredentialsFollow, Sent
  <2>3. QED BY <1>1, <1>2, <2>1, <2>2, SettlesCredentials
<1>5. RespawnsAreBounded'
  <2>1. QueueSum(queue) + OfJob(work) = QueueSum(queue) + OfJob(work)
    OBVIOUS
  <2>2. Spends(entry) <= MaxRespawns
    BY <1>2 DEF Spends, Left, LifecycleAssumption
  <2>3. CASE work.by = "respawn"
    BY <1>1, <1>2, <1>3, <2>1, <2>3, SettlesInBudget
  <2>4. CASE work.by # "respawn"
    BY <1>1, <1>2, <1>3, <2>1, <2>2, <2>4, SettlesInBudget
  <2>5. QED BY <2>3, <2>4
<1>6. QED BY <1>3, <1>4, <1>5

LEMMA Fails ==
  ASSUME LifecycleAssumption, LifeInv, InstallFails \/ ConnectFails \/ ListFails
  PROVE  LifeInv'
<1> USE DEF LifeInv
<1>1. /\ Settle(work, NoEntry, FALSE, queue) /\ UNCHANGED started /\ FALSE \in BOOLEAN
      /\ pc \in {"installing", "connecting", "listing"} /\ pc # "idle" /\ running = NoEntry
  BY DEF InstallFails, ConnectFails, ListFails, Fail, ChildrenAreSound, OneChild
<1>2. failures' \in Nat
  BY DEF InstallFails, ConnectFails, ListFails, Failed, LifeTypes
<1>3. /\ live' \subseteq Children /\ abandoned' \subseteq live' /\ live' \subseteq abandoned'
  <2>1. CASE InstallFails
    BY <1>1, <2>1 DEF InstallFails, ChildrenAreSound, OneChild, LifeTypes
  <2>2. CASE ConnectFails
    BY <1>1, <2>2 DEF ConnectFails, ChildrenAreSound, OneChild, LifeTypes
  <2>3. CASE ListFails
    BY <1>1, <2>3 DEF ListFails, ChildrenAreSound, OneChild, LifeTypes
  <2>4. QED BY <2>1, <2>2, <2>3
<1>4. QED BY <1>1, <1>2, <1>3, SettlesWithout

LEMMA Crashes == ASSUME LifecycleAssumption, LifeInv, Crash PROVE LifeInv'
<1> USE DEF LifeInv
<1>1. PICK child \in live :
        /\ live' = live \ {child} /\ abandoned' = abandoned \ {child}
        /\ IF Watched(child)
           THEN running' = NoEntry /\ HandleCrash(running.attempts, running)
           ELSE UNCHANGED running /\ Crashless
  BY DEF Crash
<1>2. /\ UNCHANGED <<required, creds, registry, saved, jobs, halted, started, respawned,
                     requests, failures>>
      /\ crashes' = crashes + 1
  BY DEF Crash
<1>3. UNCHANGED <<queue, work, pc>>
  BY <1>2 DEF jobs
<1>4. CASE Watched(child)
  <2>1. /\ running \in Entries /\ running.child = child /\ pc # "closing"
        /\ running' = NoEntry /\ HandleCrash(running.attempts, running)
    BY <1>1, <1>4 DEF Watched, LifeTypes
  <2>2. /\ running.attempts \in 0 .. MaxRespawns /\ running.gating \in Gatings
        /\ running.age \in Ages /\ timers \in Seq(Timers)
    BY <2>1 DEF Entries, LifeTypes
  <2>3. /\ timers' \in Seq(Timers) /\ gaveUp' \in BOOLEAN
        /\ TimerSum(timers') <= TimerSum(timers) + Left(running.attempts)
    BY <2>1, <2>2, CrashHandled
  <2>4. LifeTypes'
    BY <1>1, <1>2, <1>3, <2>1, <2>3 DEF LifeTypes
  <2>5. LifeFlags'
    <3>1. required' \in BOOLEAN /\ halted' \in BOOLEAN
      BY <1>2, Zenon DEF LifeFlags
    <3>2. QED BY <2>3, <3>1, Zenon DEF LifeFlags
  <2>6. ChildrenAreSound' /\ CredentialsFollow'
    BY <1>1, <1>2, <1>3, <2>1, JobsAreFit
       DEF ChildrenAreSound, OneChild, CredentialsFollow, Sent, LifeTypes
  <2>7. RespawnsAreBounded'
    <3>1. Spends(running') = 0 /\ Spends(running) = Left(running.attempts)
      BY <2>1, JobsAreFit DEF Spends
    <3>2. /\ respawned \in Nat /\ queue \in Seq(Fit) /\ work \in Fit \union {NoJob}
          /\ running \in Entries \union {NoEntry}
      BY DEF LifeTypes
    <3>3. /\ TimerSum(timers) \in Int /\ TimerSum(timers') \in Int /\ QueueSum(queue) \in Int
          /\ OfJob(work) \in Nat /\ Spends(running) \in Nat
      BY <2>2, <2>3, <3>2, BudgetTypes
    <3>4. Budget' = respawned + TimerSum(timers') + QueueSum(queue) + OfJob(work) + Spends(running')
      BY <1>2, <1>3 DEF Budget, TimerSum, QueueSum, OfJob, Left, Spends
    <3>5. Budget = respawned + TimerSum(timers) + QueueSum(queue) + OfJob(work) + Spends(running)
      BY DEF Budget
    <3>6. Budget' <= Budget
      <4> DEFINE t == TimerSum(timers)
                 u == TimerSum(timers')
                 q == QueueSum(queue)
                 w == OfJob(work)
                 x == Spends(running)
                 b == Budget
                 c == Budget'
      <4>1. /\ respawned \in Int /\ t \in Int /\ u \in Int /\ q \in Int /\ w \in Int /\ x \in Int
            /\ u <= t + x /\ b = respawned + t + q + w + x /\ c = respawned + u + q + w + 0
        BY <2>3, <3>1, <3>2, <3>3, <3>4, <3>5
      <4> HIDE DEF t, u, q, w, x, b, c
      <4>2. c <= b
        BY <4>1
      <4>3. QED BY <4>2 DEF b, c
    <3>7. QED BY <1>2, <2>4, <3>6, BudgetHolds
  <2>8. QED BY <2>4, <2>5, <2>6, <2>7
<1>5. CASE ~Watched(child)
  <2>1. UNCHANGED running /\ UNCHANGED timers /\ UNCHANGED gaveUp
    BY <1>1, <1>5 DEF Crashless
  <2>2. LifeTypes'
    BY <1>1, <1>2, <1>3, <2>1 DEF LifeTypes
  <2>3. LifeFlags'
    BY <1>2, <2>1, Zenon DEF LifeFlags
  <2>4. ChildrenAreSound' /\ CredentialsFollow'
    BY <1>1, <1>2, <1>3, <1>5, <2>1
       DEF ChildrenAreSound, OneChild, CredentialsFollow, Sent, LifeTypes, Watched
  <2>5. RespawnsAreBounded'
    BY <1>2, <1>3, <2>1 DEF RespawnsAreBounded, OfTimers, OfQueue, OfJob, OfRunning,
        Left
  <2>6. QED BY <2>2, <2>3, <2>4, <2>5
<1>6. QED BY <1>4, <1>5

LEMMA Respawns == ASSUME LifecycleAssumption, LifeInv, Respawn PROVE LifeInv'
<1> USE DEF LifeInv
<1>1. timers \in Seq(Timers) /\ DOMAIN timers = 1 .. Len(timers) /\ queue \in Seq(Fit)
  BY DEF LifeTypes
<1>2. PICK i \in 1 .. Len(timers) :
        /\ timers' = RemoveAt(timers, i)
        /\ queue' = Append(queue, Job("respawn", timers[i].gating, timers[i].attempts, timers[i].age))
        /\ respawned' = respawned + 1
  BY <1>1 DEF Respawn, Enqueue
<1>3. /\ UNCHANGED <<required, creds, registry, saved, process, work, pc, gaveUp, halted,
                     started, lifeCounters>>
  BY DEF Respawn
<1> DEFINE j == Job("respawn", timers[i].gating, timers[i].attempts, timers[i].age)
<1>4. /\ timers' \in Seq(Timers) /\ timers[i] \in Timers
      /\ TimerSum(timers') = TimerSum(timers) - Left(timers[i].attempts)
  BY <1>1, <1>2, TimerSumRemoves
<1>5. /\ j \in Fit /\ j.by = "respawn" /\ j.attempts = timers[i].attempts
      /\ timers[i].attempts \in 0 .. MaxRespawns - 1
  BY <1>4, JobsAreFit DEF Timers, Job
<1> HIDE DEF j
<1>6. queue' = Append(queue, j)
  BY <1>2 DEF j
<1>7. queue' \in Seq(Fit) /\ QueueSum(queue') = QueueSum(queue) + OfJob(j)
  BY <1>1, <1>5, <1>6, QueueSumAppends
<1>8. LifeTypes'
  BY <1>2, <1>3, <1>4, <1>7 DEF LifeTypes, process, lifeCounters
<1>9. LifeFlags'
  BY <1>3, Zenon DEF LifeFlags
<1>10. Sent => Sent'
  BY <1>1, <1>5, <1>6, SentAppends
<1>11. ChildrenAreSound' /\ CredentialsFollow'
  BY <1>3, <1>10 DEF ChildrenAreSound, OneChild, CredentialsFollow, process
<1>12. RespawnsAreBounded'
  <2>1. /\ respawned \in Nat /\ work \in Fit \union {NoJob}
        /\ running \in Entries \union {NoEntry} /\ MaxRespawns \in Nat
    BY DEF LifeTypes, LifecycleAssumption
  <2>2. /\ TimerSum(timers) \in Int /\ QueueSum(queue) \in Int
        /\ OfJob(work) \in Nat /\ Spends(running) \in Nat
    BY <1>1, <2>1, BudgetTypes
  <2>3. OfJob(j) = Left(timers[i].attempts) - 1 /\ Left(timers[i].attempts) \in Int
    BY <1>5, <2>1 DEF OfJob, Left
  <2>4. Budget' = respawned' + TimerSum(timers') + QueueSum(queue') + OfJob(work) + Spends(running)
    BY <1>3 DEF Budget, TimerSum, QueueSum, OfJob, Left, Spends, process
  <2>5. Budget = respawned + TimerSum(timers) + QueueSum(queue) + OfJob(work) + Spends(running)
    BY DEF Budget
  <2>6. Budget' <= Budget
    <3> DEFINE t == TimerSum(timers)
               u == TimerSum(timers')
               q == QueueSum(queue)
               r == QueueSum(queue')
               l == Left(timers[i].attempts)
               w == OfJob(work)
               x == Spends(running)
               b == Budget
               c == Budget'
    <3>1. /\ respawned \in Int /\ t \in Int /\ q \in Int /\ w \in Int /\ x \in Int /\ l \in Int
          /\ u = t - l /\ r = q + (l - 1) /\ respawned' = respawned + 1
          /\ b = respawned + t + q + w + x /\ c = respawned' + u + r + w + x
      BY <1>2, <1>4, <1>7, <2>1, <2>2, <2>3, <2>4, <2>5
    <3> HIDE DEF t, u, q, r, l, w, x, b, c
    <3>2. c <= b
      BY <3>1
    <3>3. QED BY <3>2 DEF b, c
  <2>7. QED BY <1>3, <1>8, <2>6, BudgetHolds
<1>13. QED BY <1>8, <1>9, <1>11, <1>12

-----------------------------------------------------------------------------
(* What follows.                                                            *)

LEMMA LifeStarts == ASSUME LifecycleAssumption, LifeInit PROVE LifeInv
<1>1. /\ running = NoEntry /\ live = {} /\ abandoned = {} /\ queue = <<>> /\ work = NoJob
      /\ pc = "idle" /\ timers = <<>> /\ creds = 0 /\ registry \in {None, "manifest"}
      /\ saved \in Ages /\ started = 0 /\ respawned = 0
      /\ requests = 0 /\ crashes = 0 /\ failures = 0
  BY DEF LifeInit
<1>2. LifeTypes
  BY <1>1 DEF LifeTypes, Gatings, Phases
<1>3. LifeFlags
  BY Zenon DEF LifeInit, LifeFlags
<1>4. ChildrenAreSound /\ CredentialsFollow
  BY <1>1 DEF ChildrenAreSound, OneChild, CredentialsFollow
<1>5. RespawnsAreBounded
  <2>1. [n \in DOMAIN timers |-> Left(timers[n].attempts)] = <<>>
        /\ [n \in DOMAIN queue |-> OfJob(queue[n])] = <<>>
    BY <1>1
  <2>2. OfTimers = 0 /\ OfQueue = 0
    BY <2>1, SumOfNone DEF OfTimers, OfQueue
  <2>3. OfJob(work) = 0 /\ OfRunning = 0
    BY <1>1, JobSpends DEF OfRunning
  <2>4. MaxRespawns * started = 0
    BY <1>1 DEF LifecycleAssumption
  <2>5. QED BY <1>1, <2>2, <2>3, <2>4 DEF RespawnsAreBounded
<1>6. QED BY <1>2, <1>3, <1>4, <1>5 DEF LifeInv

LEMMA LifeGoesOn ==
  ASSUME LifecycleAssumption, LifeInv, [LifeNext]_lifeVars PROVE LifeInv'
<1>1. CASE Request
  <2>1. Asks
    BY <1>1, RequestAsks DEF LifeInv
  <2>2. LifeTypes' /\ ChildrenAreSound' /\ RespawnsAreBounded'
    BY <2>1, AskedSoundly DEF LifeInv
  <2>3. CredentialsFollow'
    BY <1>1, AskedForCredentials DEF LifeInv
  <2>4. LifeFlags'
    <3>1. UNCHANGED required /\ UNCHANGED gaveUp
      BY <2>1 DEF Asks
    <3>2. halted' \in BOOLEAN
      BY <1>1, Zenon DEF Request, Add, Restore, Service, RemoveIt, StopAll, SetPolicy,
                         LifeInv, LifeFlags
    <3>3. QED BY <3>1, <3>2, Zenon DEF LifeInv, LifeFlags
  <2>5. QED BY <2>2, <2>3, <2>4 DEF LifeInv
<1>2. CASE Proceed
  BY <1>2, Begins, HasNothingToDo, Closes, Spawns, Connects, Lists, Fails DEF Proceed
<1>3. CASE Crash \/ Respawn
  BY <1>3, Crashes, Respawns
<1>4. CASE UNCHANGED lifeVars
  <2>1. UNCHANGED <<required, creds, registry, saved, running, live, abandoned, queue, work, pc,
                    timers, gaveUp, halted, started, respawned, requests, crashes, failures>>
    BY <1>4 DEF lifeVars, lifeCounters
  <2>2. LifeTypes' /\ ChildrenAreSound' /\ CredentialsFollow'
    BY <2>1 DEF LifeInv, LifeTypes, ChildrenAreSound, OneChild, CredentialsFollow, Sent
  <2>3. LifeFlags'
    BY <2>1, Zenon DEF LifeInv, LifeFlags
  <2>4. RespawnsAreBounded'
    BY <2>1 DEF LifeInv, RespawnsAreBounded, OfTimers, OfQueue, OfJob, OfRunning, Left
  <2>5. QED BY <2>2, <2>3, <2>4 DEF LifeInv
<1>5. QED BY <1>1, <1>2, <1>3, <1>4 DEF LifeNext

LEMMA LifeShows == ASSUME LifecycleAssumption, LifeInv PROVE ConnectorIsWhole
<1>1. /\ LifeTypes /\ LifeFlags /\ ChildrenAreSound /\ CredentialsFollow
      /\ RespawnsAreBounded
  BY DEF LifeInv
<1>2. LifeTypeOK
  <2>1. Fit \subseteq Jobs
    BY DEF Fit
  <2>2. queue \in Seq(Jobs) /\ work \in Jobs \union {NoJob}
    BY <1>1, <2>1 DEF LifeTypes
  <2>3. (pc = "idle") = (work = NoJob)
    BY <1>1 DEF LifeTypes
  <2>4. required \in BOOLEAN /\ gaveUp \in BOOLEAN /\ halted \in BOOLEAN
    BY <1>1 DEF LifeFlags
  <2>5. QED BY <1>1, <2>2, <2>3, <2>4 DEF LifeTypes, LifeTypeOK, Phases
<1>3. CredentialsArrive
  BY <1>1 DEF CredentialsFollow, Sent, CredentialsArrive
<1>4. QED BY <1>1, <1>2, <1>3 DEF ConnectorIsWhole, ChildrenAreSound

\* What every job, crash and timer of a connector keeps.
THEOREM TheConnectorIsSound == ASSUME LifecycleAssumption PROVE LifeSpec => []LifeInv
<1>1. LifeInit => LifeInv
  BY LifeStarts
<1>2. LifeInv /\ [LifeNext]_lifeVars => LifeInv'
  BY LifeGoesOn
<1>3. QED BY <1>1, <1>2, PTL DEF LifeSpec

\* A connector is whole (integration-manager.ts) whatever order its starts,
\* stops, crashes and respawns come in and however often: at most one child is
\* anybody's, the respawns are bounded by the starts that were asked for, and
\* what runs has the newest credentials once every job is done.
THEOREM TheConnectorIsWhole ==
  ASSUME LifecycleAssumption PROVE LifeSpec => []ConnectorIsWhole
<1>1. LifeInv => ConnectorIsWhole
  BY LifeShows
<1>2. QED BY <1>1, TheConnectorIsSound, PTL
==============================================================================
