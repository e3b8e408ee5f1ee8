---------------------------- MODULE RecordsProofs ----------------------------
(***************************************************************************)
(* Theorems about what the MCP server keeps: the report, for any number of *)
(* saves and checks that overlap; the outcomes for the agent, for any      *)
(* number of proposals, polls, restarts and sign-ins; an encrypted store,  *)
(* for any rows, accounts and legacy file; the mandates in memory, for any *)
(* number of them and of requests served at once.  The second and third    *)
(* are about one server on its data directory.                             *)
(***************************************************************************)
EXTENDS ReportStore, OutcomeOutbox, EncryptedStores, MandateCache, TLAPS

-----------------------------------------------------------------------------
(* The report.                                                             *)

\* What is verified by a check nobody overtook is the report in the store, so
\* that its result may be written beside it.
ChecksAreCurrent ==
  \A c \in Checks :
    /\ phase[c] # "idle" => report.html # None
    /\ phase[c] = "verifying" /\ c \notin overtaken => html[c] = report.html

ReportInv == ReportTypeOK /\ TheLastSaveStays /\ MixedOnlyByOvertaking /\ ChecksAreCurrent

\* Before the first save there is no report and nobody reads one.
LEMMA ReportInitially ==
  ASSUME ReportAssumption, ReportInit
  PROVE  ReportInv
<1>1. ReportTypeOK
  <2>1. mixed \in BOOLEAN
    BY DEF ReportInit
  <2>2. /\ report \in [html : Versions, result : Versions, window : Versions]
        /\ started \in 0..MaxSaves /\ saving \subseteq Saves
    BY DEF ReportInit, Versions, Saves, ReportAssumption
  <2>3. QED BY <2>1, <2>2 DEF ReportInit, ReportTypeOK, Versions
<1>2. QED
  BY <1>1 DEF ReportInit, ReportInv, TheLastSaveStays, MixedOnlyByOvertaking,
      ChecksAreCurrent

\* However the saves and checks overlap: a save overtakes every check under
\* way, and a check takes away only itself.
LEMMA ReportStepKeeps ==
  ASSUME ReportAssumption, ReportInv, [ReportNext]_reportVars
  PROVE  ReportInv'
<1> USE DEF ReportInv, ReportTypeOK, TheLastSaveStays, MixedOnlyByOvertaking,
            ChecksAreCurrent, Versions, Saves
<1>1. CASE SaveBegins
  BY <1>1 DEF SaveBegins, checkVars, ReportAssumption
<1>2. ASSUME NEW n \in Saves, SaveEnds(n)
      PROVE  ReportInv'
  BY <1>2 DEF SaveEnds, checkVars, ReportAssumption
<1>3. ASSUME NEW n \in Saves, SaveFails(n)
      PROVE  ReportInv'
  BY <1>3 DEF SaveFails, checkVars
<1>4. ASSUME NEW c \in Checks, CheckBegins(c)
      PROVE  ReportInv'
  BY <1>4 DEF CheckBegins
<1>5. ASSUME NEW c \in Checks, CheckReads(c)
      PROVE  ReportInv'
  BY <1>5 DEF CheckReads
<1>6. ASSUME NEW c \in Checks, CheckEnds(c)
      PROVE  ReportInv'
  <2>1. report' = [report EXCEPT !.result = html[c], !.window = window[c]]
    BY <1>6 DEF CheckEnds, Rechecked
  <2>2. report' \in [html : Versions, result : Versions, window : Versions]
    BY <2>1
  <2>3. mixed' \in BOOLEAN /\ (mixed' <=> c \in overtaken)
    <3>1. mixed' = (c \in overtaken)
      BY <1>6 DEF CheckEnds
    <3>2. (c \in overtaken) \in BOOLEAN
      OBVIOUS
    <3>3. QED BY <3>1, <3>2, Zenon
  <2>4. ~ mixed' => report'.result = report'.html
    BY <2>1, <2>3, <1>6 DEF CheckEnds
  <2>5. ReportTypeOK'
    BY <2>2, <2>3, <1>6 DEF CheckEnds, Over
  <2>6. TheLastSaveStays' /\ ChecksAreCurrent'
    BY <2>1, <1>6 DEF CheckEnds, Over
  <2>7. QED BY <2>4, <2>5, <2>6
<1>7. ASSUME NEW c \in Checks, CheckFails(c)
      PROVE  ReportInv'
  BY <1>7 DEF CheckFails, Over
<1>8. CASE UNCHANGED reportVars
  BY <1>8 DEF reportVars, checkVars
<1>9. QED BY <1>1, <1>2, <1>3, <1>4, <1>5, <1>6, <1>7, <1>8 DEF ReportNext

\* The invariant of the report, from the two lemmas.
LEMMA ReportHolds ==
  ASSUME ReportAssumption
  PROVE  ReportSpec => []ReportInv
<1>1. ReportInit => ReportInv
  BY ReportInitially
<1>2. ReportInv /\ [ReportNext]_reportVars => ReportInv'
  BY ReportStepKeeps
<1>3. QED BY <1>1, <1>2, PTL DEF ReportSpec

\* What the report store and the requests under way hold is what they declare.
THEOREM ReportTypes ==
  ASSUME ReportAssumption
  PROVE  ReportSpec => []ReportTypeOK
<1>1. ReportInv => ReportTypeOK
  BY DEF ReportInv
<1>2. QED BY <1>1, ReportHolds, PTL

\* The html in the store is that of the save that returned last, and the
\* result beside it is its own unless the check was overtaken.
THEOREM ReportSound ==
  ASSUME ReportAssumption
  PROVE  ReportSpec => []ReportIsSound
<1>1. ReportInv => ReportIsSound
  BY DEF ReportInv, ReportIsSound
<1>2. QED BY <1>1, ReportHolds, PTL

-----------------------------------------------------------------------------
(* The outcomes for the agent.                                             *)

OneServer == \A p, q \in Servers : p = q

\* Nothing is known of an outcome before its decision, nor of a proposal that
\* is not this gateway's.
NothingEarly ==
  \A x \in Proposals : decided[x] = Never \/ x \notin Here =>
    /\ disk[x] = "none" /\ told[x] = 0
    /\ \A p \in Servers : box[p][x] = "none" /\ x \notin reply[p] /\ x \notin admitted[p]

\* The memory is the file but for rows the window has closed on, or the server
\* has restarted and nobody has signed in: it holds nothing and polls nothing.
Agree ==
  \A p \in Servers :
    \/ \A x \in Proposals : Lapsed(x) \/ box[p][x] = disk[x]
    \/ box[p] = Empty /\ ~session[p] /\ admitted[p] = {}

UnderWay(x) == \E p \in Servers : x \in reply[p]

\* What was handed to a reply is marked until nobody admits it any more, and
\* is handed out no second time.
HandedOnce ==
  \A x \in Proposals :
    /\ told[x] > 0 \/ UnderWay(x) =>
         /\ Lapsed(x) \/ disk[x] = "told"
         /\ disk[x] # "new" /\ \A p \in Servers : box[p][x] # "new"
    /\ told[x] <= 1
    /\ UnderWay(x) => told[x] = 0

OutboxInv == OutboxTypeOK /\ NothingEarly /\ Agree /\ HandedOnce

\* At first nothing is decided, queued or under way.
LEMMA OutboxInitially ==
  ASSUME OutboxAssumption, OutboxInit
  PROVE  OutboxInv
<1> USE DEF OutboxInit, Never, Empty
<1>1. OutboxTypeOK
  BY DEF OutboxTypeOK, BoxContents, OutboxAssumption
<1>2. NothingEarly /\ Agree
  BY DEF NothingEarly, Agree
<1>3. HandedOnce
  BY DEF HandedOnce, UnderWay
<1>4. QED BY <1>1, <1>2, <1>3 DEF OutboxInv

\* The steps that leave the entries alone.
LEMMA SmallOutboxSteps ==
  ASSUME OutboxAssumption, OneServer, OutboxInv,
         \/ UNCHANGED outboxVars
         \/ OutboxTick
         \/ \E x \in Proposals : Decide(x)
         \/ \E p \in Servers : SessionEnds(p) \/ PollFails(p) \/ ReplyLost(p)
         \/ \E p \in Servers, x \in Proposals : PollAdmits(p, x)
  PROVE  OutboxInv'
<1> USE DEF OutboxInv, OutboxTypeOK, OutboxAssumption
<1>1. CASE UNCHANGED outboxVars
  BY <1>1 DEF outboxVars, stores, NothingEarly, Agree, HandedOnce, UnderWay, Lapsed
<1>2. CASE OutboxTick
  <2>1. \A x \in Proposals : Lapsed(x) => Lapsed(x)'
    BY <1>2 DEF OutboxTick, stores, Lapsed, Never
  <2>2. OutboxTypeOK' /\ NothingEarly' /\ Agree'
    BY <1>2, <2>1 DEF OutboxTick, stores, NothingEarly, Agree
  <2>3. HandedOnce'
    BY <1>2, <2>1 DEF OutboxTick, stores, HandedOnce, UnderWay
  <2>4. QED BY <2>2, <2>3
<1>3. ASSUME NEW x \in Proposals, Decide(x)
      PROVE  OutboxInv'
  <2>1. \A y \in Proposals : Lapsed(y) /\ y # x => Lapsed(y)'
    BY <1>3 DEF Decide, Lapsed
  <2>2. OutboxTypeOK' /\ NothingEarly'
    BY <1>3 DEF Decide, stores, NothingEarly, Never
  <2>3. disk[x] = "none" /\ told[x] = 0 /\ ~UnderWay(x) /\ \A p \in Servers : box[p][x] = "none"
    BY <1>3 DEF Decide, NothingEarly, UnderWay
  <2>4. Agree'
    BY <1>3, <2>1, <2>3 DEF Decide, stores, Agree
  <2>5. HandedOnce'
    BY <1>3, <2>1, <2>3 DEF Decide, stores, HandedOnce, UnderWay
  <2>6. QED BY <2>2, <2>4, <2>5
<1>4. ASSUME NEW p \in Servers, SessionEnds(p)
      PROVE  OutboxInv'
  BY <1>4 DEF SessionEnds, stores, NothingEarly, Agree, HandedOnce, UnderWay, Lapsed
<1>5. ASSUME NEW p \in Servers, PollFails(p)
      PROVE  OutboxInv'
  BY <1>5 DEF PollFails, stores, NothingEarly, Agree, HandedOnce, UnderWay, Lapsed
<1>6. ASSUME NEW p \in Servers, ReplyLost(p)
      PROVE  OutboxInv'
  BY <1>6 DEF ReplyLost, stores, NothingEarly, Agree, HandedOnce, UnderWay, Lapsed
<1>7. ASSUME NEW p \in Servers, NEW x \in Proposals, PollAdmits(p, x)
      PROVE  OutboxInv'
  BY <1>7 DEF PollAdmits, Admitted, stores, NothingEarly, Agree, HandedOnce, UnderWay,
      Lapsed
<1>8. QED BY <1>1, <1>2, <1>3, <1>4, <1>5, <1>6, <1>7

\* What the server hands out, or writes again, goes by one rule: a row that was
\* told stays told until it lapses, and no other one comes back as new.
LEMMA OutboxWrites ==
  ASSUME OutboxAssumption, OneServer, OutboxInv, NEW p \in Servers,
         \/ Configure(p) \/ Restart(p) \/ ReplyCarries(p) \/ ReplyArrives(p)
         \/ \E x \in Proposals : PollRecords(p, x)
  PROVE  OutboxInv'
<1> USE DEF OutboxInv, OutboxTypeOK, OutboxAssumption
<1>0. Servers = {p}
  BY DEF OneServer
<1>1. CASE Configure(p)
  <2>1. \A x \in Proposals : Lapsed(x)' <=> Lapsed(x)
    BY <1>1 DEF Configure, Lapsed
  <2>2. box'[p] = Pruned(disk)
    BY <1>1 DEF Configure
  <2>3. OutboxTypeOK' /\ NothingEarly'
    BY <1>0, <1>1 DEF Configure, Pruned, NothingEarly, BoxContents
  <2>4. Agree'
    BY <1>0, <1>1, <2>1, <2>2 DEF Configure, Pruned, Agree
  <2>5. HandedOnce'
    BY <1>0, <1>1, <2>1, <2>2 DEF Configure, Pruned, HandedOnce, UnderWay
  <2>6. QED BY <2>3, <2>4, <2>5
<1>2. CASE Restart(p)
  <2>1. \A x \in Proposals : Lapsed(x)' <=> Lapsed(x)
    BY <1>2 DEF Restart, Lapsed
  <2>2. OutboxTypeOK' /\ NothingEarly'
    BY <1>0, <1>2 DEF Restart, Empty, NothingEarly, BoxContents
  <2>3. Agree'
    BY <1>0, <1>2 DEF Restart, Agree, Empty
  <2>4. HandedOnce'
    BY <1>0, <1>2, <2>1 DEF Restart, HandedOnce, UnderWay, Empty
  <2>5. QED BY <2>2, <2>3, <2>4
<1>3. CASE ReplyCarries(p)
  <2>1. /\ box'[p] = [x \in Proposals |-> IF x \in Undelivered(p) THEN "told" ELSE box[p][x]]
        /\ disk' = box'[p] /\ reply'[p] = reply[p] \cup Undelivered(p)
        /\ UNCHANGED <<now, decided, session, admitted, told>>
    BY <1>3 DEF ReplyCarries, MarkDelivered
  <2>2. \A x \in Proposals : Lapsed(x)' <=> Lapsed(x)
    BY <2>1 DEF Lapsed
  <2>3. \A x \in Proposals : Lapsed(x) \/ box[p][x] = disk[x]
    BY <1>3 DEF ReplyCarries, Undelivered, Agree, Empty
  <2>4. OutboxTypeOK' /\ NothingEarly'
    BY <1>0, <1>3 DEF ReplyCarries, MarkDelivered, Undelivered, NothingEarly,
        BoxContents
  <2>5. Agree'
    BY <1>0, <2>1 DEF Agree
  <2>6. HandedOnce'
    BY <1>0, <2>1, <2>2, <2>3 DEF HandedOnce, UnderWay, Undelivered
  <2>7. QED BY <2>4, <2>5, <2>6
<1>4. CASE ReplyArrives(p)
  <2>1. \A x \in Proposals : Lapsed(x)' <=> Lapsed(x)
    BY <1>4 DEF ReplyArrives, Lapsed
  <2>2. \A x \in Proposals : told'[x] = told[x] + IF x \in reply[p] THEN 1 ELSE 0
    BY <1>4 DEF ReplyArrives
  <2>3. OutboxTypeOK' /\ NothingEarly'
    BY <1>0, <1>4 DEF ReplyArrives, stores, NothingEarly
  <2>4. Agree'
    BY <1>4, <2>1 DEF ReplyArrives, stores, Agree
  <2>5. HandedOnce'
    BY <1>0, <1>4, <2>1, <2>2 DEF ReplyArrives, stores, HandedOnce, UnderWay
  <2>6. QED BY <2>3, <2>4, <2>5
<1>5. ASSUME NEW x \in Proposals, PollRecords(p, x)
      PROVE  OutboxInv'
  <2>1. UNCHANGED <<now, decided, session, reply, told>>
    BY <1>5 DEF PollRecords
  <2>2. \A y \in Proposals : Lapsed(y)' <=> Lapsed(y)
    BY <2>1 DEF Lapsed
  <2>3. \A y \in Proposals : Lapsed(y) \/ box[p][y] = disk[y]
    BY <1>5 DEF PollRecords, Agree
  <2>4. admitted' \in [Servers -> SUBSET Here] /\ admitted'[p] \subseteq admitted[p]
    BY <1>5 DEF PollRecords
  <2>5. CASE UNCHANGED stores
    <3>1. OutboxTypeOK' /\ NothingEarly'
      BY <1>0, <1>5, <2>1, <2>4, <2>5 DEF PollRecords, stores, NothingEarly
    <3>2. Agree'
      BY <1>0, <2>2, <2>3, <2>5 DEF stores, Agree
    <3>3. HandedOnce'
      BY <2>1, <2>2, <2>5 DEF stores, HandedOnce, UnderWay
    <3>4. QED BY <3>1, <3>2, <3>3
  <2>6. CASE Admitted(x) /\ box[p][x] = "none" /\ ~ UNCHANGED stores
    <3>1. /\ box'[p] = [y \in Proposals |-> IF Lapsed(y) THEN "none"
                                            ELSE IF y = x THEN "new" ELSE box[p][y]]
          /\ box' \in [Servers -> BoxContents] /\ disk' = box'[p]
      BY <1>0, <1>5, <2>6 DEF PollRecords, RecordIfNew, Pruned, BoxContents
    <3>2. ~ Lapsed(x) /\ x \in Here /\ decided[x] # Never
      BY <2>6 DEF Admitted
    <3>3. told[x] = 0 /\ ~ UnderWay(x)
      BY <2>3, <2>6, <3>2 DEF HandedOnce
    <3>4. OutboxTypeOK'
      BY <1>0, <1>5, <2>1, <2>4, <3>1 DEF PollRecords
    <3>5. NothingEarly'
      BY <1>0, <2>1, <2>4, <3>1, <3>2 DEF NothingEarly
    <3>6. Agree'
      BY <1>0, <3>1 DEF Agree
    <3>7. HandedOnce'
      BY <1>0, <2>1, <2>2, <2>3, <3>1, <3>3 DEF HandedOnce, UnderWay
    <3>8. QED BY <3>4, <3>5, <3>6, <3>7
  <2>7. QED BY <1>5, <2>5, <2>6 DEF PollRecords, RecordIfNew
<1>6. QED BY <1>1, <1>2, <1>3, <1>4, <1>5

\* The invariant of the outbox: every step is one of the two kinds.
LEMMA OutboxHolds ==
  ASSUME OutboxAssumption, OneServer
  PROVE  OutboxSpec => []OutboxInv
<1>1. OutboxInit => OutboxInv
  BY OutboxInitially
<1>2. OutboxInv /\ [OutboxNext]_outboxVars => OutboxInv'
  BY SmallOutboxSteps, OutboxWrites DEF OutboxNext
<1>3. QED BY <1>1, <1>2, PTL DEF OutboxSpec

\* The outbox, its file and the polls and replies under way hold what they
\* declare, and only of this gateway's own proposals.
THEOREM OutboxTypes ==
  ASSUME OutboxAssumption, OneServer
  PROVE  OutboxSpec => []OutboxTypeOK
<1>1. OutboxInv => OutboxTypeOK
  BY DEF OutboxInv
<1>2. QED BY <1>1, OutboxHolds, PTL

\* One server tells the agent an outcome at most once, for any number of
\* proposals, polls that overlap, restarts, sign-ins and lost replies.
THEOREM ToldAtMostOnce ==
  ASSUME OutboxAssumption, OneServer
  PROVE  OutboxSpec => []AtMostOnce
<1>1. OutboxInv => AtMostOnce
  BY DEF OutboxInv, HandedOnce, AtMostOnce
<1>2. QED BY <1>1, OutboxHolds, PTL

\* A delivered outcome stays marked in the file until it lapses: nothing that
\* is written, nor any poll that overlaps another, takes the mark away.
THEOREM MarksAreKept ==
  ASSUME OutboxAssumption, OneServer
  PROVE  OutboxSpec => MarksStay
<1>1. ASSUME OutboxInv, OutboxNext
      PROVE  KeepsMarks
  <2> USE DEF OutboxInv, OutboxTypeOK
  <2>1. CASE UNCHANGED disk
    BY <2>1 DEF KeepsMarks
  <2>2. ASSUME NEW p \in Servers, ReplyCarries(p)
        PROVE  KeepsMarks
    <3>1. \A x \in Proposals : Lapsed(x) \/ box[p][x] = disk[x]
      BY <1>1, <2>2 DEF ReplyCarries, Undelivered, Agree, Empty
    <3>2. \A x \in Proposals : Lapsed(x)' <=> Lapsed(x)
      BY <2>2 DEF ReplyCarries, Lapsed
    <3>3. QED
      BY <1>1, <2>2, <3>1, <3>2 DEF ReplyCarries, MarkDelivered, KeepsMarks
  <2>3. ASSUME NEW p \in Servers, NEW x \in Proposals, PollRecords(p, x)
        PROVE  KeepsMarks
    <3>1. \A y \in Proposals : Lapsed(y) \/ box[p][y] = disk[y]
      BY <1>1, <2>3 DEF PollRecords, Agree
    <3>2. \A y \in Proposals : Lapsed(y)' <=> Lapsed(y)
      BY <2>3 DEF PollRecords, Lapsed
    <3>3. CASE ~ UNCHANGED disk
      <4>1. /\ box[p][x] = "none"
            /\ disk' = [y \in Proposals |-> IF Lapsed(y) THEN "none"
                                            ELSE IF y = x THEN "new" ELSE box[p][y]]
        BY <1>1, <2>3, <3>3 DEF PollRecords, RecordIfNew, Pruned, BoxContents, stores
      <4>2. QED BY <3>1, <3>2, <4>1 DEF KeepsMarks
    <3>4. QED BY <2>1, <3>3
  <2>4. CASE \/ OutboxTick
             \/ \E x \in Proposals : Decide(x)
             \/ \E p \in Servers :
                  \/ Configure(p) \/ SessionEnds(p) \/ Restart(p)
                  \/ PollFails(p) \/ ReplyArrives(p) \/ ReplyLost(p)
                  \/ \E x \in Proposals : PollAdmits(p, x)
    BY <2>1, <2>4 DEF OutboxTick, Decide, Configure, SessionEnds, Restart, PollFails,
                      ReplyArrives, ReplyLost, PollAdmits, stores
  <2>5. QED BY <1>1, <2>2, <2>3, <2>4 DEF OutboxNext
<1>2. OutboxInv /\ [OutboxNext]_outboxVars => [KeepsMarks]_outboxVars
  BY <1>1
<1>3. QED BY <1>2, OutboxHolds, PTL DEF OutboxSpec, MarksStay

-----------------------------------------------------------------------------
(* An encrypted store.                                                     *)

OneProcess == \A p, q \in Procs : p = q

\* The file in plaintext is never torn and has no key; what is not whole holds
\* nothing and has no key.
FilesAreWell ==
  /\ plain.is \in {"absent", "whole"}
  /\ plain.is = "absent" => plain.rows = {}
  /\ enc.is # "whole" => enc.rows = {} /\ enc.by = NoKey
  /\ enc.is = "whole" => enc.by \in accounts

\* What a process has in memory, before and after it was given a key.
MemoryIsWell ==
  \A p \in Procs :
    /\ ~up[p] => mem[p] = {} /\ key[p] = NoKey
    /\ up[p] /\ key[p] = NoKey => mem[p] = plain.rows
    /\ key[p] \in Keys =>
         /\ key[p] \in accounts
         /\ enc.is = "absent" => mem[p] = {}
         /\ policy = "keep" => enc.rows \subseteq mem[p] \cup aside

\* What was deleted is in no file a later unlock would read.
DeletedIsGone ==
  /\ policy = "keep" => deleted = {}
  /\ enc.rows \cap deleted = {}
  /\ enc.is = "absent" => plain.rows \cap deleted = {}

StoreInv == StoreTypeOK /\ FilesAreWell /\ MemoryIsWell /\ DeletedIsGone /\ StoresKeep

\* What a release before the vault left is all there is, and recorded.
LEMMA StoreInitially ==
  ASSUME StoreAssumption, StoreInit
  PROVE  StoreInv
<1> USE DEF StoreInit, StoreAssumption
<1>1. StoreTypeOK
  BY DEF StoreTypeOK, StoreFile, Absent, File
<1>2. FilesAreWell /\ MemoryIsWell /\ DeletedIsGone
  BY DEF FilesAreWell, MemoryIsWell, DeletedIsGone, Absent, File
<1>3. StoresKeep
  BY DEF StoresKeep, EverythingKept, MemoryIsTheFile, DeletedStaysDeleted, Absent, File
<1>4. QED BY <1>1, <1>2, <1>3 DEF StoreInv

\* A process that starts or ends takes nothing from the files.
LEMMA StartsAndEnds ==
  ASSUME StoreAssumption, OneProcess, StoreInv, UNCHANGED policy, NEW p \in Procs,
         Start(p) \/ ServerDies(p) \/ TornWrite(p)
  PROVE  StoreInv'
<1> USE DEF StoreAssumption, StoreInv, StoreTypeOK, StoreFile
<1>0. Procs = {p}
  BY DEF OneProcess
<1>1. CASE Start(p)
  <2>1. /\ mem'[p] = plain.rows /\ key'[p] = NoKey /\ up'[p]
        /\ aside \subseteq aside' /\ aside' \subseteq Rows
        /\ mem' \in [Procs -> SUBSET Rows]
    BY <1>1 DEF Start, Loaded, MovedAside, Readable, FilesAreWell
  <2>2. StoreTypeOK'
    BY <1>1, <2>1 DEF Start, history
  <2>3. FilesAreWell' /\ MemoryIsWell' /\ DeletedIsGone'
    BY <1>0, <1>1, <2>1 DEF Start, history, FilesAreWell, MemoryIsWell, DeletedIsGone
  <2>4. StoresKeep'
    BY <1>0, <1>1, <2>1 DEF Start, history, StoresKeep, EverythingKept,
       MemoryIsTheFile, DeletedStaysDeleted, OneAccount
  <2>5. QED BY <2>2, <2>3, <2>4
<1>2. CASE ServerDies(p)
  <2>1. StoreTypeOK'
    BY <1>2 DEF ServerDies, Down, files, history
  <2>2. FilesAreWell' /\ MemoryIsWell' /\ DeletedIsGone'
    BY <1>0, <1>2 DEF ServerDies, Down, files, history, FilesAreWell, MemoryIsWell,
        DeletedIsGone
  <2>3. StoresKeep'
    BY <1>0, <1>2 DEF ServerDies, Down, files, history, StoresKeep, EverythingKept,
       MemoryIsTheFile, DeletedStaysDeleted, OneAccount
  <2>4. QED BY <2>1, <2>2, <2>3
<1>3. CASE TornWrite(p)
  <2>1. StoreTypeOK'
    BY <1>3 DEF TornWrite, Down, history, Torn
  <2>2. FilesAreWell' /\ MemoryIsWell' /\ DeletedIsGone'
    BY <1>0, <1>3
       DEF TornWrite, Down, history, Torn, FilesAreWell, MemoryIsWell, DeletedIsGone
  <2>3. StoresKeep'
    BY <1>0, <1>3 DEF TornWrite, Down, history, Torn, StoresKeep, EverythingKept,
       MemoryIsTheFile, DeletedStaysDeleted
  <2>4. QED BY <2>1, <2>2, <2>3
<1>4. QED BY <1>1, <1>2, <1>3

\* The unlock: what is in memory before it is what is in plaintext, and one
\* of the memory, the file and the copy put aside has everything after it.
LEMMA Unlocks ==
  ASSUME StoreAssumption, OneProcess, StoreInv, UNCHANGED policy,
         NEW p \in Procs, NEW k \in Keys, SetVaultKey(p, k) \/ MigrationCut(p, k)
  PROVE  StoreInv'
<1> USE DEF StoreAssumption, StoreInv, StoreTypeOK, StoreFile
<1>0. Procs = {p}
  BY DEF OneProcess
<1>1. ASSUME enc.is = "absent", mem[p] # {}
      PROVE  mem[p] = plain.rows /\ key[p] = NoKey /\ mem[p] \cap deleted = {}
  BY <1>1 DEF MemoryIsWell, DeletedIsGone
<1>2. accounts \subseteq accounts' /\ accounts' = accounts \cup {k} /\ k \in accounts'
  BY DEF SetVaultKey, MigrationCut
<1>3. OneAccount' => OneAccount
  BY <1>2 DEF OneAccount
<1>4. CASE MigrationCut(p, k)
  <2>1. /\ enc' = [is |-> "whole", by |-> k, rows |-> mem[p]] /\ up[p]
        /\ up' = [up EXCEPT ![p] = FALSE] /\ mem' = [mem EXCEPT ![p] = {}]
        /\ key' = [key EXCEPT ![p] = NoKey]
        /\ UNCHANGED <<plain, aside, recorded, deleted, starts, torn>>
        /\ mem[p] = plain.rows /\ mem[p] \cap deleted = {} /\ enc.rows = {}
    BY <1>1, <1>4 DEF MigrationCut, File, Down, FilesAreWell
  <2>2. StoreTypeOK'
    BY <1>2, <2>1
  <2>3. FilesAreWell' /\ MemoryIsWell' /\ DeletedIsGone'
    BY <1>0, <1>2, <2>1 DEF FilesAreWell, MemoryIsWell, DeletedIsGone
  <2>4. StoresKeep'
    BY <1>0, <1>3, <2>1
       DEF StoresKeep, EverythingKept, MemoryIsTheFile, DeletedStaysDeleted
  <2>5. QED BY <2>2, <2>3, <2>4
<1>5. CASE SetVaultKey(p, k)
  <2>1. /\ key' = [key EXCEPT ![p] = k] /\ up[p]
        /\ UNCHANGED <<up, recorded, deleted, starts, torn>>
    BY <1>5 DEF SetVaultKey
  <2>2. CASE enc.is # "absent"
    <3>1. /\ mem' = [mem EXCEPT ![p] = Loaded(enc, k, mem[p])]
          /\ aside' = MovedAside(enc, k) /\ UNCHANGED <<plain, enc>>
      BY <1>5, <2>2 DEF SetVaultKey
    <3>2. /\ Loaded(enc, k, mem[p]) \in SUBSET Rows
          /\ aside \subseteq aside' /\ aside' \subseteq Rows
          /\ enc.by = k => Loaded(enc, k, mem[p]) = enc.rows
          /\ policy = "keep" => enc.rows \subseteq Loaded(enc, k, mem[p]) \cup aside'
          /\ Loaded(enc, k, mem[p]) \cap deleted = {}
      BY <3>1 DEF Loaded, MovedAside, Readable, FilesAreWell, DeletedIsGone
    <3>3. StoreTypeOK'
      BY <1>2, <2>1, <3>1, <3>2
    <3>4. FilesAreWell' /\ MemoryIsWell' /\ DeletedIsGone'
      BY <1>0, <1>2, <2>1, <2>2, <3>1, <3>2 DEF FilesAreWell, MemoryIsWell,
          DeletedIsGone
    <3>5. StoresKeep'
      BY <1>0, <1>3, <2>1, <3>1, <3>2
         DEF StoresKeep, EverythingKept, MemoryIsTheFile, DeletedStaysDeleted
    <3>6. QED BY <3>3, <3>4, <3>5
  <2>3. CASE enc.is = "absent" /\ mem[p] # {}
    <3>1. /\ enc' = [is |-> "whole", by |-> k, rows |-> mem[p]]
          /\ plain' = [is |-> "absent", by |-> NoKey, rows |-> {}]
          /\ UNCHANGED <<mem, aside>>
          /\ mem[p] = plain.rows /\ mem[p] \cap deleted = {} /\ enc.rows = {}
      BY <1>1, <1>5, <2>3 DEF SetVaultKey, File, Absent, FilesAreWell
    <3>2. StoreTypeOK'
      BY <1>2, <2>1, <3>1
    <3>3. FilesAreWell' /\ MemoryIsWell' /\ DeletedIsGone'
      BY <1>0, <1>2, <2>1, <3>1 DEF FilesAreWell, MemoryIsWell, DeletedIsGone
    <3>4. StoresKeep'
      BY <1>0, <1>3, <2>1, <3>1
         DEF StoresKeep, EverythingKept, MemoryIsTheFile, DeletedStaysDeleted
    <3>5. QED BY <3>2, <3>3, <3>4
  <2>4. CASE enc.is = "absent" /\ mem[p] = {}
    <3>1. UNCHANGED <<mem, plain, enc, aside>> /\ enc.rows = {} /\ enc.by = NoKey
      BY <1>5, <2>4 DEF SetVaultKey, files, FilesAreWell
    <3>2. StoreTypeOK'
      BY <1>2, <2>1, <3>1
    <3>3. FilesAreWell' /\ MemoryIsWell' /\ DeletedIsGone'
      BY <1>0, <1>2, <2>1, <2>4, <3>1 DEF FilesAreWell, MemoryIsWell, DeletedIsGone
    <3>4. StoresKeep'
      BY <1>0, <1>3, <2>1, <2>4, <3>1
         DEF StoresKeep, EverythingKept, MemoryIsTheFile, DeletedStaysDeleted
    <3>5. QED BY <3>2, <3>3, <3>4
  <2>5. QED BY <2>2, <2>3, <2>4
<1>6. QED BY <1>4, <1>5

\* The writes: the file takes the memory's place, which has what the file had.
LEMMA StoreWrites ==
  ASSUME StoreAssumption, OneProcess, StoreInv, UNCHANGED policy, NEW p \in Procs,
         ClearAll(p) \/ \E r \in Rows : Record(p, r) \/ Delete(p, r)
  PROVE  StoreInv'
<1> USE DEF StoreAssumption, StoreInv, StoreTypeOK, StoreFile
<1>0. Procs = {p}
  BY DEF OneProcess
<1>1. CASE ClearAll(p)
  <2>1. StoreTypeOK'
    BY <1>1 DEF ClearAll, Absent
  <2>2. FilesAreWell' /\ MemoryIsWell' /\ DeletedIsGone'
    BY <1>0, <1>1 DEF ClearAll, Absent, FilesAreWell, MemoryIsWell, DeletedIsGone
  <2>3. StoresKeep'
    BY <1>0, <1>1 DEF ClearAll, Absent, StoresKeep, EverythingKept, MemoryIsTheFile,
       DeletedStaysDeleted
  <2>4. QED BY <2>1, <2>2, <2>3
<1>2. ASSUME key[p] # NoKey, torn = 0, policy = "keep" \/ OneAccount
      PROVE  enc.rows \subseteq mem[p] \cup aside
  <2>1. key[p] \in Keys /\ key[p] \in accounts
    BY <1>2 DEF MemoryIsWell
  <2>2. CASE policy = "keep"
    BY <2>1, <2>2 DEF MemoryIsWell
  <2>3. CASE OneAccount /\ enc.is = "whole"
    <3>1. enc.by = key[p]
      BY <2>1, <2>3 DEF OneAccount, FilesAreWell
    <3>2. QED BY <2>1, <3>1 DEF StoresKeep, MemoryIsTheFile
  <2>4. CASE enc.is # "whole"
    BY <2>4 DEF FilesAreWell
  <2>5. QED BY <1>2, <2>2, <2>3, <2>4
<1>3. ASSUME NEW r \in Rows, Record(p, r)
      PROVE  StoreInv'
  <2>1. /\ mem' = [mem EXCEPT ![p] = mem[p] \cup {r}]
        /\ enc' = [is |-> "whole", by |-> key[p], rows |-> mem[p] \cup {r}]
        /\ recorded' = recorded \cup {r} /\ deleted' = deleted \ {r}
        /\ UNCHANGED <<plain, aside, up, key, accounts, starts, torn>>
        /\ up[p] /\ key[p] # NoKey
    BY <1>3 DEF Record, Persist, File
  <2>2. key[p] \in Keys /\ key[p] \in accounts /\ mem[p] \cap deleted = {}
    BY <2>1 DEF MemoryIsWell, StoresKeep, DeletedStaysDeleted
  <2>3. StoreTypeOK'
    BY <2>1, <2>2
  <2>4. FilesAreWell' /\ MemoryIsWell' /\ DeletedIsGone'
    BY <1>0, <2>1, <2>2 DEF FilesAreWell, MemoryIsWell, DeletedIsGone
  <2>5. EverythingKept'
    BY <1>2, <2>1 DEF StoresKeep, EverythingKept, OneAccount
  <2>6. MemoryIsTheFile' /\ DeletedStaysDeleted'
    BY <1>0, <2>1, <2>2 DEF MemoryIsTheFile, DeletedStaysDeleted
  <2>7. QED BY <2>3, <2>4, <2>5, <2>6 DEF StoresKeep
<1>4. ASSUME NEW r \in Rows, Delete(p, r)
      PROVE  StoreInv'
  <2>1. /\ mem' = [mem EXCEPT ![p] = mem[p] \ {r}]
        /\ enc' = [is |-> "whole", by |-> key[p], rows |-> mem[p] \ {r}]
        /\ recorded' = recorded \ {r} /\ deleted' = deleted \cup {r}
        /\ UNCHANGED <<plain, aside, up, key, accounts, starts, torn>>
        /\ up[p] /\ key[p] # NoKey /\ policy = "fresh"
    BY <1>4 DEF Delete, Persist, File
  <2>2. key[p] \in Keys /\ key[p] \in accounts /\ mem[p] \cap deleted = {}
    BY <2>1 DEF MemoryIsWell, StoresKeep, DeletedStaysDeleted
  <2>3. StoreTypeOK'
    BY <2>1, <2>2
  <2>4. FilesAreWell' /\ MemoryIsWell' /\ DeletedIsGone'
    BY <1>0, <2>1, <2>2 DEF FilesAreWell, MemoryIsWell, DeletedIsGone
  <2>5. EverythingKept'
    BY <1>2, <2>1 DEF StoresKeep, EverythingKept, OneAccount
  <2>6. MemoryIsTheFile' /\ DeletedStaysDeleted'
    BY <1>0, <2>1, <2>2 DEF MemoryIsTheFile, DeletedStaysDeleted
  <2>7. QED BY <2>3, <2>4, <2>5, <2>6 DEF StoresKeep
<1>5. QED BY <1>1, <1>3, <1>4

\* The invariant of a store: no step of its process breaks it.
LEMMA StoreHolds ==
  ASSUME StoreAssumption, OneProcess
  PROVE  StoreSpec => []StoreInv
<1>1. StoreInit => StoreInv
  BY StoreInitially
<1>2. StoreInv /\ [StoreNext]_storeVars => StoreInv'
  <2>1. ASSUME StoreInv, StoreNext
        PROVE  StoreInv'
    <3>1. PICK p \in Procs : StoreStep(p)
      BY <2>1 DEF StoreNext
    <3>2. UNCHANGED policy
      BY <2>1 DEF StoreNext
    <3>3. QED
      BY <2>1, <3>1, <3>2, StartsAndEnds, Unlocks, StoreWrites DEF StoreStep
  <2>2. ASSUME StoreInv, UNCHANGED storeVars
        PROVE  StoreInv'
    <3>1. StoreTypeOK' /\ FilesAreWell'
      BY <2>2 DEF storeVars, files, procs, history, StoreInv, StoreTypeOK, FilesAreWell
    <3>2. MemoryIsWell' /\ DeletedIsGone'
      BY <2>2 DEF storeVars, files, procs, history, StoreInv, MemoryIsWell,
          DeletedIsGone
    <3>3. StoresKeep'
      BY <2>2 DEF storeVars, files, procs, history, StoreInv, StoresKeep,
         EverythingKept, MemoryIsTheFile, DeletedStaysDeleted, OneAccount
    <3>4. QED BY <3>1, <3>2, <3>3 DEF StoreInv
  <2>3. QED BY <2>1, <2>2
<1>3. QED BY <1>1, <1>2, PTL DEF StoreSpec

\* The files and the memory of the process hold what they declare: the
\* plaintext has no key, and an encrypted file is an account's.
THEOREM StoreTypes ==
  ASSUME StoreAssumption, OneProcess
  PROVE  StoreSpec => []StoreTypeOK
<1>1. StoreInv => StoreTypeOK
  BY DEF StoreInv
<1>2. QED BY <1>1, StoreHolds, PTL

\* For any rows, accounts, legacy file and number of starts and cut writes:
\* what was recorded is kept, what is served is what the file holds, and what
\* was deleted is not served again.
THEOREM StoresAreKept ==
  ASSUME StoreAssumption, OneProcess
  PROVE  StoreSpec => []StoresKeep
<1>1. StoreInv => StoresKeep
  BY DEF StoreInv
<1>2. QED BY <1>1, StoreHolds, PTL

-----------------------------------------------------------------------------
(* The mandates in memory.                                                 *)

Underway == {"fetch", "read", "summary"}

\* What a handler works on was signed, and what it was told of a mandate that
\* ended is true for good.
WorkIsTrue(s) ==
  /\ \A m \in s.todo : s.kept[m] > 0 /\ record[m] # "absent"
  /\ s.pc \in Underway => s.on \in Authorization /\ s.kept[s.on] > 0 /\ record[s.on] # "absent"
  /\ s.pc \notin Underway => s.on = NoAuthorization
  /\ s.pc = "read" => s.read # "absent"
  /\ s.pc = "read" /\ s.read \in {"revoked", "deleted"} => record[s.on] = s.read

\* A mandate the resync is done with is cached under its workspace, unless it
\* was dropped since.
Settled(m) ==
  /\ ~ Gone(record[m])
  /\ cached[m] \in {"out", Home[m]}
  /\ record[m] = "live" /\ Home[m] = workspace => cached[m] = Home[m]

\* What a resync that nothing interferes with has reached.
Undisturbed(h, s) ==
  /\ \A g \in Handler \ {h} : serving[g] = Unused
  /\ s.pc # "idle" => s.resync
  /\ s.pc = "personal" => s.team = InTeam /\ (s.team = "yes" => active = "team")
  /\ s.pc \in {"next"} \cup Underway =>
       /\ active = workspace
       /\ \A m \in Authorization : gates[m] > 0 /\ m \notin s.todo /\ m # s.on => Settled(m)
  /\ s.pc = "read" => s.read = record[s.on]
  /\ s.pc = "summary" => ~ Gone(record[s.on])

CacheInv ==
  /\ CacheTypeOK
  /\ \A m \in Authorization : gates[m] > 0 => record[m] # "absent"
  /\ \A h \in Handler : WorkIsTrue(serving[h])
  /\ \A h \in clean : Undisturbed(h, serving[h])

-----------------------------------------------------------------------------
LEMMA InitIsSound == ASSUME HomeAssumption, CacheInit PROVE CacheInv
<1>1. Unused \in Serving
  BY DEF Unused, Serving, Awaits, AsRecord
<1>2. CacheTypeOK
  BY <1>1 DEF CacheInit, CacheTypeOK, Workspace, Group, AsRecord
<1>3. \A h \in Handler : WorkIsTrue(serving[h])
  BY DEF CacheInit, WorkIsTrue, Unused, Underway
<1>4. \A m \in Authorization : gates[m] > 0 => record[m] # "absent"
  BY DEF CacheInit
<1>5. QED BY <1>2, <1>3, <1>4 DEF CacheInv, CacheInit

\* A handler moves on: what is left to show is about it alone.
LEMMA HandlerMoves ==
  ASSUME HomeAssumption, CacheInv, NEW h \in Handler, NEW s \in Serving,
         serving' = [serving EXCEPT ![h] = s],
         UNCHANGED <<record, workspace, call, stale>>,
         cached' \in [Authorization -> Group \cup {"out"}],
         active' \in Workspace \cup {"none"},
         gates' \in [Authorization -> Nat], pushed' \in [Authorization -> Nat],
         changes' \in Nat, troubles' \in Nat, clean' \in SUBSET Handler,
         \A m \in Authorization : gates'[m] > 0 => record[m] # "absent",
         WorkIsTrue(s),
         \A g \in clean' : g = h /\ Undisturbed(h, s)'
  PROVE  CacheInv'
<1>1. serving' \in [Handler -> Serving] /\ serving'[h] = s
      /\ \A g \in Handler \ {h} : serving'[g] = serving[g]
  BY DEF CacheInv, CacheTypeOK
<1>2. CacheTypeOK'
  BY <1>1 DEF CacheInv, CacheTypeOK
<1>3. ASSUME NEW g \in Handler PROVE WorkIsTrue(serving[g])'
  <2>1. WorkIsTrue(serving'[g])
    BY <1>1 DEF CacheInv
  <2>2. QED BY <2>1 DEF WorkIsTrue
<1>4. \A g \in clean' : Undisturbed(g, serving[g])'
  BY <1>1 DEF Undisturbed
<1>5. QED BY <1>2, <1>3, <1>4 DEF CacheInv

\* While a handler works, no other one runs undisturbed.
LEMMA OnlyOne ==
  ASSUME CacheInv, NEW h \in Handler, serving[h].pc # "idle", NEW g \in clean PROVE g = h
<1>1. SUFFICES ASSUME g # h PROVE FALSE
  OBVIOUS
<1>2. serving[h] = Unused
  BY <1>1 DEF CacheInv, CacheTypeOK, Undisturbed
<1>3. QED BY <1>2 DEF Unused

LEMMA StartKeeps ==
  ASSUME HomeAssumption, CacheInv, NEW h \in Handler, ResyncStarts(h) PROVE CacheInv'
<1> DEFINE s == [Unused EXCEPT !.pc = "team", !.resync = TRUE]
<1>1. s \in Serving /\ s.pc = "team" /\ s.resync /\ s.todo = {} /\ s.on = NoAuthorization
  BY DEF Unused, Serving, Awaits, AsRecord
<1>2. serving' = [serving EXCEPT ![h] = s]
  BY DEF ResyncStarts, Goes
<1> HIDE DEF s
<1>3. WorkIsTrue(s)
  BY <1>1 DEF WorkIsTrue, Underway
<1>4. ASSUME NEW g \in clean' PROVE g = h /\ Undisturbed(h, s)'
  <2>1. g = h /\ Others(h) = {}
    BY DEF ResyncStarts
  <2>2. \A k \in Handler \ {h} : serving'[k] = Unused
    BY <1>2, <2>1 DEF Others, CacheInv, CacheTypeOK
  <2>3. QED BY <1>1, <2>1, <2>2 DEF Undisturbed, Underway
<1>5. /\ UNCHANGED <<record, workspace, call, stale, cached, active, gates, pushed, changes, troubles>>
      /\ clean' \in SUBSET Handler
  BY DEF ResyncStarts, as, local
<1>6. QED
  BY <1>1, <1>2, <1>3, <1>4, <1>5, HandlerMoves DEF CacheInv, CacheTypeOK

LEMMA TeamKeeps ==
  ASSUME HomeAssumption, CacheInv, NEW h \in Handler, TeamLearnt(h) PROVE CacheInv'
<1>1. PICK answer \in {"yes", "no", "failed"} :
         /\ IF answer = "failed" THEN Trouble ELSE NoTrouble /\ answer = InTeam
         /\ active' = IF answer = "yes" THEN "team" ELSE active
         /\ Goes(h, [serving[h] EXCEPT !.pc = "personal", !.team = answer])
  BY DEF TeamLearnt
<1>2. serving[h] \in Serving /\ serving[h].pc = "team" /\ WorkIsTrue(serving[h])
  BY DEF TeamLearnt, Stands, CacheInv, CacheTypeOK
<1>0. PICK s : s = [serving[h] EXCEPT !.pc = "personal", !.team = answer]
  OBVIOUS
<1>3. /\ s \in Serving /\ s.pc = "personal" /\ s.team = answer /\ s.resync = serving[h].resync
      /\ s.todo = serving[h].todo /\ s.kept = serving[h].kept /\ s.on = serving[h].on
  BY <1>0, <1>2 DEF Serving, Awaits
<1>4. serving' = [serving EXCEPT ![h] = s]
  BY <1>0, <1>1 DEF Goes
<1>5. WorkIsTrue(s)
  BY <1>2, <1>3 DEF WorkIsTrue, Underway
<1>6. ASSUME NEW g \in clean' PROVE g = h /\ Undisturbed(h, s)'
  <2>1. answer # "failed" /\ answer = InTeam /\ g \in clean /\ UNCHANGED workspace
    BY <1>1 DEF Trouble, NoTrouble, TeamLearnt, as
  <2>2. g = h
    BY <1>2, <2>1, OnlyOne
  <2>3. Undisturbed(h, serving[h])
    BY <2>1, <2>2 DEF CacheInv
  <2>4. \A k \in Handler \ {h} : serving'[k] = Unused
    BY <1>4, <2>3 DEF Undisturbed, CacheInv, CacheTypeOK
  <2>5. s.resync /\ s.team = InTeam' /\ (s.team = "yes" => active' = "team")
    BY <1>1, <1>2, <1>3, <2>1, <2>3 DEF Undisturbed, InTeam
  <2>6. s.pc \notin {"next"} \cup Underway /\ s.pc # "read" /\ s.pc # "summary"
    BY <1>3 DEF Underway
  <2>7. QED BY <2>2, <2>4, <2>5, <2>6, Zenon DEF Undisturbed
<1>7. UNCHANGED <<record, workspace, call, stale, cached, gates, pushed, changes>>
  BY DEF TeamLearnt, as
<1>8. active' \in Workspace \cup {"none"} /\ troubles' \in Nat /\ clean' \in SUBSET Handler
  BY <1>1 DEF CacheInv, CacheTypeOK, Workspace, Trouble, NoTrouble
<1>9. QED
  BY <1>3, <1>4, <1>5, <1>6, <1>7, <1>8, HandlerMoves DEF CacheInv, CacheTypeOK

LEMMA PersonalKeeps ==
  ASSUME HomeAssumption, CacheInv, NEW h \in Handler, PersonalLearnt(h) PROVE CacheInv'
<1>1. PICK ok \in BOOLEAN :
         /\ IF ok THEN NoTrouble ELSE Trouble
         /\ active' = IF ok /\ serving[h].team # "yes" THEN "personal" ELSE active
  BY DEF PersonalLearnt
<1>2. serving[h] \in Serving /\ serving[h].pc = "personal" /\ WorkIsTrue(serving[h])
  BY DEF PersonalLearnt, Stands, CacheInv, CacheTypeOK
<1>0. PICK s : s = [serving[h] EXCEPT !.pc = "next", !.kept = gates,
                                      !.todo = {m \in Authorization : gates[m] > 0}]
  OBVIOUS
<1>3. /\ s \in Serving /\ s.pc = "next" /\ s.resync = serving[h].resync /\ s.kept = gates
      /\ s.todo = {m \in Authorization : gates[m] > 0} /\ s.on = serving[h].on
  BY <1>0, <1>2 DEF Serving, Awaits, CacheInv, CacheTypeOK
<1>4. serving' = [serving EXCEPT ![h] = s]
  BY <1>0 DEF PersonalLearnt, Goes
<1>5. WorkIsTrue(s)
  BY <1>2, <1>3 DEF WorkIsTrue, Underway, CacheInv
<1>7. UNCHANGED <<record, workspace, call, stale, cached, gates, pushed, changes>>
  BY DEF PersonalLearnt, as
<1>6. ASSUME NEW g \in clean' PROVE g = h /\ Undisturbed(h, s)'
  <2>1. ok /\ g \in clean
    BY <1>1 DEF Trouble, NoTrouble
  <2>2. g = h
    BY <1>2, <2>1, OnlyOne
  <2>3. Undisturbed(h, serving[h])
    BY <2>1, <2>2 DEF CacheInv
  <2>4. \A k \in Handler \ {h} : serving'[k] = Unused
    BY <1>4, <2>3 DEF Undisturbed, CacheInv, CacheTypeOK
  <2>5. s.resync /\ active' = workspace'
    BY <1>1, <1>2, <1>3, <1>7, <2>1, <2>3
      DEF Undisturbed, InTeam, CacheInv, CacheTypeOK, Workspace
  <2>6. s.pc # "personal" /\ s.pc # "read" /\ s.pc # "summary"
    BY <1>3
  <2>7. \A m \in Authorization : gates'[m] > 0 => m \in s.todo
    BY <1>3, <1>7
  <2>8. QED BY <2>2, <2>4, <2>5, <2>6, <2>7, Zenon DEF Undisturbed
<1>8. active' \in Workspace \cup {"none"} /\ troubles' \in Nat /\ clean' \in SUBSET Handler
  BY <1>1 DEF CacheInv, CacheTypeOK, Workspace, Trouble, NoTrouble
<1>9. QED
  BY <1>3, <1>4, <1>5, <1>6, <1>7, <1>8, HandlerMoves DEF CacheInv, CacheTypeOK

LEMMA NextKeeps ==
  ASSUME HomeAssumption, CacheInv, NEW h \in Handler, ResyncNext(h) PROVE CacheInv'
<1>1. serving[h] \in Serving /\ serving[h].pc = "next" /\ WorkIsTrue(serving[h])
  BY DEF ResyncNext, Stands, CacheInv, CacheTypeOK
<1>2. /\ UNCHANGED <<record, workspace, call, stale, cached, active, gates, pushed, changes,
                     troubles, clean>>
  BY DEF ResyncNext, as, local
<1>3. ASSUME NEW g \in clean PROVE g = h /\ Undisturbed(h, serving[h])
  BY <1>1, OnlyOne DEF CacheInv
<1>4. CASE serving[h].todo = {}
  <2>1. serving' = [serving EXCEPT ![h] = Unused]
    BY <1>4 DEF ResyncNext, Goes
  <2>2. Unused \in Serving
    BY DEF Unused, Serving, Awaits, AsRecord
  <2>3. WorkIsTrue(Unused)
    BY DEF WorkIsTrue, Unused, Underway
  <2>4. ASSUME NEW g \in clean' PROVE g = h /\ Undisturbed(h, Unused)'
    <3>1. g = h /\ \A k \in Handler \ {h} : serving'[k] = Unused
      BY <1>2, <1>3, <2>1 DEF Undisturbed, CacheInv, CacheTypeOK
    <3>2. QED BY <3>1 DEF Undisturbed, Unused, Underway
  <2>5. QED
    BY <1>2, <2>1, <2>2, <2>3, <2>4, HandlerMoves DEF CacheInv, CacheTypeOK
<1>5. CASE serving[h].todo # {}
  <2>1. PICK m \in serving[h].todo :
           Goes(h, [serving[h] EXCEPT !.pc = "fetch", !.on = m, !.todo = @ \ {m}])
    BY <1>5 DEF ResyncNext
  <2>0. PICK s : s = [serving[h] EXCEPT !.pc = "fetch", !.on = m, !.todo = @ \ {m}]
    OBVIOUS
  <2>2. /\ s \in Serving /\ s.pc = "fetch" /\ s.resync = serving[h].resync /\ s.on = m
        /\ s.todo = serving[h].todo \ {m} /\ s.kept = serving[h].kept
    BY <1>1, <2>0 DEF Serving, Awaits
  <2>3. serving' = [serving EXCEPT ![h] = s]
    BY <2>0, <2>1 DEF Goes
  <2>8. m \in Authorization
    BY <1>1 DEF Serving
  <2>4. WorkIsTrue(s)
    BY <1>1, <2>2, <2>8 DEF WorkIsTrue, Underway
  <2>5. ASSUME NEW g \in clean' PROVE g = h /\ Undisturbed(h, s)'
    <3>1. g = h /\ Undisturbed(h, serving[h])
      BY <1>2, <1>3
    <3>2. \A k \in Handler \ {h} : serving'[k] = Unused
      BY <2>3, <3>1 DEF Undisturbed, CacheInv, CacheTypeOK
    <3>3. s.resync /\ active = workspace
      BY <1>1, <2>2, <3>1 DEF Undisturbed
    <3>4. ASSUME NEW n \in Authorization, gates[n] > 0, n \notin s.todo, n # s.on
          PROVE  Settled(n)
      <4>1. n \notin serving[h].todo /\ n # NoAuthorization
        BY <2>2, <3>4 DEF HomeAssumption
      <4>2. serving[h].on = NoAuthorization
        BY <1>1 DEF WorkIsTrue, Underway
      <4>3. QED BY <1>1, <3>1, <3>4, <4>1, <4>2 DEF Undisturbed
    <3>5. \A n \in Authorization :
             gates'[n] > 0 /\ n \notin s.todo /\ n # s.on => Settled(n)'
      BY <1>2, <3>4 DEF Settled
    <3>6. s.pc # "personal" /\ s.pc # "read" /\ s.pc # "summary" /\ active' = workspace'
      BY <1>2, <2>2, <3>3
    <3>7. QED BY <3>1, <3>2, <3>3, <3>5, <3>6, Zenon DEF Undisturbed
  <2>6. QED
    BY <1>2, <2>2, <2>3, <2>4, <2>5, HandlerMoves DEF CacheInv, CacheTypeOK
<1>6. QED BY <1>4, <1>5

LEMMA PushKeeps ==
  ASSUME HomeAssumption, CacheInv, NEW h \in Handler, NEW m \in Authorization, PushStarts(h, m)
  PROVE  CacheInv'
<1>0. PICK s : s = [Unused EXCEPT !.pc = "fetch", !.on = m, !.kept[m] = pushed[m] + 1]
  OBVIOUS
<1>1. pushed[m] \in Nat /\ Unused.kept = [n \in Authorization |-> 0]
  BY DEF CacheInv, CacheTypeOK, Unused
<1>2. /\ s \in Serving /\ s.pc = "fetch" /\ s.on = m /\ s.todo = {}
      /\ s.kept[m] = pushed[m] + 1
  <2> DEFINE k == [Unused.kept EXCEPT ![m] = pushed[m] + 1]
  <2>1. k \in [Authorization -> Nat] /\ k[m] = pushed[m] + 1
    BY <1>1
  <2>2. s = [Unused EXCEPT !.pc = "fetch", !.on = m, !.kept = k]
    BY <1>0 DEF Unused
  <2> HIDE DEF k
  <2>3. QED BY <2>1, <2>2 DEF Unused, Serving, Awaits, AsRecord
<1>3. serving' = [serving EXCEPT ![h] = s] /\ record[m] # "absent"
  BY <1>0 DEF PushStarts, Goes
<1>4. WorkIsTrue(s)
  BY <1>1, <1>2, <1>3 DEF WorkIsTrue, Underway
<1>5. /\ UNCHANGED <<record, workspace, call, stale, cached, active, gates, troubles>>
      /\ clean' = {} /\ changes' \in Nat /\ pushed' \in [Authorization -> Nat]
  BY <1>1 DEF PushStarts, as, Interferes, CacheInv, CacheTypeOK
<1>6. QED
  BY <1>2, <1>3, <1>4, <1>5, HandlerMoves DEF CacheInv, CacheTypeOK

LEMMA ReadKeeps ==
  ASSUME HomeAssumption, CacheInv, NEW h \in Handler, AsReads(h) PROVE CacheInv'
<1>1. serving[h] \in Serving /\ serving[h].pc = "fetch" /\ WorkIsTrue(serving[h])
  BY DEF AsReads, Stands, CacheInv, CacheTypeOK
<1> DEFINE on == serving[h].on
<1>2. on \in Authorization /\ record[on] \in AsRecord /\ record[on] # "absent"
  BY <1>1 DEF WorkIsTrue, Underway, CacheInv, CacheTypeOK
<1>3. PICK read \in {record[on], "failed"} :
         /\ Goes(h, [serving[h] EXCEPT !.pc = "read", !.read = read])
         /\ (NoTrouble /\ read = record[on]) \/ Trouble
  BY DEF AsReads
<1>4. PICK s : s = [serving[h] EXCEPT !.pc = "read", !.read = read]
  OBVIOUS
<1>5. /\ s \in Serving /\ s.pc = "read" /\ s.resync = serving[h].resync /\ s.on = on
      /\ s.todo = serving[h].todo /\ s.kept = serving[h].kept /\ s.read = read
  BY <1>1, <1>2, <1>4 DEF Serving, Awaits
<1>6. serving' = [serving EXCEPT ![h] = s]
  BY <1>3, <1>4 DEF Goes
<1>7. WorkIsTrue(s)
  BY <1>1, <1>2, <1>5 DEF WorkIsTrue, Underway
<1>8. UNCHANGED <<record, workspace, call, stale, cached, active, gates, pushed, changes>>
  BY DEF AsReads, as, local
<1>9. ASSUME NEW g \in clean' PROVE g = h /\ Undisturbed(h, s)'
  <2>1. g \in clean /\ read = record[on]
    BY <1>3 DEF Trouble, NoTrouble
  <2>2. g = h /\ Undisturbed(h, serving[h])
    BY <1>1, <2>1, OnlyOne DEF CacheInv
  <2>3. \A k \in Handler \ {h} : serving'[k] = Unused
    BY <1>6, <2>2 DEF Undisturbed, CacheInv, CacheTypeOK
  <2>4. /\ s.resync /\ active' = workspace' /\ s.pc # "personal" /\ s.pc # "summary"
        /\ s.read = record'[s.on]
    BY <1>1, <1>5, <1>8, <2>1, <2>2 DEF Undisturbed, Underway
  <2>5. \A m \in Authorization :
           gates'[m] > 0 /\ m \notin s.todo /\ m # s.on => Settled(m)'
    BY <1>1, <1>5, <1>8, <2>2 DEF Undisturbed, Underway, Settled
  <2>6. QED BY <2>2, <2>3, <2>4, <2>5, Zenon DEF Undisturbed
<1>10. troubles' \in Nat /\ clean' \in SUBSET Handler
  BY <1>3 DEF CacheInv, CacheTypeOK, Trouble, NoTrouble
<1>11. QED
  BY <1>5, <1>6, <1>7, <1>8, <1>9, <1>10, HandlerMoves DEF CacheInv, CacheTypeOK

LEMMA ServedKeeps ==
  ASSUME HomeAssumption, CacheInv, NEW h \in Handler, Served(h) PROVE CacheInv'
<1>1. serving[h] \in Serving /\ serving[h].pc = "read" /\ WorkIsTrue(serving[h])
  BY DEF Served, Stands, CacheInv, CacheTypeOK
<1>2. PICK s : s = [serving[h] EXCEPT !.pc = "summary"]
  OBVIOUS
<1>3. /\ s \in Serving /\ s.pc = "summary" /\ s.resync = serving[h].resync
      /\ s.on = serving[h].on /\ s.todo = serving[h].todo /\ s.kept = serving[h].kept
  BY <1>1, <1>2 DEF Serving, Awaits
<1>4. serving' = [serving EXCEPT ![h] = s]
  BY <1>2 DEF Served, Moves, Goes
<1>5. WorkIsTrue(s)
  BY <1>1, <1>3 DEF WorkIsTrue, Underway
<1>6. UNCHANGED <<record, workspace, call, stale, cached, active, gates, pushed, changes,
                  troubles, clean>>
  BY DEF Served, as, local
<1>7. ASSUME NEW g \in clean' PROVE g = h /\ Undisturbed(h, s)'
  <2>1. g = h /\ Undisturbed(h, serving[h])
    BY <1>1, <1>6, OnlyOne DEF CacheInv
  <2>2. \A k \in Handler \ {h} : serving'[k] = Unused
    BY <1>4, <2>1 DEF Undisturbed, CacheInv, CacheTypeOK
  <2>3. /\ s.resync /\ active' = workspace' /\ s.pc # "personal" /\ s.pc # "read"
        /\ ~ Gone(record'[s.on])
    BY <1>1, <1>3, <1>6, <2>1 DEF Undisturbed, Underway, Served
  <2>4. \A m \in Authorization :
           gates'[m] > 0 /\ m \notin s.todo /\ m # s.on => Settled(m)'
    BY <1>1, <1>3, <1>6, <2>1 DEF Undisturbed, Underway, Settled
  <2>5. QED BY <2>1, <2>2, <2>3, <2>4, Zenon DEF Undisturbed
<1>8. QED
  BY <1>3, <1>4, <1>5, <1>6, <1>7, HandlerMoves DEF CacheInv, CacheTypeOK

\* Where a handler is left that is done with a mandate.
Left(h, s) ==
  /\ s \in Serving /\ serving' = [serving EXCEPT ![h] = s]
  /\ s.todo \subseteq serving[h].todo
  /\ \/ s.pc = "idle" /\ ~ serving[h].resync
     \/ /\ s.pc = "next" /\ serving[h].resync /\ s.resync /\ s.on = NoAuthorization
        /\ s.todo = serving[h].todo

LEMMA DoneLeaves ==
  ASSUME CacheInv, NEW h \in Handler, Done(h) PROVE \E s : Left(h, s) /\ WorkIsTrue(s)
<1>1. serving[h] \in Serving /\ WorkIsTrue(serving[h])
  BY DEF CacheInv, CacheTypeOK
<1>2. CASE serving[h].resync
  <2>1. PICK s : s = [serving[h] EXCEPT !.pc = "next", !.on = NoAuthorization]
    OBVIOUS
  <2>2. /\ s \in Serving /\ s.pc = "next" /\ s.resync = serving[h].resync
        /\ s.on = NoAuthorization /\ s.todo = serving[h].todo /\ s.kept = serving[h].kept
    BY <1>1, <2>1 DEF Serving, Awaits
  <2>3. serving' = [serving EXCEPT ![h] = s]
    BY <1>2, <2>1 DEF Done, Goes
  <2>4. WorkIsTrue(s)
    BY <1>1, <2>2 DEF WorkIsTrue, Underway
  <2>5. QED BY <1>2, <2>2, <2>3, <2>4 DEF Left
<1>3. CASE ~ serving[h].resync
  <2>1. Unused \in Serving /\ Unused.pc = "idle" /\ Unused.todo = {}
    BY DEF Unused, Serving, Awaits, AsRecord
  <2>2. serving' = [serving EXCEPT ![h] = Unused]
    BY <1>3 DEF Done, Goes
  <2>3. WorkIsTrue(Unused)
    BY DEF WorkIsTrue, Unused, Underway
  <2>4. Left(h, Unused)
    BY <1>3, <2>1, <2>2 DEF Left
  <2>5. QED BY <2>3, <2>4
<1>4. QED BY <1>2, <1>3

\* A resync is done with one more mandate: that one is settled now, or has no
\* gate content any more.
LEMMA DoneIsSettled ==
  ASSUME HomeAssumption, CacheInv, NEW h \in clean, serving[h].pc \in {"read", "summary"},
         NEW s, Left(h, s), UNCHANGED <<record, workspace, active>>,
         gates' \in [Authorization -> Nat], NEW on, on = serving[h].on,
         \A m \in Authorization \ {on} : gates'[m] = gates[m] /\ cached'[m] = cached[m],
         gates'[on] > 0 => Settled(on)'
  PROVE  Undisturbed(h, s)'
<1>0. h \in Handler
  BY DEF CacheInv, CacheTypeOK
<1>1. Undisturbed(h, serving[h]) /\ serving[h].resync
  BY DEF CacheInv, Undisturbed
<1>2. \A k \in Handler \ {h} : serving'[k] = Unused
  BY <1>0, <1>1 DEF Left, Undisturbed, CacheInv, CacheTypeOK
<1>3. /\ s.pc = "next" /\ s.resync /\ s.on = NoAuthorization /\ s.todo = serving[h].todo
  BY <1>1 DEF Left
<1>4. active' = workspace' /\ s.pc # "personal" /\ s.pc # "read" /\ s.pc # "summary"
  BY <1>1, <1>3 DEF Undisturbed, Underway
<1>5. ASSUME NEW m \in Authorization, gates'[m] > 0, m \notin s.todo PROVE Settled(m)'
  <2>1. CASE m = on
    BY <1>5, <2>1
  <2>2. CASE m # on
    <3>1. Settled(m)
      BY <1>1, <1>3, <1>5, <2>2 DEF Undisturbed, Underway
    <3>2. QED BY <2>2, <3>1 DEF Settled
  <2>3. QED BY <2>1, <2>2
<1>6. QED BY <1>2, <1>3, <1>4, <1>5, Zenon DEF Undisturbed

LEMMA PurgeKeeps ==
  ASSUME HomeAssumption, CacheInv, NEW h \in Handler, NotServed(h) PROVE CacheInv'
<1>1. serving[h] \in Serving /\ serving[h].pc = "read" /\ WorkIsTrue(serving[h])
  BY DEF NotServed, Stands, CacheInv, CacheTypeOK
<1>0. PICK m : m = serving[h].on
  OBVIOUS
<1>2. m \in Authorization
  BY <1>0, <1>1 DEF WorkIsTrue, Underway
<1>3. PICK s : Left(h, s) /\ WorkIsTrue(s)
  BY DoneLeaves DEF NotServed
<1>4. UNCHANGED <<record, workspace, call, stale, active, pushed, changes, troubles, clean>>
  BY DEF NotServed, as
<1>5. /\ cached' \in [Authorization -> Group \cup {"out"}]
      /\ gates' \in [Authorization -> Nat]
      /\ \A n \in Authorization \ {m} : gates'[n] = gates[n] /\ cached'[n] = cached[n]
      /\ serving[h].resync => gates'[m] = 0
      /\ \A n \in Authorization : gates'[n] > 0 => gates[n] > 0
  BY <1>0, <1>2 DEF NotServed, CacheInv, CacheTypeOK
<1>6. ASSUME NEW g \in clean' PROVE g = h /\ Undisturbed(h, s)'
  <2>1. g = h /\ h \in clean /\ serving[h].resync
    BY <1>1, <1>4, OnlyOne DEF CacheInv, Undisturbed
  <2>2. ~ (gates'[m] > 0)
    BY <1>5, <2>1
  <2>3. QED BY <1>0, <1>1, <1>3, <1>4, <1>5, <2>1, <2>2, DoneIsSettled
<1>7. QED
  BY <1>3, <1>4, <1>5, <1>6, HandlerMoves DEF Left, CacheInv, CacheTypeOK

LEMMA FailedKeeps ==
  ASSUME HomeAssumption, CacheInv, NEW h \in Handler, ReadFailed(h) PROVE CacheInv'
<1>1. serving[h] \in Serving /\ serving[h].pc = "read" /\ WorkIsTrue(serving[h])
  BY DEF ReadFailed, Stands, CacheInv, CacheTypeOK
<1>2. serving[h].on \in Authorization /\ serving[h].read = "failed"
  BY <1>1 DEF WorkIsTrue, Underway, ReadFailed
<1>3. PICK s : Left(h, s) /\ WorkIsTrue(s)
  BY DoneLeaves DEF ReadFailed
<1>4. UNCHANGED <<record, workspace, call, stale, cached, active, gates, pushed, changes,
                  troubles, clean>>
  BY DEF ReadFailed, as, local
<1>5. ASSUME NEW g \in clean' PROVE g = h /\ Undisturbed(h, s)'
  <2>1. g = h /\ Undisturbed(h, serving[h])
    BY <1>1, <1>4, OnlyOne DEF CacheInv
  <2>2. record[serving[h].on] = "failed" /\ record[serving[h].on] \in AsRecord
    BY <1>1, <1>2, <2>1 DEF Undisturbed, CacheInv, CacheTypeOK
  <2>3. QED BY <2>2 DEF AsRecord
<1>6. QED
  BY <1>3, <1>4, <1>5, HandlerMoves DEF Left, CacheInv, CacheTypeOK

LEMMA CachesKeeps ==
  ASSUME HomeAssumption, CacheInv, NEW h \in Handler, Caches(h) PROVE CacheInv'
<1>1. serving[h] \in Serving /\ serving[h].pc = "summary" /\ WorkIsTrue(serving[h])
  BY DEF Caches, Stands, CacheInv, CacheTypeOK
<1>0. PICK m : m = serving[h].on
  OBVIOUS
<1>2. /\ m \in Authorization /\ record[m] # "absent" /\ Home[m] \in Workspace
      /\ serving[h].kept[m] \in Nat
  BY <1>0, <1>1 DEF WorkIsTrue, Underway, HomeAssumption, Serving
<1>3. PICK s : Left(h, s) /\ WorkIsTrue(s)
  BY DoneLeaves DEF Caches
<1>4. UNCHANGED <<record, workspace, call, stale, active, pushed, changes>>
  BY DEF Caches, as
<1>5. PICK group \in {Home[m], "unknown"} :
         /\ cached' = [cached EXCEPT ![m] = group]
         /\ (group = Home[m] /\ NoTrouble) \/ Trouble
  BY <1>0 DEF Caches
<1>6. /\ cached' \in [Authorization -> Group \cup {"out"}]
      /\ cached'[m] = group /\ \A n \in Authorization \ {m} : cached'[n] = cached[n]
  BY <1>2, <1>5 DEF Group, CacheInv, CacheTypeOK
<1>7. /\ gates' \in [Authorization -> Nat]
      /\ \A n \in Authorization \ {m} : gates'[n] = gates[n]
  BY <1>0, <1>2 DEF Caches, CacheInv, CacheTypeOK
<1>8. \A n \in Authorization : gates'[n] > 0 => record[n] # "absent"
  BY <1>2, <1>7 DEF CacheInv
<1>9. ASSUME NEW g \in clean' PROVE g = h /\ Undisturbed(h, s)'
  <2>1. g \in clean /\ group = Home[m]
    BY <1>5 DEF Trouble, NoTrouble
  <2>2. g = h /\ h \in clean /\ Undisturbed(h, serving[h])
    BY <1>1, <2>1, OnlyOne DEF CacheInv
  <2>3. Settled(m)'
    BY <1>0, <1>1, <1>2, <1>4, <1>6, <2>1, <2>2 DEF Undisturbed, Settled
  <2>4. QED BY <1>0, <1>1, <1>3, <1>4, <1>6, <1>7, <2>2, <2>3, DoneIsSettled
<1>10. troubles' \in Nat /\ clean' \in SUBSET Handler
  BY <1>5 DEF CacheInv, CacheTypeOK, Trouble, NoTrouble
<1>11. QED
  BY <1>3, <1>4, <1>6, <1>7, <1>8, <1>9, <1>10, HandlerMoves DEF Left, CacheInv,
      CacheTypeOK

\* The AS and the tool calls: no handler moves.
LEMMA NoHandlerMoves ==
  ASSUME HomeAssumption, CacheInv, CacheTypeOK', UNCHANGED <<serving, gates>>,
         \A m \in Authorization :
           /\ record[m] # "absent" => record'[m] # "absent"
           /\ record[m] \in {"revoked", "deleted"} => record'[m] = record[m],
         \A h \in clean' : Undisturbed(h, serving[h])'
  PROVE  CacheInv'
<1>1. ASSUME NEW h \in Handler PROVE WorkIsTrue(serving[h])'
  <2>1. WorkIsTrue(serving[h]) /\ serving[h] \in Serving
    BY DEF CacheInv, CacheTypeOK
  <2>2. serving[h].todo \subseteq Authorization
    BY <2>1 DEF Serving
  <2>3. QED BY <2>1, <2>2 DEF WorkIsTrue, Underway
<1>2. QED BY <1>1 DEF CacheInv

LEMMA ListingKeeps ==
  ASSUME HomeAssumption, CacheInv, CallReads PROVE CacheInv'
<1>1. /\ UNCHANGED <<record, workspace, active, gates, pushed, serving, stale, clean, changes,
                     troubles>>
      /\ cached' = [m \in Authorization |-> IF m \in Dropped THEN "out" ELSE cached[m]]
      /\ call' \in Authorization \cup {NoAuthorization}
  BY DEF CallReads, as, Offered
<1>2. CacheTypeOK'
  BY <1>1 DEF CacheInv, CacheTypeOK
<1>3. ASSUME NEW h \in clean' PROVE Undisturbed(h, serving[h])'
  <2>1. Undisturbed(h, serving[h])
    BY <1>1, <1>3 DEF CacheInv
  <2>2. ASSUME NEW m \in Authorization, Settled(m), active = workspace PROVE Settled(m)'
    <3>1. /\ cached'[m] \in {"out", cached[m]} /\ (m \notin Dropped => cached'[m] = cached[m])
          /\ UNCHANGED <<record, workspace>>
      BY <1>1
    <3>2. Home[m] # "unknown" /\ Home[m] # "out"
      BY DEF HomeAssumption, Workspace
    <3>3. ASSUME record[m] = "live", Home[m] = workspace PROVE m \notin Dropped
      BY <2>2, <3>3 DEF Settled, Dropped, Foreign
    <3>4. QED BY <2>2, <3>1, <3>2, <3>3 DEF Settled
  <2>3. QED BY <1>1, <2>1, <2>2 DEF Undisturbed, InTeam
<1>4. QED BY <1>1, <1>2, <1>3, NoHandlerMoves

\* Nothing the AS does leaves a resync undisturbed, nor does a refusal.
LEMMA ElsewhereKeeps ==
  ASSUME HomeAssumption, CacheInv,
         CallRefused \/ CallPasses \/ Switch \/ \E m \in Authorization : AsChanges(m)
  PROVE  CacheInv'
<1>1. CASE CallRefused
  <2>1. CacheTypeOK' /\ clean' = {} /\ UNCHANGED <<serving, gates, record>>
    BY <1>1 DEF CallRefused, as, CacheInv, CacheTypeOK
  <2>2. QED BY <2>1, NoHandlerMoves
<1>2. CASE CallPasses
  <2>1. CacheTypeOK' /\ UNCHANGED <<serving, gates, record, clean, active, workspace, cached>>
    BY <1>2 DEF CallPasses, as, local, CacheInv, CacheTypeOK
  <2>2. \A h \in clean' : Undisturbed(h, serving[h])'
    BY <2>1 DEF CacheInv, Undisturbed, Settled, InTeam
  <2>3. QED BY <2>1, <2>2, NoHandlerMoves
<1>3. CASE Switch
  <2>1. CacheTypeOK' /\ clean' = {} /\ UNCHANGED <<serving, gates, record>>
    BY <1>3 DEF Switch, local, Interferes, CacheInv, CacheTypeOK
  <2>2. QED BY <2>1, NoHandlerMoves
<1>4. ASSUME NEW m \in Authorization, AsChanges(m) PROVE CacheInv'
  <2>1. /\ clean' = {} /\ changes' \in Nat
        /\ UNCHANGED <<workspace, cached, active, gates, pushed, serving, call, stale, troubles>>
    BY <1>4 DEF AsChanges, local, Interferes, CacheInv, CacheTypeOK
  <2>2. PICK r \in {"live", "expired", "revoked", "deleted"} :
           record' = [record EXCEPT ![m] = r] /\ record[m] \in {"absent", "live"}
    BY <1>4 DEF AsChanges
  <2>3. /\ record' \in [Authorization -> AsRecord]
        /\ \A n \in Authorization :
             /\ record[n] # "absent" => record'[n] # "absent"
             /\ record[n] \in {"revoked", "deleted"} => record'[n] = record[n]
    BY <2>2 DEF AsRecord, CacheInv, CacheTypeOK
  <2>4. CacheTypeOK'
    BY <2>1, <2>3 DEF CacheInv, CacheTypeOK
  <2>5. QED BY <2>1, <2>3, <2>4, NoHandlerMoves
<1>5. QED BY <1>1, <1>2, <1>3, <1>4

LEMMA CacheStep == ASSUME HomeAssumption, CacheInv, [CacheNext]_cacheVars PROVE CacheInv'
<1>1. ASSUME UNCHANGED cacheVars PROVE CacheInv'
  BY <1>1 DEF cacheVars, CacheInv, CacheTypeOK, WorkIsTrue, Undisturbed, Settled, InTeam
<1>2. ASSUME NEW h \in Handler,
             \/ ResyncStarts(h) \/ TeamLearnt(h) \/ PersonalLearnt(h) \/ ResyncNext(h)
             \/ AsReads(h) \/ NotServed(h) \/ ReadFailed(h) \/ Served(h) \/ Caches(h)
      PROVE  CacheInv'
  BY <1>2, StartKeeps, TeamKeeps, PersonalKeeps, NextKeeps, ReadKeeps, PurgeKeeps,
     FailedKeeps, ServedKeeps, CachesKeeps
<1>3. ASSUME NEW m \in Authorization, NEW h \in Handler, PushStarts(h, m) PROVE CacheInv'
  BY <1>3, PushKeeps
<1>4. QED BY <1>1, <1>2, <1>3, ListingKeeps, ElsewhereKeeps DEF CacheNext

-----------------------------------------------------------------------------
\* What a handler does is true of the mandates, for any number of both.
THEOREM CacheIsSound == ASSUME HomeAssumption PROVE CacheSpec => []CacheInv
<1>1. CacheInit => CacheInv
  BY InitIsSound
<1>2. CacheInv /\ [CacheNext]_cacheVars => CacheInv'
  BY CacheStep
<1>3. QED BY <1>1, <1>2, PTL DEF CacheSpec

\* Only a handler that works on a mandate writes its gate content.
LEMMA GatesStep ==
  ASSUME HomeAssumption, CacheInv, [CacheNext]_cacheVars PROVE PurgesWhatIsGone
<1>1. SUFFICES ASSUME NEW m \in Authorization, gates[m] > 0, gates'[m] = 0
               PROVE  record[m] \in {"revoked", "deleted"}
  BY DEF PurgesWhatIsGone
<1>2. gates' # gates
  BY <1>1
<1>3. PICK h \in Handler : NotServed(h) \/ Caches(h)
  BY <1>2 DEF CacheNext, cacheVars, CallReads, CallRefused, CallPasses, Switch,
     AsChanges, local, PushStarts, ResyncStarts, TeamLearnt, PersonalLearnt,
     ResyncNext, AsReads, ReadFailed, Served
<1>4. /\ serving[h] \in Serving /\ WorkIsTrue(serving[h]) /\ serving[h].pc \in {"read", "summary"}
      /\ gates \in [Authorization -> Nat]
  BY <1>3 DEF NotServed, Caches, Stands, CacheInv, CacheTypeOK
<1>5. CASE NotServed(h)
  <2>1. serving[h].on = m /\ serving[h].pc = "read" /\ Gone(serving[h].read)
    BY <1>1, <1>4, <1>5 DEF NotServed, Stands
  <2>2. QED BY <1>4, <2>1 DEF WorkIsTrue, Gone
<1>6. CASE Caches(h)
  <2>1. serving[h].on \in Authorization /\ serving[h].kept[serving[h].on] > 0
    BY <1>4 DEF WorkIsTrue, Underway
  <2>2. gates' = gates \/ gates' = [gates EXCEPT ![serving[h].on] = serving[h].kept[serving[h].on]]
    BY <1>6 DEF Caches
  <2>3. QED BY <1>1, <1>2, <1>4, <2>1, <2>2
<1>7. QED BY <1>3, <1>5, <1>6

\* Gate content is deleted only after the mandate has ended for good
\* (/internal/resync-gates), whatever fails, whoever interferes, for any number
\* of mandates and of requests served at once.
THEOREM GatesOutliveFailures == ASSUME HomeAssumption PROVE CacheSpec => PurgeOnlyIfGone
<1>1. CacheInv /\ [CacheNext]_cacheVars => [PurgesWhatIsGone]_cacheVars
  BY GatesStep
<1>2. QED BY <1>1, CacheIsSound, PTL DEF CacheSpec, PurgeOnlyIfGone

\* A resync ends when nothing is left to do.
LEMMA EndsWhenDone ==
  ASSUME CacheInv, [CacheNext]_cacheVars, NEW h \in Handler, ResyncEnds(h)
  PROVE  serving[h].todo = {}
<1>1. /\ serving[h].pc = "next" /\ serving'[h].pc = "idle" /\ serving' # serving
      /\ serving \in [Handler -> Serving]
  BY DEF ResyncEnds, Stands, Unused, CacheInv, CacheTypeOK
<1>2. ASSUME NEW g \in Handler, NEW s, Goes(g, s), serving[g].pc # "next" \/ s.pc # "idle"
      PROVE  FALSE
  BY <1>1, <1>2 DEF Goes
<1>3. ASSUME NEW g \in Handler, ResyncStarts(g) PROVE FALSE
  <2>1. serving[g].pc # "next"
    BY <1>3 DEF ResyncStarts, Unused
  <2>2. QED BY <1>2, <1>3, <2>1 DEF ResyncStarts
<1>4. ASSUME NEW g \in Handler, NEW m \in Authorization, PushStarts(g, m) PROVE FALSE
  <2>1. serving[g].pc # "next"
    BY <1>4 DEF PushStarts, Unused
  <2>2. QED BY <1>2, <1>4, <2>1 DEF PushStarts
<1>5. ASSUME NEW g \in Handler,
             \/ TeamLearnt(g) \/ PersonalLearnt(g) \/ AsReads(g) \/ NotServed(g) \/ ReadFailed(g)
             \/ Served(g) \/ Caches(g)
      PROVE  FALSE
  <2>1. serving[g].pc # "next" /\ \E s : Goes(g, s)
    BY <1>5 DEF TeamLearnt, PersonalLearnt, AsReads, NotServed, ReadFailed, Served,
       Caches, Done, Moves, Stands
  <2>2. QED BY <1>2, <2>1
<1>6. ASSUME CallReads \/ CallRefused \/ CallPasses \/ Switch
             \/ (\E m \in Authorization : AsChanges(m)) \/ UNCHANGED cacheVars
      PROVE  FALSE
  BY <1>1, <1>6 DEF CallReads, CallRefused, CallPasses, Switch, AsChanges, local,
      cacheVars
<1>7. PICK g \in Handler : ResyncNext(g)
  BY <1>3, <1>4, <1>5, <1>6 DEF CacheNext
<1>8. g = h
  <2>1. serving' # serving /\ \E s : Goes(g, s)
    BY <1>1, <1>7 DEF ResyncNext
  <2>2. QED BY <1>1, <2>1 DEF Goes
<1>9. QED
  <2>1. ASSUME NEW m, Goes(h, [serving[h] EXCEPT !.pc = "fetch", !.on = m, !.todo = @ \ {m}])
        PROVE  FALSE
    <3>1. [serving[h] EXCEPT !.pc = "fetch", !.on = m, !.todo = @ \ {m}].pc = "fetch"
      BY <1>1 DEF Serving
    <3>2. QED BY <1>2, <2>1, <3>1
  <2>2. QED BY <1>7, <1>8, <2>1 DEF ResyncNext

\* A resync nothing interferes with leaves on offer exactly the mandates that
\* are live, of the active workspace and with gate content, for any number of
\* them and of requests served at once.
THEOREM ResyncIsExact == ASSUME HomeAssumption PROVE CacheSpec => CleanResyncIsExact
<1>1. ASSUME CacheInv, [CacheNext]_cacheVars PROVE EndsExactly
  <2>1. SUFFICES ASSUME NEW h \in clean, ResyncEnds(h)
                 PROVE  Offered = {m \in Authorization : gates[m] > 0 /\ record[m] = "live"
                                                           /\ Home[m] = workspace}
    BY DEF EndsExactly
  <2>2. h \in Handler /\ Undisturbed(h, serving[h]) /\ WorkIsTrue(serving[h])
    BY <1>1 DEF CacheInv, CacheTypeOK
  <2>3. serving[h].todo = {} /\ serving[h].on = NoAuthorization /\ active = workspace
    BY <1>1, <2>1, <2>2, EndsWhenDone DEF ResyncEnds, Stands, WorkIsTrue, Underway,
        Undisturbed
  <2>4. \A m \in Authorization : gates[m] > 0 => Settled(m)
    BY <2>1, <2>2, <2>3 DEF Undisturbed, HomeAssumption, ResyncEnds, Stands
  <2>5. ASSUME NEW m \in Authorization, gates[m] > 0
        PROVE  (cached[m] # "out" /\ m \notin Dropped) <=> (record[m] = "live" /\ Home[m] = workspace)
    <3>1. Home[m] \in Workspace /\ record[m] \in AsRecord /\ active \in Workspace
      BY <1>1, <2>3 DEF HomeAssumption, CacheInv, CacheTypeOK
    <3>2. QED
      BY <2>3, <2>4, <2>5, <3>1 DEF Settled, Dropped, Foreign, Gone, Workspace, AsRecord
  <2>6. QED BY <2>5 DEF Offered
<1>2. CacheInv /\ [CacheNext]_cacheVars => [EndsExactly]_cacheVars
  BY <1>1
<1>3. QED BY <1>2, CacheIsSound, PTL DEF CacheSpec, CleanResyncIsExact
=============================================================================
