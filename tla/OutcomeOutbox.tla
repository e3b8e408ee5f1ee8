--------------------------- MODULE OutcomeOutbox ---------------------------
(* How the agent learns that a proposal was rejected or sent back           *)
(* (outcome-outbox.ts, pollRejectedOutcomes() in http.ts): a poll queues    *)
(* the outcome, the reply to the next tool call carries it.  Persistence is *)
(* that of EncryptedStores with one key: memory and file hold every row,    *)
(* and whoever persists writes the rows of its own memory.                  *)
EXTENDS FiniteSets, Integers

CONSTANTS Servers,      \* MCP servers on one data directory
          Proposals,
          Here,         \* those with a local submission record
          MaxAge,       \* OUTCOME_MAX_AGE_MS
          MaxNow, MaxRestarts, MaxLost  \* bounds: clock, restarts, lost replies

OutboxAssumption ==
    /\ Here \subseteq Proposals
    /\ {MaxAge, MaxNow, MaxRestarts, MaxLost} \subseteq Nat

VARIABLES now,
          decided,      \* at the AS: when the person decided, or Never
          box, disk,    \* entries in memory and in outcome-outbox.enc.json
          session,      \* per process: signed in, so the poll gets its list
          admitted,     \* per process: outcomes a poll is resolving the name of
          reply,        \* per process: outcomes attached to replies under way
          told,         \* how often the agent has read the outcome (history)
          lost,         \* outcomes whose reply never arrived (history)
          restarts, losses

outboxVars == <<now, decided, box, disk, session, admitted, reply, told, lost,
                restarts, losses>>
stores == <<box, disk>>

Never == -1
Empty == [x \in Proposals |-> "none"]

OutboxInit ==
    /\ now = 0 /\ decided = [x \in Proposals |-> Never]
    /\ box = [p \in Servers |-> Empty] /\ disk = Empty
    /\ session = [p \in Servers |-> FALSE]
    /\ admitted = [p \in Servers |-> {}] /\ reply = [p \in Servers |-> {}]
    /\ told = [x \in Proposals |-> 0] /\ lost = {}
    /\ restarts = 0 /\ losses = 0

(* prune() keeps what outcomeEntryFor() admits: the decision's own time     *)
(* decides both.                                                            *)
Lapsed(x) == now - decided[x] > MaxAge
Pruned(rows) == [x \in Proposals |-> IF Lapsed(x) THEN "none" ELSE rows[x]]

Decide(x) ==            \* at the Authority Server
    /\ decided[x] = Never
    /\ decided' = [decided EXCEPT ![x] = now]
    /\ UNCHANGED <<now, stores, session, admitted, reply, told, lost>>
    /\ UNCHANGED <<restarts, losses>>

(* /internal/configure: the session, and setVaultKey(). *)
Configure(p) ==
    /\ session' = [session EXCEPT ![p] = TRUE]
    /\ box' = [box EXCEPT ![p] = Pruned(disk)]
    /\ UNCHANGED <<now, decided, disk, admitted, reply, told, lost>>
    /\ UNCHANGED <<restarts, losses>>

SessionEnds(p) ==       \* /internal/clear-session; the vault key stays
    /\ session[p]
    /\ session' = [session EXCEPT ![p] = FALSE]
    /\ UNCHANGED <<now, decided, stores, admitted, reply, told, lost>>
    /\ UNCHANGED <<restarts, losses>>

Admitted(x) == decided[x] # Never /\ x \in Here /\ ~Lapsed(x)

(* A poll, of several that may overlap, passes its first check and awaits   *)
(* the name of the person and the text of the note.                         *)
PollAdmits(p, x) ==
    /\ session[p] /\ Admitted(x)
    /\ admitted' = [admitted EXCEPT ![p] = @ \cup {x}]
    /\ UNCHANGED <<now, decided, stores, session, reply, told, lost>>
    /\ UNCHANGED <<restarts, losses>>

RecordAnyhow(p, x) ==
    /\ box' = [box EXCEPT ![p] = Pruned([@ EXCEPT ![x] = "new"])]
    /\ disk' = box'[p]

RecordIfNew(p, x) ==
    IF box[p][x] # "none" THEN UNCHANGED stores
    ELSE /\ box' = [box EXCEPT ![p] = Pruned([@ EXCEPT ![x] = "new"])]
         /\ disk' = box'[p]

(* After the awaits: the second check and recordIfNew().  Another poll may  *)
(* still be resolving the same outcome.                                     *)
PollRecords(p, x) ==
    /\ x \in admitted[p]
    /\ IF Admitted(x) THEN RecordIfNew(p, x) ELSE UNCHANGED stores
    /\ \/ admitted' = [admitted EXCEPT ![p] = @ \ {x}]
       \/ UNCHANGED admitted
    /\ UNCHANGED <<now, decided, session, reply, told, lost, restarts, losses>>

PollFails(p) ==         \* the poll's catch: the outcomes wait for the next one
    /\ admitted[p] # {} /\ losses < MaxLost
    /\ admitted' = [admitted EXCEPT ![p] = {}]
    /\ losses' = losses + 1
    /\ UNCHANGED <<now, decided, stores, session, reply, told, lost, restarts>>

Undelivered(p) == {x \in Proposals : box[p][x] = "new"}
MarkDelivered(p) ==
    /\ box' = [box EXCEPT ![p] = [x \in Proposals |->
                  IF x \in Undelivered(p) THEN "told" ELSE @[x]]]
    /\ disk' = box'[p]

ReplyWithoutContent(p) ==
    /\ Undelivered(p) # {}
    /\ MarkDelivered(p)
    /\ UNCHANGED <<now, decided, session, admitted, reply, told, lost>>
    /\ UNCHANGED <<restarts, losses>>

(* wrapWithOutcomeOutbox(): the reply of any tool, also that the gateway is *)
(* locked, takes along what is undelivered.                                 *)
ReplyCarries(p) ==
    /\ Undelivered(p) # {}
    /\ MarkDelivered(p)
    /\ reply' = [reply EXCEPT ![p] = @ \cup Undelivered(p)]
    /\ UNCHANGED <<now, decided, session, admitted, told, lost>>
    /\ UNCHANGED <<restarts, losses>>

ReplyArrives(p) ==
    /\ reply[p] # {}
    /\ told' = [x \in Proposals |-> told[x] + IF x \in reply[p] THEN 1 ELSE 0]
    /\ reply' = [reply EXCEPT ![p] = {}]
    /\ UNCHANGED <<now, decided, stores, session, admitted, lost>>
    /\ UNCHANGED <<restarts, losses>>

ReplyLost(p) ==         \* the agent's connection is gone
    /\ reply[p] # {} /\ losses < MaxLost
    /\ lost' = lost \cup reply[p] /\ losses' = losses + 1
    /\ reply' = [reply EXCEPT ![p] = {}]
    /\ UNCHANGED <<now, decided, stores, session, admitted, told, restarts>>

Restart(p) ==           \* the constructor finds no plaintext file
    /\ restarts < MaxRestarts
    /\ restarts' = restarts + 1
    /\ box' = [box EXCEPT ![p] = Empty]
    /\ session' = [session EXCEPT ![p] = FALSE]
    /\ admitted' = [admitted EXCEPT ![p] = {}]
    /\ lost' = lost \cup reply[p]
    /\ reply' = [reply EXCEPT ![p] = {}]
    /\ UNCHANGED <<now, decided, disk, told, losses>>

OutboxTick ==
    /\ now < MaxNow
    /\ now' = now + 1
    /\ UNCHANGED <<decided, stores, session, admitted, reply, told, lost>>
    /\ UNCHANGED <<restarts, losses>>

OutboxNext ==
    \/ OutboxTick
    \/ \E x \in Proposals : Decide(x)
    \/ \E p \in Servers :
         \/ Configure(p) \/ SessionEnds(p) \/ Restart(p)
         \/ PollFails(p) \/ ReplyCarries(p) \/ ReplyArrives(p) \/ ReplyLost(p)
         \/ \E x \in Proposals : PollAdmits(p, x) \/ PollRecords(p, x)

OutboxSpec == OutboxInit /\ [][OutboxNext]_outboxVars

(* The person signs in again and a session lasts longer than the five       *)
(* seconds between polls; that the agent goes on calling tools is assumed,  *)
(* and that it reads a reply that is not lost.                              *)
OutboxFairness ==
    \A p \in Servers :
      /\ WF_outboxVars(~session[p] /\ Configure(p))
      /\ WF_outboxVars(ReplyCarries(p)) /\ WF_outboxVars(ReplyArrives(p))
      /\ \A x \in Proposals : /\ SF_outboxVars(PollAdmits(p, x) /\ x \notin admitted[p])
                              /\ WF_outboxVars(PollRecords(p, x))
OutboxFairSpec == OutboxSpec /\ OutboxFairness

----------------------------------------------------------------------------
BoxContents == [Proposals -> {"none", "new", "told"}]
OutboxTypeOK ==
    /\ now \in 0..MaxNow /\ decided \in [Proposals -> 0..MaxNow \cup {Never}]
    /\ box \in [Servers -> BoxContents] /\ disk \in BoxContents
    /\ session \in [Servers -> BOOLEAN]
    /\ admitted \in [Servers -> SUBSET Here] /\ reply \in [Servers -> SUBSET Here]
    /\ told \in [Proposals -> Nat] /\ lost \subseteq Here
    /\ restarts \in 0..MaxRestarts /\ losses \in 0..MaxLost

(* The agent reads an outcome at most once: across polls that overlap,      *)
(* restarts, new sign-ins, and the seven days after which a row is dropped  *)
(* while the Authority Server still lists the rejection.                    *)
AtMostOnce == \A x \in Proposals : told[x] =< 1

(* An outcome that was delivered stays marked in the file until it lapses.  *)
(* "Always persists from disk state" (outcome-outbox.ts, markDelivered()).  *)
KeepsMarks == \A x \in Proposals : disk[x] = "told" => disk'[x] = "told" \/ Lapsed(x)'
MarksStay == [][KeepsMarks]_outboxVars

(* An outcome of this gateway's own proposal reaches the agent, unless the  *)
(* reply that carried it is lost or the seven days are over first.          *)
OutcomeIsLearned ==
    \A x \in Here : decided[x] # Never ~> told[x] > 0 \/ x \in lost \/ Lapsed(x)

(* "EXACTLY ONE delivery per outcome", made "auditable" by the delivered    *)
(* row (outcome-outbox.ts): what is marked is on its way or was read.       *)
MarkedIsRead ==
    \A x \in Proposals :
       disk[x] = "told" => told[x] > 0 \/ \E p \in Servers : x \in reply[p]

(* "An outcome the AI never picks up must not resurface weeks later"        *)
(* (outcome-outbox.ts): no reply takes along an outcome past the window.    *)
NothingResurfaces ==
    [][\A p \in Servers : \A x \in reply'[p] \ reply[p] : ~Lapsed(x)]_outboxVars
=============================================================================
