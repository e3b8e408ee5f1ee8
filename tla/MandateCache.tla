---------------------------- MODULE MandateCache ----------------------------
(***************************************************************************)
(* The mandates a gateway offers: the attestation cache                    *)
(* (attestation-cache.ts), joined with the gate store (shared-state.ts),   *)
(* filled by the routes /internal/resync-gates and /internal/gate-content  *)
(* (http.ts) and emptied by refused tool calls (tool-proxy.ts).            *)
(*                                                                         *)
(* Several requests are served at once.  A handler is cut at its awaits; a *)
(* mandate's record is read at the Authority Server (AS) in one step and   *)
(* used, later, in another.  Renewal (new dates under the same id) is left *)
(* out: an expired mandate stays expired.                                  *)
(***************************************************************************)
EXTENDS Naturals, FiniteSets

CONSTANTS
  Authorization,
  NoAuthorization,
  Handler,        \* requests the MCP server serves at the same time
  Home,           \* Home[m]: the workspace the mandate belongs to
  MaxChanges,     \* bound: changes at the AS and gate contents pushed
  MaxTroubles     \* bound: failed requests to the AS

Workspace == {"personal", "team"}

HomeAssumption ==
  /\ NoAuthorization \notin Authorization
  /\ Home \in [Authorization -> Workspace]

VARIABLES
  record,      \* AS: what it holds of every mandate
  workspace,   \* AS: the workspace the account is active in
  cached,      \* memory: "out", or the group learnt with the mandate
  active,      \* memory: activeWorkspaceGroupId
  gates,       \* disk: version of the gate content kept, 0 for none
  pushed,      \* history: version last pushed for a mandate
  serving,     \* memory: where every handler stands
  call,        \* memory: mandate a tool call waits for a ticket under
  stale,       \* history: mandates the AS called stale to a tool call
  clean,       \* history: resyncs nothing has interfered with
  changes, troubles

cacheVars == <<record, workspace, cached, active, gates, pushed, serving, call,
               stale, clean, changes, troubles>>

AsRecord == {"absent", "live", "expired", "revoked", "deleted"}
Group  == Workspace \cup {"unknown"}
Awaits == {"idle", "team", "personal", "next", "fetch", "read", "summary"}

Serving == [pc : Awaits, resync : BOOLEAN, team : {"yes", "no", "failed"},
            todo : SUBSET Authorization, kept : [Authorization -> Nat],
            on : Authorization \cup {NoAuthorization}, read : AsRecord \cup {"failed"}]

Unused == [pc |-> "idle", resync |-> FALSE, team |-> "no", todo |-> {},
           kept |-> [m \in Authorization |-> 0], on |-> NoAuthorization, read |-> "absent"]

CacheTypeOK ==
  /\ record \in [Authorization -> AsRecord]
  /\ workspace \in Workspace
  /\ cached \in [Authorization -> Group \cup {"out"}]
  /\ active \in Workspace \cup {"none"}
  /\ gates \in [Authorization -> Nat]
  /\ pushed \in [Authorization -> Nat]
  /\ serving \in [Handler -> Serving]
  /\ call \in Authorization \cup {NoAuthorization}
  /\ stale \in SUBSET Authorization
  /\ clean \in SUBSET Handler
  /\ changes \in Nat
  /\ troubles \in Nat

\* The process has just started: the gate store is on disk, the cache empty.
CacheInit ==
  /\ record \in [Authorization -> {"absent", "live"}]
  /\ workspace \in Workspace
  /\ cached = [m \in Authorization |-> "out"]
  /\ active = "none"
  /\ gates = [m \in Authorization |-> IF record[m] = "live" THEN 1 ELSE 0]
  /\ pushed = gates
  /\ serving = [h \in Handler |-> Unused]
  /\ call = NoAuthorization
  /\ stale = {}
  /\ clean = {}
  /\ changes = 0
  /\ troubles = 0

Trouble == troubles < MaxTroubles /\ troubles' = troubles + 1 /\ clean' = {}
NoTrouble == UNCHANGED <<troubles, clean>>
Interferes == changes < MaxChanges /\ changes' = changes + 1 /\ clean' = {}

as    == <<record, workspace>>
local == <<cached, active, gates, pushed>>

-----------------------------------------------------------------------------
(* Mistakes this code could have.                                           *)

\* A resync that cannot reach the AS purges like one that is told "gone".
PurgeOnError(r) == r \in {"absent", "deleted", "revoked", "failed"}

\* A revoked mandate is cached like any other.
RevokedIsServed(r) == r \in {"absent", "deleted"}

-----------------------------------------------------------------------------
(* What is offered.                                                         *)

\* isForeignWorkspace(): both sides known, and different.
Foreign(m) == cached[m] # "unknown" /\ active # "none" /\ cached[m] # active

\* getAllAuthorizations() drops what is foreign or past its signed expiry...
Dropped == {m \in Authorization : cached[m] # "out" /\ (Foreign(m) \/ record[m] = "expired")}

\* ... and getEnrichedAuthorizations() keeps those with gate content.
Offered == {m \in Authorization : cached[m] # "out" /\ m \notin Dropped /\ gates[m] > 0}

\* A tool call lists the mandates and asks for a ticket under one of them, if
\* there is one.
CallReads ==
  /\ call = NoAuthorization
  /\ cached' = [m \in Authorization |-> IF m \in Dropped THEN "out" ELSE cached[m]]
  /\ call' \in IF Offered = {} THEN {NoAuthorization} ELSE Offered
  /\ UNCHANGED <<as, active, gates, pushed, serving, stale, clean, changes, troubles>>

\* The AS calls the mandate stale: invalidate().
CallRefused ==
  /\ call # NoAuthorization
  /\ record[call] # "live"
  /\ cached' = [cached EXCEPT ![call] = "out"]
  /\ stale' = stale \cup {call}
  /\ call' = NoAuthorization
  /\ clean' = {}
  /\ UNCHANGED <<as, active, gates, pushed, serving, changes, troubles>>

CallPasses ==
  /\ call # NoAuthorization
  /\ record[call] = "live"
  /\ call' = NoAuthorization
  /\ UNCHANGED <<as, local, serving, stale, clean, changes, troubles>>

-----------------------------------------------------------------------------
(* The Authority Server.                                                    *)

AsChanges(m) ==
  /\ Interferes
  /\ \/ record[m] = "absent" /\ record' = [record EXCEPT ![m] = "live"]
     \/ /\ record[m] = "live"
        /\ \E r \in {"expired", "revoked", "deleted"} : record' = [record EXCEPT ![m] = r]
  /\ UNCHANGED <<workspace, local, serving, call, stale, troubles>>

Switch ==
  /\ Interferes
  /\ workspace' \in Workspace \ {workspace}
  /\ UNCHANGED <<record, local, serving, call, stale, troubles>>

-----------------------------------------------------------------------------
(* The routes.                                                              *)

Stands(h, pc) == serving[h].pc = pc
Goes(h, s) == serving' = [serving EXCEPT ![h] = s]
Moves(h, pc) == Goes(h, [serving[h] EXCEPT !.pc = pc])
Others(h) == {g \in Handler \ {h} : serving[g] # Unused}

\* /internal/resync-gates begins with refreshActiveWorkspace().
ResyncStarts(h) ==
  /\ serving[h] = Unused
  /\ Goes(h, [Unused EXCEPT !.pc = "team", !.resync = TRUE])
  /\ clean' = IF Others(h) = {} THEN {h} ELSE {}
  /\ UNCHANGED <<as, local, call, stale, changes, troubles>>

InTeam == IF workspace = "team" THEN "yes" ELSE "no"

\* getActiveTeamGroupId() returns, or fails, which leaves activeTeam null too.
TeamLearnt(h) ==
  /\ Stands(h, "team")
  /\ \E answer \in {"yes", "no", "failed"} :
       /\ IF answer = "failed" THEN Trouble ELSE NoTrouble /\ answer = InTeam
       /\ active' = IF answer = "yes" THEN "team" ELSE active
       /\ Goes(h, [serving[h] EXCEPT !.pc = "personal", !.team = answer])
  /\ UNCHANGED <<as, cached, gates, pushed, call, stale, changes>>

\* getPersonalGroupId() returns, or fails; then the gates are listed.
PersonalLearnt(h) ==
  /\ Stands(h, "personal")
  /\ \E ok \in BOOLEAN :
       /\ IF ok THEN NoTrouble ELSE Trouble
       /\ active' = IF ok /\ serving[h].team # "yes" THEN "personal" ELSE active
  /\ Goes(h, [serving[h] EXCEPT !.pc = "next", !.kept = gates,
                                !.todo = {m \in Authorization : gates[m] > 0}])
  /\ UNCHANGED <<as, cached, gates, pushed, call, stale, changes>>

ResyncNext(h) ==
  /\ Stands(h, "next")
  /\ IF serving[h].todo = {} THEN Goes(h, Unused)
     ELSE \E m \in serving[h].todo :
            Goes(h, [serving[h] EXCEPT !.pc = "fetch", !.on = m, !.todo = @ \ {m}])
  /\ UNCHANGED <<as, local, call, stale, clean, changes, troubles>>

\* /internal/gate-content: the person saves new gate content for m.
PushStarts(h, m) ==
  /\ serving[h] = Unused
  /\ record[m] # "absent"
  /\ Interferes
  /\ pushed' = [pushed EXCEPT ![m] = @ + 1]
  /\ Goes(h, [Unused EXCEPT !.pc = "fetch", !.on = m, !.kept[m] = pushed[m] + 1])
  /\ UNCHANGED <<as, cached, active, gates, call, stale, troubles>>

\* syncAuthorization(): the AS reads the record, or the request fails.
AsReads(h) ==
  /\ Stands(h, "fetch")
  /\ \/ Goes(h, [serving[h] EXCEPT !.pc = "read", !.read = record[serving[h].on]]) /\ NoTrouble
     \/ Goes(h, [serving[h] EXCEPT !.pc = "read", !.read = "failed"]) /\ Trouble
  /\ UNCHANGED <<as, local, call, stale, changes>>

\* A resync goes on with the next gate, a push is answered.
Done(h) == Goes(h, IF serving[h].resync THEN [serving[h] EXCEPT !.pc = "next", !.on = NoAuthorization]
                                        ELSE Unused)

\* syncAuthorization() returns null: the AS serves no such mandate.
Gone(r) == r \in {"absent", "deleted", "revoked"}

\* A resync purges the cached entry and the gate for good; a push is a 404.
NotServed(h) ==
  LET m == serving[h].on
  IN  /\ Stands(h, "read")
      /\ Gone(serving[h].read)
      /\ cached' = IF serving[h].resync \/ serving[h].read = "revoked"
                  THEN [cached EXCEPT ![m] = "out"] ELSE cached
      /\ gates' = IF serving[h].resync THEN [gates EXCEPT ![m] = 0] ELSE gates
      /\ Done(h)
      /\ UNCHANGED <<as, active, pushed, call, stale, clean, changes, troubles>>

\* A failed request changes nothing.
ReadFailed(h) ==
  /\ Stands(h, "read")
  /\ serving[h].read = "failed" /\ ~ Gone("failed")
  /\ Done(h)
  /\ UNCHANGED <<as, local, call, stale, clean, changes, troubles>>

Served(h) ==
  /\ Stands(h, "read")
  /\ serving[h].read # "failed" /\ ~ Gone(serving[h].read)
  /\ Moves(h, "summary")
  /\ UNCHANGED <<as, local, call, stale, clean, changes, troubles>>

\* The group is learnt, or stays unknown if that request fails; the mandate is
\* cached and the gate content written: what was pushed, or what the resync
\* found when it listed the gates.  A push whose hashes do not match is refused.
Caches(h) ==
  LET m == serving[h].on
  IN  /\ Stands(h, "summary")
      /\ \/ cached' = [cached EXCEPT ![m] = Home[m]] /\ NoTrouble
         \/ cached' = [cached EXCEPT ![m] = "unknown"] /\ Trouble
      /\ \/ gates' = [gates EXCEPT ![m] = serving[h].kept[m]]
         \/ ~ serving[h].resync /\ UNCHANGED gates
      /\ Done(h)
      /\ UNCHANGED <<as, active, pushed, call, stale, changes>>

CacheNext ==
  \/ CallReads \/ CallRefused \/ CallPasses \/ Switch
  \/ \E m \in Authorization : AsChanges(m) \/ \E h \in Handler : PushStarts(h, m)
  \/ \E h \in Handler :
       \/ ResyncStarts(h) \/ TeamLearnt(h) \/ PersonalLearnt(h) \/ ResyncNext(h)
       \/ AsReads(h) \/ NotServed(h) \/ ReadFailed(h) \/ Served(h) \/ Caches(h)

CacheSpec == CacheInit /\ [][CacheNext]_cacheVars

-----------------------------------------------------------------------------
\* Gate content, the only copy of the person's intent, is deleted only after
\* the mandate has ended at the AS for good, never after a failure.
PurgesWhatIsGone ==
  \A m \in Authorization : gates[m] > 0 /\ gates'[m] = 0 => record[m] \in {"revoked", "deleted"}
PurgeOnlyIfGone == [][PurgesWhatIsGone]_cacheVars

\* A resync during which nothing else happened leaves exactly the mandates
\* that are live, belong to the active workspace and have gate content.
ResyncEnds(h) == Stands(h, "next") /\ serving[h].resync /\ serving'[h] = Unused
EndsExactly ==
  \A h \in clean : ResyncEnds(h) =>
    Offered = {m \in Authorization : gates[m] > 0 /\ record[m] = "live" /\ Home[m] = workspace}
CleanResyncIsExact == [][EndsExactly]_cacheVars

-----------------------------------------------------------------------------
(* Statements of the source that do not hold.                               *)

\* tool-proxy.ts:1855, on a mandate the AS called stale: "list-authorizations/
\* list-integrations must stop offering it immediately".
RefusedStaysOut == \A m \in stale : m \notin Offered

\* attestation-cache.ts:165, refreshActiveWorkspace(): "Leaves the previous
\* value(s) in place on any failure".
KeptOnFailure ==
  [][\A h \in Handler :
       Stands(h, "personal") /\ serving[h].team = "failed" /\ serving'[h].pc = "next"
         => active' = active]_cacheVars

\* http.ts:421: a resync passes contextLabels on to "preserve discovered
\* display names across resyncs ... the local copy is the only one".
ContentSurvivesResync ==
  [][\A h \in Handler :
       Stands(h, "summary") /\ serving[h].resync /\ serving'[h].pc = "next"
         => \A m \in Authorization : gates'[m] >= gates[m]]_cacheVars
=============================================================================
