-------------------------- MODULE MandateCeremony --------------------------
(***************************************************************************)
(* Signing a mandate: by the person on the sign page (AgentReviewPage.tsx),*)
(* and by the gateway for an approved setup__create_mandate proposal       *)
(* (cp-mandate.ts, internal-mandate.ts, mandate-ceremony.ts).  Either way: *)
(* the Authority Server (AS) signs, the content goes to the MCP server,    *)
(* and a mandate whose content did not arrive is revoked again.  The page  *)
(* then retires what it was opened to replace: a mandate that is edited,   *)
(* or a proposal.  What that is stands in the tab's sessionStorage.        *)
(*                                                                         *)
(* One tab, one proposal, one mandate from before.  A ceremony of the page *)
(* ends before the person opens the next.  The two processes lose the      *)
(* session together (SessionLock has them apart).                          *)
(***************************************************************************)
EXTENDS Naturals

CONSTANTS
  MaxSignings,    \* bound: ceremonies of the page
  MaxTroubles     \* bound: sign-outs, cut ceremonies, AS requests that fail or
                  \* whose answer is lost

CeremonyAssumption == MaxSignings \in Nat /\ MaxTroubles \in Nat

Old  == 0                   \* the mandate from before
Tool == MaxSignings + 1     \* the one the proposal asks for
Id   == Old .. Tool         \* and one for every ceremony of the page
Ceremony == {"tool", "page"}

VARIABLES
  session,            \* the person is signed in
  proposal,           \* AS: status of the setup__create_mandate proposal
  grant,              \* AS: every mandate
  delivered,          \* MCP server: mandates whose content it holds
  agentEditReplaces,  \* sessionStorage: the page retires Old
  agentReplacesProposal,  \* sessionStorage: the page withdraws the proposal
  opened,             \* history: what the person opened the page for
  step,               \* where each ceremony stands
  said,               \* what the last one of each told
  heard,              \* what the MCP server's executor heard of the tool's
  signings, troubles

storage == <<agentEditReplaces, agentReplacesProposal>>
signingVars == <<session, proposal, grant, delivered, storage, opened, step, said, heard,
                 signings, troubles>>

Told == {"nothing", "created", "refused", "revoked", "failed", "problem"}

SigningTypeOK ==
  /\ session \in BOOLEAN
  /\ proposal \in {"pending", "approved", "rejected", "replaced"}
  /\ grant \in [Id -> {"none", "active", "revoked"}]
  /\ delivered \subseteq Id
  /\ agentEditReplaces \in BOOLEAN /\ agentReplacesProposal \in BOOLEAN
  /\ opened \in {"nothing", "new", "copy", "edit", "proposal"}
  /\ step \in [Ceremony -> {"idle", "open", "checks", "sign", "deliver", "revoke",
                          "retire", "read", "withdraw", "done"}]
  /\ said \in [Ceremony -> Told]
  /\ heard \in Told \cup {"waiting", "unreachable"}
  /\ signings \in 0 .. MaxSignings
  /\ troubles \in 0 .. MaxTroubles

SigningInit ==
  /\ session = TRUE /\ proposal = "pending"
  /\ grant = [i \in Id |-> IF i = Old THEN "active" ELSE "none"]
  /\ delivered = {Old}
  /\ agentEditReplaces = FALSE /\ agentReplacesProposal = FALSE
  /\ opened = "nothing"
  /\ step = [c \in Ceremony |-> "idle"]
  /\ said = [c \in Ceremony |-> "nothing"]
  /\ heard = "nothing"
  /\ signings = 0 /\ troubles = 0

Trouble == troubles < MaxTroubles /\ troubles' = troubles + 1
NoTrouble == UNCHANGED troubles

\* The mandate a ceremony is about, and where a ceremony that ends goes: the
\* page stays open on its error.
Of(c) == IF c = "tool" THEN Tool ELSE signings
Goes(c, where) == step' = [step EXCEPT ![c] = where]
CeremonyEnds(c, what) ==
  /\ step' = [step EXCEPT ![c] = IF c = "tool" THEN "done" ELSE "open"]
  /\ said' = [said EXCEPT ![c] = what]

-----------------------------------------------------------------------------
(* Mistakes this code could have.                                           *)

\* A delivery that failed is reported, and the mandate left as it is.
ReportedOnly(c) ==
  /\ step[c] = "deliver"
  /\ CeremonyEnds(c, "revoked")
  /\ UNCHANGED <<session, proposal, grant, delivered, storage, opened, heard, signings, troubles>>

-----------------------------------------------------------------------------
(* What the person does.                                                    *)

\* AuthorizePicker: a new mandate.  It clears the draft (agentGate) only.
OpenNew == opened' = "new" /\ UNCHANGED storage

\* AuthorizationsPage: Copy and Edit, of the mandate from before.
OpenCopy ==
  /\ opened' = "copy"
  /\ agentEditReplaces' = FALSE
  /\ UNCHANGED agentReplacesProposal
OpenEdit ==
  /\ grant[Old] = "active"
  /\ opened' = "edit"
  /\ agentEditReplaces' = TRUE
  /\ UNCHANGED agentReplacesProposal

\* ApprovalBody: Edit before signing, on the card of a pending proposal.
OpenProposal ==
  /\ proposal = "pending"
  /\ opened' = "proposal"
  /\ agentReplacesProposal' = TRUE
  /\ UNCHANGED agentEditReplaces

Open ==
  /\ step["page"] \in {"idle", "open"} /\ session
  /\ OpenNew \/ OpenCopy \/ OpenEdit \/ OpenProposal
  /\ Goes("page", "open")
  /\ said' = [said EXCEPT !["page"] = "nothing"]
  /\ UNCHANGED <<session, proposal, grant, delivered, heard, signings, troubles>>

\* The Sign button; every ceremony mints an id of its own.
Commit ==
  /\ step["page"] = "open" /\ session /\ signings < MaxSignings
  /\ signings' = signings + 1
  /\ Goes("page", "checks")
  /\ said' = [said EXCEPT !["page"] = "nothing"]
  /\ UNCHANGED <<session, proposal, grant, delivered, storage, opened, heard, troubles>>

\* The proposal's own card, here or on another device.
ProposalDecided ==
  /\ proposal = "pending"
  /\ proposal' \in {"approved", "rejected"}
  /\ UNCHANGED <<session, grant, delivered, storage, opened, step, said, heard, signings, troubles>>

SignOut ==
  /\ session /\ Trouble
  /\ session' = FALSE
  /\ UNCHANGED <<proposal, grant, delivered, storage, opened, step, said, heard, signings>>

SignIn ==
  /\ ~session
  /\ session' = TRUE
  /\ UNCHANGED <<proposal, grant, delivered, storage, opened, step, said, heard, signings, troubles>>

-----------------------------------------------------------------------------
(* The tool's request to the control plane.                                 *)

\* The committed executor calls the tool, once (ReviewExecution).
ToolCalled ==
  /\ proposal = "approved" /\ step["tool"] = "idle"
  /\ Goes("tool", "checks")
  /\ heard' = "waiting"
  /\ UNCHANGED <<session, proposal, grant, delivered, storage, opened, said, signings, troubles>>

ToolAnswered ==
  /\ heard = "waiting" /\ step["tool"] = "done"
  /\ heard' = said["tool"]
  /\ UNCHANGED <<session, proposal, grant, delivered, storage, opened, step, said, signings, troubles>>

\* The MCP server waits for thirty seconds; the ceremony goes on without it.
ToolTimesOut ==
  /\ heard = "waiting" /\ step["tool"] # "done"
  /\ heard' = "unreachable"
  /\ UNCHANGED <<session, proposal, grant, delivered, storage, opened, step, said, signings, troubles>>

-----------------------------------------------------------------------------
(* The ceremony.                                                            *)

\* planMandate() and the approvers' keys: reads, of which one may refuse.
Checks(c) ==
  /\ step[c] = "checks"
  /\ \/ session /\ Goes(c, "sign") /\ UNCHANGED said
     \/ CeremonyEnds(c, "refused")
  /\ UNCHANGED <<session, proposal, grant, delivered, storage, opened, heard, signings, troubles>>

Signed(c) ==
  /\ step[c] = "sign" /\ session
  /\ grant' = [grant EXCEPT ![Of(c)] = "active"]
  /\ Goes(c, "deliver")
  /\ UNCHANGED <<session, proposal, delivered, storage, opened, said, heard, signings, troubles>>

\* The AS refuses (without a session always)...
SignRefused(c) ==
  /\ step[c] = "sign"
  /\ CeremonyEnds(c, "refused")
  /\ UNCHANGED <<session, proposal, grant, delivered, storage, opened, heard, signings, troubles>>

\* ... or nothing is known of what it did.
SignLost(c) ==
  /\ step[c] = "sign" /\ session /\ Trouble
  /\ grant' \in {grant, [grant EXCEPT ![Of(c)] = "active"]}
  /\ CeremonyEnds(c, "failed")
  /\ UNCHANGED <<session, proposal, delivered, storage, opened, heard, signings>>

\* The MCP server reads the mandate at the AS, compares the hashes and keeps
\* the content.
Delivered(c) ==
  /\ step[c] = "deliver" /\ session
  /\ delivered' = delivered \cup {Of(c)}
  /\ IF c = "tool" THEN CeremonyEnds(c, "created") ELSE Goes(c, "retire") /\ UNCHANGED said
  /\ UNCHANGED <<session, proposal, grant, storage, opened, heard, signings, troubles>>

\* It does not, or it does and its answer does not arrive.
DeliveryFails(c) ==
  /\ step[c] = "deliver"
  /\ delivered' \in IF session THEN {delivered, delivered \cup {Of(c)}} ELSE {delivered}
  /\ Goes(c, "revoke")
  /\ UNCHANGED <<session, proposal, grant, storage, opened, said, heard, signings, troubles>>

\* "so it was revoked", whatever came of the request.
Revoke(c) ==
  /\ step[c] = "revoke"
  /\ \/ session /\ grant' = [grant EXCEPT ![Of(c)] = "revoked"] /\ NoTrouble
     \/ ~session /\ UNCHANGED grant /\ NoTrouble
     \/ session /\ Trouble /\ grant' \in {grant, [grant EXCEPT ![Of(c)] = "revoked"]}
  /\ CeremonyEnds(c, "revoked")
  /\ UNCHANGED <<session, proposal, delivered, storage, opened, heard, signings>>

\* The page retires the mandate it edits; a failure is swallowed.
Retire ==
  /\ step["page"] = "retire"
  /\ \/ ~agentEditReplaces /\ UNCHANGED grant /\ NoTrouble
     \/ /\ agentEditReplaces /\ session
        /\ grant' = [grant EXCEPT ![Old] = "revoked"] /\ NoTrouble
     \/ agentEditReplaces /\ ~session /\ UNCHANGED grant /\ NoTrouble
     \/ /\ agentEditReplaces /\ session /\ Trouble
        /\ grant' \in {grant, [grant EXCEPT ![Old] = "revoked"]}
  /\ Goes("page", "read")
  /\ UNCHANGED <<session, proposal, delivered, storage, opened, said, heard, signings>>

\* The end of handleCommit(): the storage is cleared; with a problem the page
\* stays and says so.
Finish(what) ==
  /\ agentEditReplaces' = FALSE /\ agentReplacesProposal' = FALSE
  /\ step' = [step EXCEPT !["page"] = IF what = "problem" THEN "open" ELSE "idle"]
  /\ said' = [said EXCEPT !["page"] = what]

\* The proposal is looked up; one that is not pending is left alone.
ReadProposal ==
  /\ step["page"] = "read"
  /\ \/ ~agentReplacesProposal /\ Finish("created") /\ NoTrouble
     \/ /\ agentReplacesProposal /\ session /\ proposal # "pending"
        /\ Finish("created") /\ NoTrouble
     \/ /\ agentReplacesProposal /\ session /\ proposal = "pending"
        /\ Goes("page", "withdraw") /\ UNCHANGED <<storage, said>> /\ NoTrouble
     \/ /\ agentReplacesProposal
        /\ IF session THEN Trouble ELSE NoTrouble
        /\ Finish("problem")
  /\ UNCHANGED <<session, proposal, grant, delivered, opened, heard, signings>>

\* The AS takes the withdrawal, or the person is told that it did not happen:
\* the proposal has been decided in the meantime, the session is gone, or
\* replacedWithdrawRoute() finds nothing this person may do.
Withdraw ==
  /\ step["page"] = "withdraw"
  /\ \/ /\ session /\ proposal = "pending"
        /\ proposal' = "replaced" /\ Finish("created") /\ NoTrouble
     \/ UNCHANGED proposal /\ Finish("problem") /\ NoTrouble
     \/ /\ session /\ proposal = "pending" /\ Trouble
        /\ proposal' \in {"pending", "replaced"} /\ Finish("problem")
  /\ UNCHANGED <<session, grant, delivered, opened, heard, signings>>

\* The gateway restarts, or the tab is reloaded or closed.
Cut(c) ==
  /\ step[c] \notin {"idle", "open", "done"} /\ Trouble
  /\ \/ /\ c = "tool" /\ CeremonyEnds(c, "failed") /\ UNCHANGED storage
     \/ /\ c = "page" /\ Goes(c, "idle") /\ UNCHANGED said
        /\ \/ UNCHANGED storage
           \/ agentEditReplaces' = FALSE /\ agentReplacesProposal' = FALSE
  /\ UNCHANGED <<session, proposal, grant, delivered, opened, heard, signings>>

SigningNext ==
  \/ Open \/ Commit \/ ProposalDecided \/ SignOut \/ SignIn
  \/ ToolCalled \/ ToolAnswered \/ ToolTimesOut
  \/ \E c \in Ceremony :
       \/ Checks(c) \/ Signed(c) \/ SignRefused(c) \/ SignLost(c)
       \/ Delivered(c) \/ DeliveryFails(c) \/ Revoke(c) \/ Cut(c)
  \/ Retire \/ ReadProposal \/ Withdraw

SigningSpec == SigningInit /\ [][SigningNext]_signingVars

-----------------------------------------------------------------------------
\* A mandate whose ceremony is over.
Over(i) ==
  \/ i = Tool /\ step["tool"] = "done"
  \/ i \in 1 .. MaxSignings /\ (i < signings \/ (i = signings /\ step["page"] \in {"idle", "open"}))

\* mandate-ceremony.ts: "a mandate whose intent never reached the gateway must
\* not stay active".  None does, whatever fails on the way to the MCP server,
\* unless a request to the AS fails as well, the ceremony is cut, or the
\* person signs out under it.
NoneWithoutContent ==
  troubles = 0 => \A i \in Id : grant[i] = "active" /\ Over(i) => i \in delivered

\* What a ceremony ends with is so: what is called created, by the page also
\* with a proposal left open, is active and has its content; nothing was made
\* of what is called refused; and what is called revoked is, unless that
\* request met trouble.
SaidIsTrue ==
  \A c \in Ceremony :
    /\ said[c] \in {"created", "problem"} => grant[Of(c)] = "active" /\ Of(c) \in delivered
    /\ said[c] = "refused" => grant[Of(c)] = "none"
    /\ said[c] = "revoked" /\ troubles = 0 => grant[Of(c)] = "revoked"

\* "Order matters: revoke only after the replacement is fully live": nothing
\* is retired before the new mandate is active and delivered, ...
RetiresAfterTheNew ==
  grant'[Old] # grant[Old] \/ (proposal # "replaced" /\ proposal' = "replaced") =>
    grant[signings] = "active" /\ signings \in delivered

\* ... and a proposal that is still open when the page is done is not passed
\* over in silence, so that person and executor do not both make a mandate.
OpenIsSaid ==
  agentReplacesProposal /\ said'["page"] = "created" /\ said["page"] # "created" =>
    proposal' # "pending"

\* No mandate stays active without its content unless the AS or the process
\* fails as well, what a ceremony tells is so, and nothing is retired before
\* the new mandate is live nor passed over while it is open.
CeremonyKept ==
  [][(NoneWithoutContent /\ SaidIsTrue)' /\ RetiresAfterTheNew /\ OpenIsSaid]_signingVars

\* What the tab's sessionStorage is for: AuthorizationsPage.tsx:773 and
\* ApprovalBody.tsx:176 set it when the page is opened to edit a mandate or a
\* proposal, so that signing retires "the grant it replaces", "THIS proposal".
RetiresItsOwn ==
  [][/\ grant[Old] = "active" /\ grant'[Old] = "revoked" => opened = "edit"
     /\ proposal = "pending" /\ proposal' = "replaced" => opened = "proposal"]_signingVars
=============================================================================
