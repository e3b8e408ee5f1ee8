---------------------------- MODULE MCToolCalls ----------------------------
(***************************************************************************)
(* The ways a tool call takes through the MCP server, the signing of the   *)
(* mandates it needs and the approvals it may wait for, each on a small    *)
(* instance: automatic execution with two concurrent calls on two          *)
(* mandates; gated reads; mandates signed on the page and by a tool; the   *)
(* panel with two approvals and two decisions under way.  The parts share  *)
(* nothing; a behaviour moves one of them and leaves the others where they *)
(* are, so that their states add up.                                       *)
(***************************************************************************)
EXTENDS AutomaticExecution, ReadGate, MandateCeremony, ApprovalPanel, TLC

CONSTANTS c1, c2

VARIABLE part

-----------------------------------------------------------------------------
(* Ids sort as the numbers do.                                              *)
TwoIds == [m \in 1 .. 2 |-> m]

\* The module's own constants, set by the configuration.
\* 1 is an exception narrower than 2; both run by themselves.
PairScopes == [m \in 1 .. 2 |-> [k \in {"x"} |-> IF m = 1 THEN {"a"} ELSE {"a", "b"}]]
PairModes == [m \in 1 .. 2 |-> IF m = 1 THEN "automatic" ELSE "review_above_cap"]
PairCaps == [m \in 1 .. 2 |-> 1]

-----------------------------------------------------------------------------
(* The kinds of read tools the shipped manifests declare (mail, calendar,   *)
(* repositories, records), two folders and three windows.                   *)
Kind(gate, exempt, age, marked, by, folder, blocks) ==
    [gate |-> gate, exempt |-> exempt, age |-> age, marked |-> marked,
     by |-> by, folder |-> folder, blocks |-> blocks]
ReadTools ==
    {Kind(TRUE, FALSE, TRUE, m, by, "none", TRUE) : m \in BOOLEAN, by \in {"get", "query"}}
    \union {Kind(FALSE, FALSE, TRUE, FALSE, by, "arg", FALSE) : by \in {"get", "floor"}}
    \union {Kind(FALSE, FALSE, FALSE, FALSE, "list", folder, FALSE)
               : folder \in {"arg", "result"}}
    \union {Kind(gate, exempt, FALSE, FALSE, "plain", "none", FALSE)
               : gate \in BOOLEAN, exempt \in BOOLEAN}
ReadWindows == {0, 1, 2}
ReadFolders == {"primary", "other"}
NoWindow == -1
ReadMandate(c, a, f, w, v) == [complete |-> c, access |-> a, folders |-> f, window |-> w, v8 |-> v]
ReadMandates == {ReadMandate(TRUE, TRUE, {"primary"}, 1, FALSE),
                 ReadMandate(TRUE, FALSE, {"other"}, 2, FALSE),
                 ReadMandate(TRUE, TRUE, {}, NoWindow, TRUE),
                 ReadMandate(TRUE, TRUE, {"primary"}, 0, TRUE),
                 ReadMandate(FALSE, TRUE, {"primary", "other"}, 2, FALSE)}
Item(s, d, f, spam) == [stamp |-> s, dated |-> d, folder |-> f, spam |-> spam]
ReadItems == {Item(0, TRUE, "primary", FALSE), Item(-1, TRUE, "primary", TRUE),
              Item(-3, TRUE, "other", FALSE), Item(-4, TRUE, "primary", FALSE),
              Item(-6, TRUE, "primary", FALSE), Item(-2, FALSE, "primary", FALSE)}
ReadFragments == [older : ReadWindows \union {NoWindow}, dangling : BOOLEAN]

-----------------------------------------------------------------------------
ASSUME Assumptions ==
  /\ RankAssumption /\ MandateAssumption /\ AttemptsAssumption
  /\ ReadAssumption
  /\ CeremonyAssumption
  /\ PanelAssumption

-----------------------------------------------------------------------------
\* While another part moves, the read is one that is refused.
NobodyReads ==
  tool.by = "plain" /\ tool.exempt /\ ~(tool.gate \/ unlocked \/ team) /\ held = {} /\ local = Unset

\* Up to two of the mandates; and who is signed out is refused whatever is set.
PairsAreHeld == Cardinality(held) <= 2 /\ (unlocked \/ local = Unset)

\* While another part moves, nobody is in a form or on the Approvals page.
CallsInit ==
  /\ part \in {"auto", "read", "sign", "panel"}
  /\ Init /\ SigningInit /\ ReadInit /\ PanelInit
  /\ IF part = "read" THEN PairsAreHeld ELSE NobodyReads
  /\ part = "panel" \/ ~(typing \/ onApprovalsPage)

CallsNext ==
  /\ UNCHANGED part
  /\ \/ part = "auto" /\ Next /\ UNCHANGED <<readVars, signingVars, panelVars>>
     \/ part = "read" /\ ReadNext /\ UNCHANGED <<vars, signingVars, panelVars>>
     \/ part = "sign" /\ SigningNext /\ UNCHANGED <<vars, readVars, panelVars>>
     \/ part = "panel" /\ PanelNext /\ UNCHANGED <<vars, readVars, signingVars>>

callsVars == <<part, vars, readVars, signingVars, panelVars>>

CallsSpec == CallsInit /\ [][CallsNext]_callsVars

Symmetry ==
  Permutations({c1, c2}) \cup Permutations(Approval) \cup Permutations(Decision)

=============================================================================
