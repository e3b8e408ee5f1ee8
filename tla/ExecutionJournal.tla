-------------------------- MODULE ExecutionJournal --------------------------
(***************************************************************************)
(* The execution journal (apps/mcp-server/src/lib/execution-journal.ts):   *)
(* the gateway's plaintext file of which ticket requests it has made and   *)
(* which tickets it has acted on.                                          *)
(*                                                                         *)
(* The file is an array of rows.  A review-path request has at most two:   *)
(* the row keyed on the request (requestKey = the proposal id), pushed by  *)
(* requested() before anything else can be written for that request, and   *)
(* the row under the synthetic ticket id "as_refused:<proposal>", which    *)
(* commitments.ts begins and completes in one synchronous stretch when the *)
(* Authority Server answers with an error.  The second one is always       *)
(* pushed after the first and always ends as failed / as_refused, so a     *)
(* journal is a function from requests to their own row, together with the *)
(* set of requests that have the synthetic row as well.                    *)
(*                                                                         *)
(* The module holds no state: the operators map a journal to the journal   *)
(* the method would persist.                                               *)
(***************************************************************************)
EXTENDS Naturals

CONSTANT Request    \* the request keys: proposal ids on the review path

RowState == {"none", "requested", "intent", "done", "failed"}
Outcome  == {"", "refused", "changed", "as_refused"}

\* ticket = 0 is the empty ticketId of a row that is only requested; state
\* "none" stands for "no such row in the file".
Row == [state : RowState, outcome : Outcome, ticket : Nat]

NoRow == [state |-> "none", outcome |-> "", ticket |-> 0]

JournalType == [row : [Request -> Row], asRefused : SUBSET Request]

EmptyJournal == [row |-> [r \in Request |-> NoRow], asRefused |-> {}]

-----------------------------------------------------------------------------
(* Mistakes this file could have: variants of the operators below, which    *)
(* the properties of ReviewExecution must notice.                           *)

\* refusedBeforeTicket() closes a row in any state.
RefusedInAnyState(J, r) ==
  [J EXCEPT !.row[r].state = "failed", !.row[r].outcome = "as_refused"]

\* begin() is guarded by the ticket alone, as before there was a requestKey.
ClaimableByTicket(J, r, t) == J.row[r].ticket # t

\* begin() takes an unfinished claim over.
ClaimableWhileIntent(J, r, t) == J.row[r].state \in {"none", "requested", "intent"}

\* complete() with its two arguments swapped.
CompleteSwapped(J, r, s, o) == [J EXCEPT !.row[r].state = o, !.row[r].outcome = s]

-----------------------------------------------------------------------------
\* requested(): written before the ticket request leaves; keeps an existing
\* row of the same request as it is.
Requested(J, r) ==
  IF J.row[r].state = "none"
  THEN [J EXCEPT !.row[r] = [state |-> "requested", outcome |-> "", ticket |-> 0]]
  ELSE J

\* refusedBeforeTicket(): closes a row that is still only requested.
RefusedBeforeTicket(J, r) ==
  IF J.row[r].state = "requested"
  THEN [J EXCEPT !.row[r].state = "failed", !.row[r].outcome = "as_refused"]
  ELSE J

\* begin() succeeds: no row holds this ticket, and the request's own row is
\* missing or only requested.
Claimable(J, r, t) ==
  /\ J.row[r].ticket # t
  /\ J.row[r].state \in {"none", "requested"}

\* begin(): the row becomes intent under the ticket, in place.
Begin(J, r, t) ==
  [J EXCEPT !.row[r].state = "intent", !.row[r].ticket = t]

\* complete(): closes the row; the outcome is only written when one is given.
Complete(J, r, s, o) ==
  [J EXCEPT !.row[r].state = s, !.row[r].outcome = IF o = "" THEN @ ELSE o]

\* begin() and complete() under the synthetic ticket id: a second time the
\* begin() refuses and nothing changes.
NoteAsRefused(J, r) == [J EXCEPT !.asRefused = @ \cup {r}]

\* findByProposal(): the newest row.
Newest(J, r) ==
  IF r \in J.asRefused
  THEN [state |-> "failed", outcome |-> "as_refused", ticket |-> 0]
  ELSE J.row[r]
=============================================================================
