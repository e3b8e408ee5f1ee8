----------------------------- MODULE SessionLock -----------------------------
(***************************************************************************)
(* Signing in, signing out and locking (control plane: routes/auth.ts,     *)
(* session-lock.ts, vault.ts, mcp-bridge.ts, internal-events.ts; MCP       *)
(* server: http.ts, sp-client.ts).  The control plane and the MCP server   *)
(* each hold the session of the Authority Server (AS) and tell each other  *)
(* over loopback requests; the AS ends sessions at will.                   *)
(*                                                                         *)
(* Sessions are numbered in the order of the logins that made them, 0 is   *)
(* none.  A login is cut at its awaits on the network; between two of them *)
(* its assignments are one step (deriveAndSetKey() is synchronous code     *)
(* behind an await).  The reasons of a lock are left out: the four locks   *)
(* differ in them alone.                                                   *)
(***************************************************************************)
EXTENDS Naturals, Sequences

CONSTANTS
  Account, NoAccount,
  Tab,            \* logins the control plane serves at the same time
  CpCall,         \* requests of the control plane to the AS in flight
  McpCall,        \* requests of the MCP server to the AS in flight
  InOrder,        \* whether loopback requests are served in the order sent
  MaxLogins,      \* bound: sessions made
  MaxMismatches,  \* bound: pin, key and team mismatches
  MaxFaults       \* bound: loopback requests lost

SessionAssumption ==
  /\ NoAccount \notin Account /\ InOrder \in BOOLEAN /\ CpCall \cap McpCall = {}
  /\ MaxLogins \in Nat

VARIABLES
  sessions,    \* AS: how many were made
  ended,       \* AS: those that ended (revoked, signed out, expired)
  expired,     \* AS: those whose 30 days are over
  login,       \* control plane: where the login of a tab stands
  key,         \* vault: account whose API key unlocked it
  cookie,      \* vault: spSessionCookie
  expires,     \* vault: session whose end spSessionExpiresAt is
  owner,       \* vault file: account whose key encrypts what is in it
  mcp,         \* MCP server: sessionCookie
  told,        \* MCP server: sessionExpiredNotified, tlsMismatchNotified
  calls,       \* session a request to the AS was sent under
  toMcp,       \* loopback: configure and clear-session requests
  toCp,        \* loopback: events that ask for a lock
  abandoned,   \* history: the vault was locked and the MCP server not told
  mismatches, faults

vars == <<sessions, ended, expired, login, key, cookie, expires, owner, mcp,
          told, calls, toMcp, toCp, abandoned, mismatches, faults>>

as    == <<sessions, ended, expired>>
vault == <<key, cookie, expires, owner>>
wire  == <<toMcp, toCp, abandoned>>
bound == <<mismatches, faults>>

Session == 0 .. MaxLogins
Flag    == {"expired", "tls"}
Message == [kind : {"configure", "clear", "echo"}, session : Session]
Idle    == [pc |-> "idle", account |-> NoAccount, session |-> 0]

TypeOK ==
  /\ sessions \in Session
  /\ ended \in SUBSET Session
  /\ expired \in SUBSET ended
  /\ login \in [Tab -> [pc : {"idle", "as", "wiping"}, session : Session,
                        account : Account \cup {NoAccount}]]
  /\ key \in Account \cup {NoAccount}
  /\ cookie \in Session
  /\ expires \in Session
  /\ owner \in Account \cup {NoAccount}
  /\ mcp \in Session
  /\ told \in SUBSET Flag
  /\ calls \in [CpCall \cup McpCall -> Session]
  /\ toMcp \in Seq(Message)
  /\ toCp \in Nat
  /\ abandoned \in BOOLEAN
  /\ mismatches \in Nat
  /\ faults \in Nat

\* Both processes boot locked; the vault file may hold somebody's credentials.
Init ==
  /\ sessions = 0
  /\ ended = {}
  /\ expired = {}
  /\ login = [t \in Tab |-> Idle]
  /\ key = NoAccount
  /\ cookie = 0
  /\ expires = 0
  /\ owner \in Account \cup {NoAccount}
  /\ mcp = 0
  /\ told = {}
  /\ calls = [c \in CpCall \cup McpCall |-> 0]
  /\ toMcp = <<>>
  /\ toCp = 0
  /\ abandoned = FALSE
  /\ mismatches = 0
  /\ faults = 0

Unlocked == key # NoAccount

-----------------------------------------------------------------------------
(* The vault, and what is sent to the MCP server.                           *)

ClearKey == key' = NoAccount /\ cookie' = 0 /\ expires' = 0

\* Mistakes: wipe() clears the cookie the login has just set; the length of the
\* session is not kept.
EstablishWithoutCookie(a, s) == key' = a /\ cookie' = 0 /\ expires' = s
EstablishWithoutExpiry(a, s) == key' = a /\ cookie' = s /\ expires' = 0

\* The end of a login: key, cookie and expiry belong together.
Establish(a, s) == key' = a /\ cookie' = s /\ expires' = s

Send(kind, s) ==
  /\ toMcp' = Append(toMcp, [kind |-> kind, session |-> s])
  /\ abandoned' = FALSE

\* The four locks of session-lock.ts: nothing when already locked, otherwise
\* clear the vault and push the cleared state without waiting for it.
Lock(kind) ==
  IF Unlocked THEN ClearKey /\ Send(kind, 0) /\ UNCHANGED owner
              ELSE UNCHANGED <<vault, toMcp, abandoned>>

-----------------------------------------------------------------------------
(* The Authority Server.                                                    *)

Revoke(s) ==
  /\ s \in (1 .. sessions) \ ended
  /\ ended' = ended \cup {s}
  /\ UNCHANGED <<sessions, expired, login, vault, mcp, told, calls, wire, bound>>

Expire(s) ==
  /\ s \in (1 .. sessions) \ expired
  /\ ended' = ended \cup {s}
  /\ expired' = expired \cup {s}
  /\ UNCHANGED <<sessions, login, vault, mcp, told, calls, wire, bound>>

-----------------------------------------------------------------------------
(* Signing in and out at the control plane.                                 *)

\* POST /auth/login up to the answer of the AS to the API key.
LoginStarts(t, a) ==
  /\ login[t].pc = "idle"
  /\ sessions < MaxLogins
  /\ sessions' = sessions + 1
  /\ login' = [login EXCEPT ![t] = [pc |-> "as", account |-> a, session |-> sessions + 1]]
  /\ UNCHANGED <<ended, expired, vault, mcp, told, calls, wire, bound>>

\* Refused before the vault is touched: key or pin check, API key, team, network.
LoginRefused(t) ==
  /\ login[t].pc = "as"
  /\ login' = [login EXCEPT ![t] = Idle]
  /\ UNCHANGED <<as, vault, mcp, told, calls, wire, bound>>

\* isVaultFromDifferentKey(): what is in the vault file cannot be decrypted.
OtherAccount(t) == owner \notin {NoAccount, login[t].account}

LoginEstablishes(t) ==
  /\ login[t].pc = "as"
  /\ ~OtherAccount(t)
  /\ Establish(login[t].account, login[t].session)
  /\ Send("configure", login[t].session)
  /\ login' = [login EXCEPT ![t] = Idle]
  /\ UNCHANGED <<as, owner, mcp, told, calls, toCp, bound>>

\* Another account without confirmWipe: 409, and the key is dropped again.
DifferentAccount(t) ==
  /\ login[t].pc = "as"
  /\ OtherAccount(t)
  /\ ClearKey
  /\ abandoned' = TRUE
  /\ login' = [login EXCEPT ![t] = Idle]
  /\ UNCHANGED <<as, owner, mcp, told, calls, toMcp, toCp, bound>>

\* Another account with confirmWipe: new key and cookie are in place while the
\* integrations of the previous person are stopped; the expiry is still theirs.
LoginWipes(t) ==
  /\ login[t].pc = "as"
  /\ OtherAccount(t)
  /\ key' = login[t].account
  /\ cookie' = login[t].session
  /\ login' = [login EXCEPT ![t].pc = "wiping"]
  /\ UNCHANGED <<as, expires, owner, mcp, told, calls, wire, bound>>

LoginWiped(t) ==
  /\ login[t].pc = "wiping"
  /\ owner' = NoAccount
  /\ Establish(login[t].account, login[t].session)
  /\ Send("configure", login[t].session)
  /\ login' = [login EXCEPT ![t] = Idle]
  /\ UNCHANGED <<as, mcp, told, calls, toCp, bound>>

\* The first credential stored: it is encrypted with the key of the moment.
SaveCredential ==
  /\ Unlocked
  /\ owner = NoAccount
  /\ owner' = key
  /\ UNCHANGED <<as, login, key, cookie, expires, mcp, told, calls, wire, bound>>

\* POST /auth/logout, with the API key: the AS is told as well, if it hears it.
Logout(reached) ==
  /\ Unlocked
  /\ ended' = IF reached /\ cookie # 0 THEN ended \cup {cookie} ELSE ended
  /\ ClearKey
  /\ Send("clear", 0)
  /\ UNCHANGED <<sessions, expired, login, owner, mcp, told, calls, toCp, bound>>

-----------------------------------------------------------------------------
(* Loopback requests.                                                       *)

Servable == IF toMcp = <<>> THEN {} ELSE IF InOrder THEN {1} ELSE DOMAIN toMcp
Without(i) == SubSeq(toMcp, 1, i - 1) \o SubSeq(toMcp, i + 1, Len(toMcp))

\* Mistake: a second session that ends is never told.
SetCookieKeepingFlags(s) == mcp' = s /\ UNCHANGED told

\* setSessionCookie(): a fresh cookie resets the single-flight flags.
SetSessionCookie(s) == mcp' = s /\ told' = {}

ConfigureArrives(i) ==
  /\ toMcp[i].kind = "configure"
  /\ SetSessionCookie(toMcp[i].session)
  /\ toMcp' = Without(i)
  /\ UNCHANGED <<as, login, vault, calls, toCp, abandoned, bound>>

ClearArrives(i) ==
  /\ toMcp[i].kind # "configure"
  /\ mcp' = 0
  /\ toMcp' = Without(i)
  /\ UNCHANGED <<as, login, vault, told, calls, toCp, abandoned, bound>>

\* POST /internal/event with session-expired, as-key-mismatch or
\* as-tls-mismatch: the lock pushes back what the MCP server may know already.
EventArrives ==
  /\ toCp > 0
  /\ toCp' = toCp - 1
  /\ Lock("echo")
  /\ UNCHANGED <<as, login, mcp, told, calls, bound>>

Fault == faults < MaxFaults /\ faults' = faults + 1

LoseRequest(i) ==
  /\ Fault
  /\ toMcp' = Without(i)
  /\ UNCHANGED <<as, login, vault, mcp, told, calls, toCp, abandoned, mismatches>>

LoseEvent ==
  /\ toCp > 0
  /\ Fault
  /\ toCp' = toCp - 1
  /\ UNCHANGED <<as, login, vault, mcp, told, calls, toMcp, abandoned, mismatches>>

-----------------------------------------------------------------------------
(* Requests to the Authority Server.  What an answer does depends on what   *)
(* the process holds when it arrives, not on what was sent.                 *)

Mismatch == mismatches < MaxMismatches /\ mismatches' = mismatches + 1
Returned(c) == calls' = [calls EXCEPT ![c] = 0]

\* The /api proxy, the mandate routes and the team check add the cookie.
CpSends(c) ==
  /\ calls[c] = 0
  /\ cookie # 0
  /\ calls' = [calls EXCEPT ![c] = cookie]
  /\ UNCHANGED <<as, login, vault, mcp, told, wire, bound>>

CpRefused(c) ==
  /\ calls[c] \in ended
  /\ Returned(c)
  /\ Lock("clear")
  /\ UNCHANGED <<as, login, mcp, told, toCp, bound>>

\* The pinned certificate does not match, or the account has left its team.
CpMismatch(c) ==
  /\ calls[c] # 0
  /\ Mismatch
  /\ Returned(c)
  /\ Lock("clear")
  /\ UNCHANGED <<as, login, mcp, told, toCp, faults>>

McpSends(c) ==
  /\ calls[c] = 0
  /\ mcp # 0
  /\ calls' = [calls EXCEPT ![c] = mcp]
  /\ UNCHANGED <<as, login, vault, mcp, told, wire, bound>>

\* Clear the own copy, and tell the control plane unless that was done before.
Tell(flag) ==
  /\ mcp' = 0
  /\ told' = told \cup {flag}
  /\ toCp' = IF flag \in told THEN toCp ELSE toCp + 1

McpRefused(c) ==
  /\ calls[c] \in ended
  /\ Returned(c)
  /\ Tell("expired")
  /\ UNCHANGED <<as, login, vault, toMcp, abandoned, bound>>

McpTlsMismatch(c) ==
  /\ calls[c] # 0
  /\ Mismatch
  /\ Returned(c)
  /\ Tell("tls")
  /\ UNCHANGED <<as, login, vault, toMcp, abandoned, faults>>

\* A receipt signed with another key: the session is kept, the event sent.
McpKeyMismatch(c) ==
  /\ calls[c] # 0
  /\ Mismatch
  /\ Returned(c)
  /\ toCp' = toCp + 1
  /\ UNCHANGED <<as, login, vault, mcp, told, toMcp, abandoned, faults>>

Accepted(c) ==
  /\ calls[c] \notin ended \cup {0}
  /\ Returned(c)
  /\ UNCHANGED <<as, login, vault, mcp, told, wire, bound>>

\* The expiry scheduler: the 30 days the vault remembers are over.
ScheduledLock ==
  /\ expires \in expired
  /\ Lock("clear")
  /\ UNCHANGED <<as, login, mcp, told, calls, toCp, bound>>

-----------------------------------------------------------------------------
AsStep == \E s \in 1 .. MaxLogins : Revoke(s) \/ Expire(s)

LoginStep(t) ==
  \/ \E a \in Account : LoginStarts(t, a)
  \/ LoginRefused(t) \/ LoginEstablishes(t) \/ DifferentAccount(t)
  \/ LoginWipes(t) \/ LoginWiped(t)

Delivery == EventArrives \/ \E i \in Servable : ConfigureArrives(i) \/ ClearArrives(i)
Loss == LoseEvent \/ \E i \in DOMAIN toMcp : LoseRequest(i)

CpStep(c) == CpSends(c) \/ CpRefused(c) \/ CpMismatch(c) \/ Accepted(c)
McpStep(c) == McpSends(c) \/ McpRefused(c) \/ McpTlsMismatch(c) \/ McpKeyMismatch(c) \/ Accepted(c)

Next ==
  \/ AsStep
  \/ \E t \in Tab : LoginStep(t)
  \/ SaveCredential
  \/ \E reached \in BOOLEAN : Logout(reached)
  \/ Delivery
  \/ Loss
  \/ \E c \in CpCall : CpStep(c)
  \/ \E c \in McpCall : McpStep(c)
  \/ ScheduledLock

Spec == Init /\ [][Next]_vars

\* Time passes for every session; loopback requests and requests to the AS
\* have an answer, and so does a login that waits for integrations to stop; the
\* scheduler's coarse timer and the MCP server's poll loop go on.  Nobody is assumed to have a browser open.
Fairness ==
  /\ \A s \in 1 .. MaxLogins : WF_vars(Expire(s))
  /\ WF_vars(Delivery)
  /\ WF_vars(ScheduledLock)
  /\ \A c \in McpCall : WF_vars(McpSends(c)) /\ WF_vars(McpRefused(c) \/ Accepted(c))
  /\ \A t \in Tab : WF_vars(LoginWiped(t))

FairSpec == Spec /\ Fairness

-----------------------------------------------------------------------------
(* Properties.                                                              *)

Quiet == toMcp = <<>> /\ toCp = 0
Wiping == \E t \in Tab : login[t].pc = "wiping"

\* When nothing is under way on loopback and nothing was lost there, the two
\* processes agree: the MCP server holds the very session the vault holds, and
\* none when the vault is locked (but for the refused login of another account).
Agreement ==
  (Quiet /\ faults = 0 /\ ~Wiping) => mcp = cookie \/ (abandoned /\ ~Unlocked)

\* What a login leaves behind belongs together, whatever logins, locks and
\* wipes it ran among: an unlocked vault has a session, the expiry of that
\* session, and a key that opens what is stored in it.
WholeSession ==
  (Unlocked /\ ~Wiping) => cookie # 0 /\ expires = cookie /\ owner \in {NoAccount, key}

\* However requests are lost, a session that has ended is in the end held by
\* neither process.
EndedSessionIsDropped ==
  \A s \in 1 .. MaxLogins : <>[](s \in ended => cookie # s /\ mcp # s)

\* sp-client.ts: a 401 "means the session ended server-side": the session it
\* makes the MCP server drop is one that has ended.
RefusalDropsTheDead ==
  [][\A c \in McpCall : McpRefused(c) => mcp \in ended \cup {0}]_vars

\* index.ts: a 401 through the proxy "means the AS session ended": the session
\* it makes the control plane lock is one that has ended.
RefusalLocksTheDead ==
  [][\A c \in CpCall : CpRefused(c) => cookie \in ended \cup {0}]_vars

\* mcp-bridge.ts: the push after a lock the MCP server asked for "is then a
\* harmless no-op there".
EchoIsNoOp ==
  [][\A i \in DOMAIN toMcp : toMcp[i].kind = "echo" /\ ClearArrives(i) => mcp = 0]_vars

\* auth.ts: "Signing out must stop the agent too": once the vault is locked and
\* nothing is under way the MCP server holds no session.
LockedMeansStopped == (Quiet /\ ~Unlocked) => mcp = 0
=============================================================================
