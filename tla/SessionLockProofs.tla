------------------------- MODULE SessionLockProofs --------------------------
(***************************************************************************)
(* Theorems about the session and the two components that watch it and the *)
(* person's queue.  SessionLock, for every number of accounts, tabs,       *)
(* logins and requests in flight: what a login leaves in the vault belongs *)
(* together, and, as long as loopback requests are served in the order     *)
(* they were sent and none is lost, the two processes agree once nothing   *)
(* is under way.  The expiry timer, for any longest timer and any clock    *)
(* steps, sleeps and set-backs; the desktop notifications, for any number  *)
(* of proposals, triggers and window.                                      *)
(***************************************************************************)
EXTENDS SessionLock, ExpiryTimer, NotificationDispatcher,
        FiniteSetTheorems, SequenceTheorems, TLAPS

-----------------------------------------------------------------------------
(* The inductive invariant.                                                 *)

\* What the MCP server will hold when everything sent to it has arrived.
WillHold ==
  IF toMcp = <<>> THEN mcp
  ELSE IF toMcp[Len(toMcp)].kind = "configure" THEN toMcp[Len(toMcp)].session ELSE 0

\* A login past the AS has an account and a session; a locked vault has none.
LoginsAreWhole ==
  /\ \A t \in Tab : login[t].pc # "idle" =>
       login[t].account \in Account /\ login[t].session # 0
  /\ ~Unlocked => cookie = 0

\* The vault's session is what the MCP server will hold, unless an event on its
\* way is going to lock it; and a vault that was locked has told.  A cookie the
\* MCP server still holds has not been reported yet.
WillAgree ==
  /\ mcp # 0 => told = {}
  /\ faults = 0 /\ Unlocked /\ ~Wiping => WillHold = cookie \/ toCp > 0
  /\ faults = 0 /\ ~Unlocked /\ ~abandoned => WillHold = 0

SessionInv == TypeOK /\ LoginsAreWhole /\ WholeSession /\ (InOrder => WillAgree)

-----------------------------------------------------------------------------
(* The loopback queue.                                                      *)

\* Taking one message out leaves a queue of messages, and the last one last.
LEMMA WithoutOne ==
  ASSUME toMcp \in Seq(Message), NEW i \in DOMAIN toMcp
  PROVE  /\ Without(i) \in Seq(Message)
         /\ Len(Without(i)) = Len(toMcp) - 1
         /\ i = 1 /\ Len(toMcp) > 1 => Without(i)[Len(Without(i))] = toMcp[Len(toMcp)]
<1> DEFINE n == Len(toMcp)
<1> DEFINE before == SubSeq(toMcp, 1, i - 1)
<1> DEFINE after == SubSeq(toMcp, i + 1, n)
<1>1. n \in Nat /\ i \in 1 .. n /\ \A j \in 1 .. n : toMcp[j] \in Message
  BY LenProperties
<1>2. /\ before \in Seq(Message) /\ Len(before) = i - 1
  <2>1. 1 \in Int /\ i - 1 \in Int /\ \A j \in 1 .. i - 1 : toMcp[j] \in Message
    BY <1>1
  <2>2. /\ before \in Seq(Message)
        /\ Len(before) = IF 1 <= i - 1 THEN i - 1 - 1 + 1 ELSE 0
    BY <2>1, SubSeqProperties
  <2>3. QED BY <1>1, <2>2
<1>3. /\ after \in Seq(Message) /\ Len(after) = n - i
      /\ \A j \in 1 .. n - i : after[j] = toMcp[i + j]
  <2>1. i + 1 \in Int /\ n \in Int /\ \A j \in i + 1 .. n : toMcp[j] \in Message
    BY <1>1
  <2>2. /\ after \in Seq(Message)
        /\ Len(after) = IF i + 1 <= n THEN n - (i + 1) + 1 ELSE 0
        /\ \A j \in 1 .. n - (i + 1) + 1 : after[j] = toMcp[(i + 1) + j - 1]
    BY <2>1, SubSeqProperties
  <2>3. QED BY <1>1, <2>2
<1> HIDE DEF before, after
<1>4. Without(i) = before \o after
  BY DEF Without, before, after
<1>5. /\ before \o after \in Seq(Message)
      /\ Len(before \o after) = Len(before) + Len(after)
      /\ \A j \in 1 .. Len(before) + Len(after) :
           (before \o after)[j] = IF j <= Len(before) THEN before[j] ELSE after[j - Len(before)]
  BY <1>2, <1>3, ConcatProperties
<1>6. ASSUME i = 1, n > 1
      PROVE  (before \o after)[n - 1] = toMcp[n]
  <2>1. (before \o after)[n - 1] = after[n - 1]
    BY <1>1, <1>2, <1>3, <1>5, <1>6
  <2>2. after[n - 1] = toMcp[n]
    BY <1>1, <1>3, <1>6
  <2>3. QED BY <2>1, <2>2
<1>7. Len(before \o after) = n - 1 /\ before \o after \in Seq(Message)
  BY <1>1, <1>2, <1>3, <1>5
<1>8. QED BY <1>4, <1>6, <1>7

\* What is sent last is what will be held; what is served in order changes
\* nothing about it.
LEMMA SentLast ==
  ASSUME toMcp \in Seq(Message), NEW kind \in {"configure", "clear", "echo"},
         NEW s \in Session, Send(kind, s)
  PROVE  /\ toMcp' \in Seq(Message)
         /\ WillHold' = IF kind = "configure" THEN s ELSE 0
<1> DEFINE m == [kind |-> kind, session |-> s]
<1>1. m \in Message
  BY DEF Message
<1>2. /\ toMcp' \in Seq(Message) /\ toMcp' # <<>> /\ Len(toMcp') = Len(toMcp) + 1
      /\ toMcp'[Len(toMcp) + 1] = m
  BY <1>1, AppendProperties DEF Send
<1>3. QED BY <1>2 DEF WillHold

LEMMA SameHold == UNCHANGED <<toMcp, mcp>> => WillHold' = WillHold
BY DEF WillHold

LEMMA ServedInOrder ==
  ASSUME TypeOK, InOrder, NEW i \in Servable, ConfigureArrives(i) \/ ClearArrives(i)
  PROVE  WillHold' = WillHold
<1>1. toMcp # <<>> /\ i = 1 /\ toMcp \in Seq(Message)
  BY DEF Servable, TypeOK
<1>2. Len(toMcp) \in Nat \ {0} /\ i \in DOMAIN toMcp
  BY <1>1, EmptySeq, LenProperties
<1>3. /\ toMcp' = Without(i) /\ toMcp' \in Seq(Message) /\ Len(toMcp') = Len(toMcp) - 1
      /\ Len(toMcp) > 1 => toMcp'[Len(toMcp')] = toMcp[Len(toMcp)]
  BY <1>1, <1>2, WithoutOne DEF ConfigureArrives, ClearArrives
<1>4. CASE Len(toMcp) = 1
  <2>1. toMcp' = <<>>
    BY <1>3, <1>4, EmptySeq
  <2>2. mcp' = IF toMcp[1].kind = "configure" THEN toMcp[1].session ELSE 0
    BY <1>1 DEF ConfigureArrives, ClearArrives, SetSessionCookie
  <2>3. QED BY <1>1, <1>4, <2>1, <2>2 DEF WillHold
<1>5. CASE Len(toMcp) > 1
  <2>1. toMcp' # <<>>
    BY <1>3, <1>5, EmptySeq
  <2>2. QED BY <1>1, <1>3, <1>5, <2>1 DEF WillHold
<1>6. QED BY <1>2, <1>4, <1>5

\* Every lock leaves either a vault that is as it was, or one without key and
\* session whose end has been sent.
LEMMA LockTells ==
  ASSUME toMcp \in Seq(Message), SessionAssumption,
         NEW kind \in {"clear", "echo"}, Lock(kind), mcp' = mcp
  PROVE  /\ toMcp' \in Seq(Message)
         /\ owner' = owner
         /\ \/ /\ ~Unlocked /\ UNCHANGED <<vault, abandoned>>
               /\ WillHold' = WillHold
            \/ /\ key' = NoAccount /\ cookie' = 0 /\ expires' = 0
               /\ abandoned' = FALSE /\ WillHold' = 0
<1>1. CASE ~Unlocked
  BY <1>1, SameHold DEF Lock, vault
<1>2. CASE Unlocked
  <2>1. 0 \in Session
    BY DEF SessionAssumption, Session
  <2>2. Send(kind, 0) /\ ClearKey /\ owner' = owner
    BY <1>2 DEF Lock
  <2>3. toMcp' \in Seq(Message) /\ WillHold' = 0
    BY <2>1, <2>2, SentLast
  <2>4. QED BY <2>2, <2>3 DEF ClearKey, Send
<1>3. QED BY <1>1, <1>2

-----------------------------------------------------------------------------
(* Types.                                                                   *)

\* TypeOK in the parts that an action changes or leaves alone together; the
\* flag needs another prover than the rest.
AsTypes == sessions \in Session /\ ended \in SUBSET Session /\ expired \in SUBSET ended
LoginTypes == login \in [Tab -> [pc : {"idle", "as", "wiping"}, session : Session,
                                 account : Account \cup {NoAccount}]]
VaultTypes == /\ key \in Account \cup {NoAccount} /\ cookie \in Session
              /\ expires \in Session /\ owner \in Account \cup {NoAccount}
McpTypes == mcp \in Session /\ told \in SUBSET Flag
CallTypes == calls \in [CpCall \cup McpCall -> Session]
WireTypes == toMcp \in Seq(Message) /\ toCp \in Nat
BoundTypes == mismatches \in Nat /\ faults \in Nat

ValueTypes ==
  /\ AsTypes /\ LoginTypes /\ VaultTypes /\ McpTypes /\ CallTypes /\ WireTypes
  /\ BoundTypes

LEMMA TypesAreBoth == TypeOK <=> ValueTypes /\ abandoned \in BOOLEAN
BY DEF TypeOK, ValueTypes, AsTypes, LoginTypes, VaultTypes, McpTypes, CallTypes, WireTypes,
       BoundTypes

LEMMA InitTypes == SessionAssumption /\ Init => TypeOK
<1>1. ASSUME SessionAssumption, Init PROVE ValueTypes
  <2>1. 0 \in Session
    BY <1>1 DEF SessionAssumption, Session
  <2>2. QED
    BY <1>1, <2>1, EmptySeq DEF Init, Idle, ValueTypes, AsTypes, LoginTypes, VaultTypes,
       McpTypes, CallTypes, WireTypes, BoundTypes
<1>2. Init => abandoned \in BOOLEAN
  BY DEF Init
<1>3. QED BY <1>1, <1>2, TypesAreBoth

\* What every action leaves of the types, and what all calls do.
LEMMA SameParts ==
  /\ AsTypes /\ UNCHANGED as => AsTypes'
  /\ LoginTypes /\ UNCHANGED login => LoginTypes'
  /\ VaultTypes /\ UNCHANGED vault => VaultTypes'
  /\ McpTypes /\ UNCHANGED <<mcp, told>> => McpTypes'
  /\ CallTypes /\ UNCHANGED calls => CallTypes'
  /\ WireTypes /\ UNCHANGED <<toMcp, toCp>> => WireTypes'
  /\ BoundTypes /\ UNCHANGED bound => BoundTypes'
BY DEF AsTypes, LoginTypes, VaultTypes, McpTypes, CallTypes, WireTypes, BoundTypes,
       as, vault, bound

LEMMA LockTypes ==
  ASSUME SessionAssumption, VaultTypes, toMcp \in Seq(Message),
         NEW kind \in {"clear", "echo"}, Lock(kind)
  PROVE  VaultTypes' /\ toMcp' \in Seq(Message)
<1>1. 0 \in Session
  BY DEF SessionAssumption, Session
<1>2. CASE ~Unlocked
  BY <1>2 DEF Lock, VaultTypes, vault
<1>3. CASE Unlocked
  <2>1. ClearKey /\ Send(kind, 0) /\ UNCHANGED owner
    BY <1>3 DEF Lock
  <2>2. QED BY <1>1, <2>1, SentLast DEF ClearKey, VaultTypes
<1>4. QED BY <1>2, <1>3

LEMMA TypeStep == ASSUME SessionAssumption, TypeOK, [Next]_vars PROVE TypeOK'
<1>0. /\ 0 \in Session /\ AsTypes /\ LoginTypes /\ VaultTypes /\ McpTypes /\ CallTypes
      /\ WireTypes /\ BoundTypes /\ abandoned \in BOOLEAN
  BY TypesAreBoth DEF SessionAssumption, Session, ValueTypes
<1> USE DEF ValueTypes
<1>1. CASE UNCHANGED vars
  BY <1>1 DEF vars, TypeOK
<1>2. ASSUME AsStep PROVE ValueTypes'
  <2>1. PICK s \in 1 .. MaxLogins : Revoke(s) \/ Expire(s)
    BY <1>2 DEF AsStep
  <2>2. s \in Session
    BY DEF Session
  <2>3. AsTypes'
    BY <1>0, <2>1, <2>2 DEF Revoke, Expire, AsTypes
  <2>4. UNCHANGED <<login, vault, mcp, told, calls, wire, bound>>
    BY <2>1 DEF Revoke, Expire
  <2>5. QED BY <1>0, <2>3, <2>4, SameParts DEF wire
<1>3. ASSUME NEW t \in Tab, LoginStep(t) PROVE ValueTypes'
  <2>1. /\ login[t].account \in Account \cup {NoAccount} /\ login[t].session \in Session
        /\ login[t].pc \in {"idle", "as", "wiping"}
    BY <1>0 DEF LoginTypes
  <2>2. UNCHANGED <<mcp, told, calls, toCp, bound>>
    BY <1>3 DEF LoginStep, LoginStarts, LoginRefused, LoginEstablishes, DifferentAccount,
                LoginWipes, LoginWiped, wire
  <2>3. LoginTypes' /\ AsTypes'
    <3>1. ASSUME NEW a \in Account, LoginStarts(t, a) PROVE LoginTypes' /\ AsTypes'
      <4>1. sessions + 1 \in Session
        BY <1>0, <3>1 DEF LoginStarts, AsTypes, Session, SessionAssumption
      <4>2. QED BY <1>0, <3>1, <4>1 DEF LoginStarts, LoginTypes, AsTypes
    <3>2. CASE LoginRefused(t) \/ LoginEstablishes(t) \/ DifferentAccount(t) \/ LoginWiped(t)
      <4>1. login' = [login EXCEPT ![t] = Idle] /\ UNCHANGED as
        BY <3>2 DEF LoginRefused, LoginEstablishes, DifferentAccount, LoginWiped
      <4>2. QED BY <1>0, <4>1, SameParts DEF LoginTypes, Idle
    <3>3. CASE LoginWipes(t)
      BY <1>0, <3>3, SameParts DEF LoginWipes, LoginTypes
    <3>4. QED BY <1>3, <3>1, <3>2, <3>3 DEF LoginStep
  <2>4. VaultTypes'
    BY <1>0, <1>3, <2>1 DEF LoginStep, LoginStarts, LoginRefused, LoginEstablishes,
       DifferentAccount, LoginWipes, LoginWiped, VaultTypes, Establish, ClearKey, vault
  <2>5. toMcp' \in Seq(Message)
    <3>1. CASE Send("configure", login[t].session)
      BY <1>0, <2>1, <3>1, SentLast DEF WireTypes
    <3>2. CASE toMcp' = toMcp
      BY <1>0, <3>2 DEF WireTypes
    <3>3. QED
      BY <1>3, <3>1, <3>2 DEF LoginStep, LoginStarts, LoginRefused, LoginEstablishes,
         DifferentAccount, LoginWipes, LoginWiped, wire
  <2>6. QED BY <1>0, <2>2, <2>3, <2>4, <2>5, SameParts DEF WireTypes
<1>4. ASSUME SaveCredential PROVE ValueTypes'
  <2>1. VaultTypes'
    BY <1>0, <1>4 DEF SaveCredential, VaultTypes
  <2>2. QED BY <1>0, <1>4, <2>1, SameParts DEF SaveCredential, wire
<1>5. ASSUME NEW reached \in BOOLEAN, Logout(reached) PROVE ValueTypes'
  <2>1. /\ toMcp' \in Seq(Message) /\ VaultTypes'
    BY <1>0, <1>5, SentLast DEF Logout, WireTypes, VaultTypes, ClearKey
  <2>2. AsTypes'
    BY <1>0, <1>5 DEF Logout, AsTypes, VaultTypes
  <2>3. UNCHANGED <<login, mcp, told, calls, toCp, bound>>
    BY <1>5 DEF Logout
  <2>4. QED BY <1>0, <2>1, <2>2, <2>3, SameParts DEF WireTypes
<1>6. ASSUME EventArrives PROVE ValueTypes'
  <2>1. VaultTypes' /\ toMcp' \in Seq(Message)
    BY <1>0, <1>6, LockTypes DEF EventArrives, WireTypes
  <2>2. toCp' \in Nat
    BY <1>0, <1>6 DEF EventArrives, WireTypes
  <2>3. QED BY <1>0, <1>6, <2>1, <2>2, SameParts DEF EventArrives, WireTypes
<1>7. ASSUME NEW i \in DOMAIN toMcp, ConfigureArrives(i) \/ ClearArrives(i) \/ LoseRequest(i)
      PROVE  ValueTypes'
  <2>1. toMcp' \in Seq(Message) /\ toMcp[i] \in Message
    <3>1. toMcp' = Without(i) /\ toMcp \in Seq(Message)
      BY <1>0, <1>7 DEF ConfigureArrives, ClearArrives, LoseRequest, WireTypes
    <3>2. QED BY <3>1, WithoutOne, ElementOfSeq, LenProperties
  <2>2. McpTypes'
    BY <1>0, <1>7, <2>1 DEF ConfigureArrives, ClearArrives, LoseRequest, McpTypes,
       SetSessionCookie, Message
  <2>3. BoundTypes'
    <3>1. UNCHANGED bound \/ (faults' = faults + 1 /\ mismatches' = mismatches)
      BY <1>7 DEF ConfigureArrives, ClearArrives, LoseRequest, Fault
    <3>2. QED BY <1>0, <3>1 DEF BoundTypes, bound
  <2>4. UNCHANGED <<as, login, vault, calls, toCp>>
    BY <1>7 DEF ConfigureArrives, ClearArrives, LoseRequest
  <2>5. QED BY <1>0, <2>1, <2>2, <2>3, <2>4, SameParts DEF WireTypes
<1>8. ASSUME LoseEvent PROVE ValueTypes'
  <2>1. toCp' \in Nat /\ BoundTypes' /\ UNCHANGED <<as, login, vault, mcp, told, calls, toMcp>>
    BY <1>0, <1>8 DEF LoseEvent, Fault, WireTypes, BoundTypes
  <2>2. QED BY <1>0, <2>1, SameParts DEF WireTypes
<1>9. ASSUME NEW c \in CpCall \cup McpCall, CpStep(c) \/ McpStep(c) PROVE ValueTypes'
  <2>1. CallTypes'
    BY <1>0, <1>9 DEF CpStep, McpStep, CpSends, CpRefused, CpMismatch, Accepted, McpSends,
       McpRefused, McpTlsMismatch, McpKeyMismatch, Returned, CallTypes, VaultTypes, McpTypes
  <2>2. UNCHANGED as /\ UNCHANGED login
    BY <1>9 DEF CpStep, McpStep, CpSends, CpRefused, CpMismatch, Accepted, McpSends,
       McpRefused, McpTlsMismatch, McpKeyMismatch
  <2>3. BoundTypes'
    <3>1. \/ UNCHANGED bound
          \/ mismatches' = mismatches + 1 /\ faults' = faults
      BY <1>9 DEF CpStep, McpStep, CpSends, CpRefused, CpMismatch, Accepted, McpSends,
         McpRefused, McpTlsMismatch, McpKeyMismatch, Mismatch
    <3>2. QED BY <1>0, <3>1 DEF BoundTypes, bound
  <2>4. McpTypes' /\ toCp' \in Nat
    <3>1. \/ UNCHANGED <<mcp, told, toCp>>
          \/ UNCHANGED <<mcp, told>> /\ toCp' = toCp + 1
          \/ \E flag \in Flag : Tell(flag)
      BY <1>9 DEF CpStep, McpStep, CpSends, CpRefused, CpMismatch, Accepted, McpSends,
         McpRefused, McpTlsMismatch, McpKeyMismatch, Flag, wire
    <3>2. QED BY <1>0, <3>1 DEF McpTypes, WireTypes, Tell
  <2>5. VaultTypes' /\ toMcp' \in Seq(Message)
    <3>1. CASE Lock("clear")
      BY <1>0, <3>1, LockTypes DEF WireTypes
    <3>2. CASE UNCHANGED <<vault, toMcp>>
      BY <1>0, <3>2, SameParts DEF WireTypes
    <3>3. QED
      BY <1>9, <3>1, <3>2 DEF CpStep, McpStep, CpSends, CpRefused, CpMismatch, Accepted,
         McpSends, McpRefused, McpTlsMismatch, McpKeyMismatch, wire
  <2>6. QED BY <1>0, <2>1, <2>2, <2>3, <2>4, <2>5, SameParts DEF WireTypes
<1>10. ASSUME ScheduledLock PROVE ValueTypes'
  <2>1. VaultTypes' /\ toMcp' \in Seq(Message)
    BY <1>0, <1>10, LockTypes DEF ScheduledLock, WireTypes
  <2>2. QED BY <1>0, <1>10, <2>1, SameParts DEF ScheduledLock, WireTypes
<1>11. [Next]_vars => (abandoned \in BOOLEAN)'
  BY <1>0, Zenon DEF Next, vars, AsStep, Revoke, Expire, LoginStep, LoginStarts, LoginRefused,
     LoginEstablishes, DifferentAccount, LoginWipes, LoginWiped, SaveCredential, Logout, Send,
     Delivery, EventArrives, Lock, ConfigureArrives, ClearArrives, Loss, LoseEvent, LoseRequest,
     CpStep, McpStep, CpSends, CpRefused, CpMismatch, Accepted, McpSends, McpRefused,
     McpTlsMismatch, McpKeyMismatch, ScheduledLock, wire
<1>12. CASE Next
  <2>1. ValueTypes'
    <3>1. CASE Delivery \/ Loss
      <4>1. Servable \subseteq DOMAIN toMcp
        <5>1. toMcp # <<>> => 1 \in DOMAIN toMcp
          BY <1>0, EmptySeq, LenProperties DEF WireTypes
        <5>2. QED BY <5>1 DEF Servable
      <4>2. QED BY <3>1, <4>1, <1>6, <1>7, <1>8 DEF Delivery, Loss
    <3>2. QED BY <1>12, <3>1, <1>2, <1>3, <1>4, <1>5, <1>9, <1>10 DEF Next
  <2>2. QED
    BY <1>11, <1>12, <2>1, Zenon DEF TypeOK, AsTypes, LoginTypes, VaultTypes, McpTypes,
       CallTypes, WireTypes, BoundTypes
<1>13. QED BY <1>1, <1>12

-----------------------------------------------------------------------------
(* The vault.                                                               *)

\* Each step either leaves the vault and the logins alone, or is one of these.
LEMMA VaultSteps ==
  ASSUME [Next]_vars
  PROVE  \/ UNCHANGED <<login, vault>>
         \/ \E t \in Tab : LoginStep(t)
         \/ SaveCredential
         \/ ClearKey /\ UNCHANGED <<login, owner>>
<1>1. CASE AsStep \/ Loss \/ UNCHANGED vars
  BY <1>1 DEF AsStep, Revoke, Expire, Loss, LoseEvent, LoseRequest, vars, vault
<1>2. ASSUME NEW kind, Lock(kind), login' = login
      PROVE  UNCHANGED <<login, vault>> \/ (ClearKey /\ UNCHANGED <<login, owner>>)
  BY <1>2 DEF Lock
<1>3. CASE Delivery
  BY <1>2, <1>3 DEF Delivery, EventArrives, ConfigureArrives, ClearArrives
<1>4. CASE \/ \E c \in CpCall : CpStep(c)
           \/ \E c \in McpCall : McpStep(c)
  BY <1>2, <1>4 DEF CpStep, McpStep, CpSends, CpRefused, CpMismatch, Accepted, McpSends,
     McpRefused, McpTlsMismatch, McpKeyMismatch
<1>5. CASE ScheduledLock
  BY <1>2, <1>5 DEF ScheduledLock
<1>6. CASE \E reached \in BOOLEAN : Logout(reached)
  BY <1>6 DEF Logout
<1>7. QED
  BY <1>1, <1>3, <1>4, <1>5, <1>6 DEF Next

LEMMA LoginsStep ==
  ASSUME SessionAssumption, TypeOK, LoginsAreWhole, [Next]_vars
  PROVE  LoginsAreWhole'
<1> USE DEF LoginsAreWhole, Unlocked
<1>1. CASE UNCHANGED <<login, vault>>
  BY <1>1 DEF vault
<1>2. ASSUME NEW t \in Tab, LoginStep(t) PROVE LoginsAreWhole'
  <2>1. sessions \in Nat /\ NoAccount \notin Account /\ login = [u \in Tab |-> login[u]]
    BY DEF TypeOK, Session, SessionAssumption
  <2>2. ASSUME NEW a \in Account, LoginStarts(t, a) PROVE LoginsAreWhole'
    BY <2>1, <2>2 DEF LoginStarts, vault
  <2>3. CASE LoginRefused(t)
    BY <2>1, <2>3 DEF LoginRefused, Idle, vault
  <2>4. CASE LoginEstablishes(t)
    BY <2>1, <2>4 DEF LoginEstablishes, Establish, Idle
  <2>5. CASE DifferentAccount(t)
    BY <2>1, <2>5 DEF DifferentAccount, ClearKey, Idle
  <2>6. CASE LoginWipes(t)
    BY <2>1, <2>6 DEF LoginWipes, TypeOK
  <2>7. CASE LoginWiped(t)
    BY <2>1, <2>7 DEF LoginWiped, Establish, Idle
  <2>8. QED BY <1>2, <2>2, <2>3, <2>4, <2>5, <2>6, <2>7 DEF LoginStep
<1>3. CASE SaveCredential
  BY <1>3 DEF SaveCredential
<1>4. CASE ClearKey /\ UNCHANGED <<login, owner>>
  BY <1>4 DEF ClearKey
<1>5. QED BY <1>1, <1>2, <1>3, <1>4, VaultSteps

LEMMA WholeStep ==
  ASSUME SessionAssumption, TypeOK, LoginsAreWhole, WholeSession, [Next]_vars
  PROVE  WholeSession'
<1> USE DEF WholeSession, Unlocked, Wiping
<1>1. CASE UNCHANGED <<login, vault>>
  BY <1>1 DEF vault
<1>2. ASSUME NEW t \in Tab, LoginStep(t) PROVE WholeSession'
  <2>1. /\ login = [u \in Tab |-> login[u]] /\ NoAccount \notin Account
        /\ login[t].pc # "idle" => login[t].account \in Account /\ login[t].session # 0
    BY DEF TypeOK, SessionAssumption, LoginsAreWhole
  <2>2. ASSUME NEW a \in Account, LoginStarts(t, a) PROVE WholeSession'
    BY <2>1, <2>2 DEF LoginStarts, vault
  <2>3. CASE LoginRefused(t)
    BY <2>1, <2>3 DEF LoginRefused, Idle, vault
  <2>4. CASE LoginEstablishes(t)
    BY <2>1, <2>4 DEF LoginEstablishes, Establish, OtherAccount
  <2>5. CASE DifferentAccount(t)
    BY <2>5 DEF DifferentAccount, ClearKey
  <2>6. CASE LoginWipes(t)
    BY <2>1, <2>6 DEF LoginWipes, TypeOK
  <2>7. CASE LoginWiped(t)
    BY <2>1, <2>7 DEF LoginWiped, Establish
  <2>8. QED BY <1>2, <2>2, <2>3, <2>4, <2>5, <2>6, <2>7 DEF LoginStep
<1>3. CASE SaveCredential
  BY <1>3 DEF SaveCredential
<1>4. CASE ClearKey /\ UNCHANGED <<login, owner>>
  BY <1>4 DEF ClearKey
<1>5. QED BY <1>1, <1>2, <1>3, <1>4, VaultSteps

-----------------------------------------------------------------------------
(* The two processes.                                                       *)

\* What the vault and the loopback have left to agree on is untouched by what
\* takes no event away and changes neither the vault nor what will be held.
LEMMA AgreeFrame ==
  ASSUME TypeOK, WillAgree, toCp' \in Nat, toCp' >= toCp, UNCHANGED <<login, vault, abandoned>>,
         faults' = faults, WillHold' = WillHold \/ toCp' > toCp,
         WillHold' = WillHold \/ WillHold' = 0,
         mcp' # 0 => told' = {}
  PROVE  WillAgree'
BY DEF WillAgree, Unlocked, Wiping, vault, TypeOK

\* A lock that clears the vault settles it.
LEMMA LockSettles ==
  ASSUME SessionAssumption, TypeOK, LoginsAreWhole, WillAgree, NEW kind \in {"clear", "echo"},
         Lock(kind), UNCHANGED <<login, mcp, told>>, faults' = faults, toCp' \in Nat,
         Unlocked \/ toCp' >= toCp \/ toCp > 0
  PROVE  WillAgree'
<1>1. toMcp \in Seq(Message)
  BY DEF TypeOK
<1>2. \/ /\ ~Unlocked /\ UNCHANGED <<vault, abandoned>> /\ WillHold' = WillHold
      \/ /\ key' = NoAccount /\ abandoned' = FALSE /\ WillHold' = 0
  BY <1>1, LockTells
<1>3. QED
  BY <1>2 DEF WillAgree, Unlocked, Wiping, vault

LEMMA AgreeStep ==
  ASSUME InOrder, SessionAssumption, TypeOK, LoginsAreWhole, WillAgree, [Next]_vars
  PROVE  WillAgree'
<1>0. /\ toMcp \in Seq(Message) /\ toCp \in Nat /\ faults \in Nat /\ cookie \in Session
      /\ 0 \in Session /\ (mcp # 0 => told = {})
  BY DEF TypeOK, WillAgree, SessionAssumption, Session
<1>1. CASE UNCHANGED vars
  <2>1. WillHold' = WillHold
    BY <1>1, SameHold DEF vars
  <2>2. QED BY <1>0, <1>1, <2>1, AgreeFrame DEF vars, vault
<1>2. CASE AsStep
  <2>1. UNCHANGED <<login, vault, mcp, told, wire, bound>>
    BY <1>2 DEF AsStep, Revoke, Expire
  <2>2. WillHold' = WillHold
    BY <2>1, SameHold DEF wire
  <2>3. QED BY <1>0, <2>1, <2>2, AgreeFrame DEF wire, bound
<1>3. ASSUME NEW t \in Tab, LoginStep(t) PROVE WillAgree'
  <2>1. /\ login = [u \in Tab |-> login[u]] /\ NoAccount \notin Account
        /\ login[t].pc # "idle" => login[t].account \in Account
        /\ login[t].session \in Session
    BY DEF TypeOK, SessionAssumption, LoginsAreWhole
  <2>2. CASE LoginRefused(t) \/ \E a \in Account : LoginStarts(t, a)
    <3>1. UNCHANGED <<vault, mcp, told, wire, bound>>
      BY <2>2 DEF LoginRefused, LoginStarts
    <3>2. login[t].pc # "wiping" /\ login'[t].pc # "wiping"
      <4>1. ASSUME NEW a \in Account, LoginStarts(t, a)
            PROVE  login[t].pc # "wiping" /\ login'[t].pc # "wiping"
        BY <2>1, <4>1 DEF LoginStarts
      <4>2. ASSUME LoginRefused(t)
            PROVE  login[t].pc # "wiping" /\ login'[t].pc # "wiping"
        BY <2>1, <4>2 DEF LoginRefused, Idle
      <4>3. QED BY <2>2, <4>1, <4>2
    <3>3. \A u \in Tab \ {t} : login'[u] = login[u]
      BY <2>1, <2>2 DEF LoginRefused, LoginStarts
    <3>4. Wiping' <=> Wiping
      BY <3>2, <3>3 DEF Wiping
    <3>5. WillHold' = WillHold
      BY <3>1, SameHold DEF wire
    <3>6. QED BY <3>1, <3>4, <3>5 DEF WillAgree, Unlocked, vault, wire, bound
  <2>3. CASE LoginEstablishes(t) \/ LoginWiped(t)
    <3>1. /\ Establish(login[t].account, login[t].session) /\ login[t].account \in Account
          /\ Send("configure", login[t].session) /\ UNCHANGED <<mcp, told, bound>>
      BY <2>1, <2>3 DEF LoginEstablishes, LoginWiped
    <3>2. WillHold' = cookie' /\ key' # NoAccount
      BY <1>0, <2>1, <3>1, SentLast DEF Establish
    <3>3. QED BY <3>1, <3>2 DEF WillAgree, Unlocked
  <2>4. CASE DifferentAccount(t)
    <3>1. key' = NoAccount /\ abandoned' = TRUE /\ UNCHANGED <<mcp, told>>
      BY <2>4 DEF DifferentAccount, ClearKey
    <3>2. QED BY <3>1 DEF WillAgree, Unlocked
  <2>5. CASE LoginWipes(t)
    <3>1. Wiping' /\ key' # NoAccount /\ UNCHANGED <<mcp, told>>
      BY <2>1, <2>5 DEF LoginWipes, Wiping, TypeOK
    <3>2. QED BY <3>1 DEF WillAgree, Unlocked
  <2>6. QED BY <1>3, <2>2, <2>3, <2>4, <2>5 DEF LoginStep
<1>4. CASE SaveCredential
  <2>1. UNCHANGED <<login, key, cookie, mcp, told, wire, bound>>
    BY <1>4 DEF SaveCredential
  <2>2. WillHold' = WillHold
    BY <2>1, SameHold DEF wire
  <2>3. QED BY <2>1, <2>2 DEF WillAgree, Unlocked, Wiping, wire, bound
<1>5. ASSUME NEW reached \in BOOLEAN, Logout(reached) PROVE WillAgree'
  <2>1. key' = NoAccount /\ Send("clear", 0) /\ UNCHANGED <<mcp, told>>
    BY <1>5 DEF Logout, ClearKey
  <2>2. WillHold' = 0
    BY <1>0, <2>1, SentLast
  <2>3. QED BY <2>1, <2>2 DEF WillAgree, Unlocked
<1>6. CASE EventArrives
  BY <1>0, <1>6, LockSettles DEF EventArrives, bound
<1>7. ASSUME NEW i \in Servable, ConfigureArrives(i) \/ ClearArrives(i) PROVE WillAgree'
  <2>1. WillHold' = WillHold
    BY <1>7, ServedInOrder
  <2>2. UNCHANGED <<login, vault, abandoned, toCp, bound>> /\ (mcp' # 0 => told' = {})
    BY <1>7 DEF ConfigureArrives, ClearArrives, SetSessionCookie
  <2>3. QED BY <1>0, <2>1, <2>2, AgreeFrame DEF bound
<1>8. CASE Loss
  <2>1. faults' = faults + 1 /\ UNCHANGED <<mcp, told>>
    BY <1>8 DEF Loss, LoseEvent, LoseRequest, Fault
  <2>2. QED BY <1>0, <2>1 DEF WillAgree
<1>9. ASSUME NEW c \in CpCall, CpStep(c) PROVE WillAgree'
  <2>1. CASE CpSends(c) \/ Accepted(c)
    <3>1. UNCHANGED <<login, vault, mcp, told, wire, bound>>
      BY <2>1 DEF CpSends, Accepted
    <3>2. WillHold' = WillHold
      BY <3>1, SameHold DEF wire
    <3>3. QED BY <1>0, <3>1, <3>2, AgreeFrame DEF wire, bound
  <2>2. CASE CpRefused(c) \/ CpMismatch(c)
    <3>1. Lock("clear") /\ UNCHANGED <<login, mcp, told, toCp>> /\ faults' = faults
      BY <2>2 DEF CpRefused, CpMismatch, bound
    <3>2. QED BY <1>0, <3>1, LockSettles
  <2>3. QED BY <1>9, <2>1, <2>2 DEF CpStep
<1>10. ASSUME NEW c \in McpCall, McpStep(c) PROVE WillAgree'
  <2>1. CASE McpSends(c) \/ Accepted(c)
    <3>1. UNCHANGED <<login, vault, mcp, told, wire, bound>>
      BY <2>1 DEF McpSends, Accepted
    <3>2. WillHold' = WillHold
      BY <3>1, SameHold DEF wire
    <3>3. QED BY <1>0, <3>1, <3>2, AgreeFrame DEF wire, bound
  <2>2. CASE McpRefused(c) \/ McpTlsMismatch(c)
    <3>1. /\ \E flag \in Flag : Tell(flag)
          /\ UNCHANGED <<login, vault, toMcp, abandoned>> /\ faults' = faults
      BY <2>2 DEF McpRefused, McpTlsMismatch, Flag, bound
    <3>2. mcp' = 0 /\ toCp' \in Nat /\ toCp' >= toCp
      BY <1>0, <3>1 DEF Tell
    <3>3. WillHold' = WillHold \/ WillHold' = 0
      BY <3>1, <3>2 DEF WillHold
    <3>4. WillHold' = WillHold \/ toCp' > toCp
      <4>1. CASE mcp = 0
        BY <3>1, <3>2, <4>1, SameHold
      <4>2. CASE mcp # 0
        BY <1>0, <3>1, <4>2 DEF Tell
      <4>3. QED BY <4>1, <4>2
    <3>5. QED BY <3>1, <3>2, <3>3, <3>4, AgreeFrame
  <2>3. CASE McpKeyMismatch(c)
    <3>1. /\ UNCHANGED <<login, vault, mcp, told, toMcp, abandoned>> /\ faults' = faults
          /\ toCp' = toCp + 1
      BY <2>3 DEF McpKeyMismatch
    <3>2. WillHold' = WillHold
      BY <3>1, SameHold
    <3>3. QED BY <1>0, <3>1, <3>2, AgreeFrame
  <2>4. QED BY <1>10, <2>1, <2>2, <2>3 DEF McpStep
<1>11. CASE ScheduledLock
  BY <1>0, <1>11, LockSettles DEF ScheduledLock, bound
<1>12. QED
  BY <1>1, <1>2, <1>3, <1>4, <1>5, <1>6, <1>7, <1>8, <1>9, <1>10, <1>11 DEF Next, Delivery

-----------------------------------------------------------------------------
(* What follows for every behaviour.                                        *)

LEMMA SessionInvariant == ASSUME SessionAssumption PROVE Spec => []SessionInv
<1>1. Init => SessionInv
  <2> SUFFICES ASSUME Init PROVE SessionInv
    OBVIOUS
  <2>1. LoginsAreWhole /\ WholeSession /\ WillAgree
    BY DEF Init, LoginsAreWhole, WholeSession, WillAgree, WillHold, Unlocked, Idle
  <2>2. QED BY <2>1, InitTypes DEF SessionInv
<1>2. SessionInv /\ [Next]_vars => SessionInv'
  BY TypeStep, LoginsStep, WholeStep, AgreeStep DEF SessionInv
<1>3. QED BY <1>1, <1>2, PTL DEF Spec

\* Every reachable state is well typed.
THEOREM SessionTypes == ASSUME SessionAssumption PROVE Spec => []TypeOK
<1>1. SessionInv => TypeOK
  BY DEF SessionInv
<1>2. QED BY <1>1, SessionInvariant, PTL

\* Whatever logins, locks, wipes and losses it ran among, and in whatever order
\* loopback requests are served: an unlocked vault that nobody is wiping has a
\* session, that session's expiry, and a key that opens what is stored.
THEOREM SessionIsWhole == ASSUME SessionAssumption PROVE Spec => []WholeSession
<1>1. SessionInv => WholeSession
  BY DEF SessionInv
<1>2. QED BY <1>1, SessionInvariant, PTL

\* Served in the order sent and with no loopback request lost, the MCP server
\* holds the very session the vault holds whenever nothing is under way.
THEOREM ProcessesAgree ==
  ASSUME SessionAssumption, InOrder
  PROVE  Spec => []Agreement
<1>1. SessionInv => Agreement
  <2> SUFFICES ASSUME SessionInv, Quiet, faults = 0, ~Wiping,
                      ~(abandoned /\ ~Unlocked)
               PROVE  mcp = cookie
    BY DEF Agreement
  <2>1. WillHold = mcp /\ ~(toCp > 0) /\ WillAgree
    BY DEF WillHold, Quiet, SessionInv
  <2>2. CASE Unlocked
    BY <2>1, <2>2 DEF WillAgree
  <2>3. CASE ~Unlocked
    BY <2>1, <2>3 DEF WillAgree, SessionInv, LoginsAreWhole
  <2>4. QED BY <2>2, <2>3
<1>2. QED BY <1>1, SessionInvariant, PTL

-----------------------------------------------------------------------------
(* The expiry timer.                                                        *)

\* The precise timer is set for the end of the session, or for a moment before
\* it at which it will be set again.
PreciseIsRight ==
  (sleeps = 0 /\ setBacks = 0 /\ expiresAt # NoTime) =>
    /\ precise.left >= 0
    /\ now + precise.left <= expiresAt
    /\ precise.does = "check" => now + precise.left = expiresAt

\* A session outlives its end only between two rounds of the coarse check.
CoarseIsNear == overdue > 0 => Reached /\ overdue + coarse <= Coarse

TimerInv == TimerTypeOK /\ PreciseIsRight /\ CoarseIsNear

\* A timer is set neither beyond the end of the session nor beyond what
\* setTimeout() can count, and what is not chained ends with the session.
LEMMA TimerForIsRight ==
  ASSUME TimesAssumption, NEW exp \in Times \cup {NoTime}, now \in Times
  PROVE  /\ TimerFor(exp) \in [left : NoTime..MaxDelay, does : {"check", "reschedule"}]
         /\ exp # NoTime /\ now <= exp =>
              /\ TimerFor(exp).left >= 0
              /\ now + TimerFor(exp).left <= exp
              /\ TimerFor(exp).does = "check" => now + TimerFor(exp).left = exp
BY DEF TimesAssumption, TimerFor, NoTimer, NoTime, Times

\* No session, no timer, nothing overdue.
LEMMA TimerInvInit == ASSUME TimesAssumption, TimerInit PROVE TimerInv
BY DEF TimesAssumption, TimerInit, TimerInv, TimerTypeOK, PreciseIsRight, CoarseIsNear,
       NoTimer, NoTime, Times

\* Every step of the timer, the clock and the machine that sleeps keeps it.
LEMMA TimerInvStep ==
  ASSUME TimesAssumption, TimerInv, [TimerNext]_timerVars
  PROVE  TimerInv'
<1>0. TimerTypeOK /\ PreciseIsRight /\ CoarseIsNear
  BY DEF TimerInv
<1>1. CASE UNCHANGED timerVars
  BY <1>0, <1>1 DEF timerVars, TimerInv, TimerTypeOK, PreciseIsRight, CoarseIsNear, Reached, Times
<1>2. CASE PreciseFires
  <2>1. CASE precise.does = "reschedule"
    <3>1. /\ precise' = TimerFor(expiresAt) /\ precise.left = 0
          /\ UNCHANGED <<now, expiresAt, overdue, coarse, sleeps, setBacks, logins>>
      BY <1>2, <2>1 DEF PreciseFires
    <3>2. /\ TimerFor(expiresAt) \in [left : NoTime..MaxDelay, does : {"check", "reschedule"}]
          /\ expiresAt # NoTime /\ now <= expiresAt =>
              /\ TimerFor(expiresAt).left >= 0
              /\ now + TimerFor(expiresAt).left <= expiresAt
              /\ TimerFor(expiresAt).does = "check" =>
                   now + TimerFor(expiresAt).left = expiresAt
      BY <1>0, TimerForIsRight DEF TimerTypeOK
    <3>3. TimerTypeOK'
      BY <1>0, <3>1, <3>2 DEF TimerTypeOK, Times
    <3>4. PreciseIsRight'
      BY <1>0, <3>1, <3>2 DEF PreciseIsRight, TimerTypeOK, Times
    <3>5. CoarseIsNear'
      BY <1>0, <3>1 DEF CoarseIsNear, Reached
    <3>6. QED BY <3>3, <3>4, <3>5 DEF TimerInv
  <2>2. CASE precise.does = "check"
    <3>1. /\ Check /\ precise' = NoTimer /\ precise.left = 0
          /\ UNCHANGED <<now, coarse, sleeps, setBacks, logins>>
      BY <1>2, <2>2 DEF PreciseFires
    <3>2. QED
      BY <1>0, <2>2, <3>1 DEF Check, Reached, TimerInv, TimerTypeOK, PreciseIsRight, CoarseIsNear,
           NoTimer, NoTime, Times, TimesAssumption
  <2>3. QED BY <1>2, <2>1, <2>2 DEF PreciseFires
<1>3. CASE CoarseFires
  BY <1>0, <1>3 DEF CoarseFires, Check, Reached, TimerInv, TimerTypeOK, PreciseIsRight,
     CoarseIsNear, NoTime, Times, TimesAssumption
<1>4. CASE Login
  <2>1. PICK life \in Lifetimes :
          now + life <= MaxNow /\ expiresAt' = now + life /\ precise' = TimerFor(now + life)
    BY <1>4 DEF Login
  <2>2. /\ overdue' = 0 /\ logins < MaxSessions /\ logins' = logins + 1
        /\ UNCHANGED <<now, coarse, sleeps, setBacks>>
    BY <1>4 DEF Login
  <2>3. now + life \in Times /\ now <= now + life /\ now + life # NoTime
    BY <1>0, <2>1 DEF TimerTypeOK, Times, TimesAssumption, NoTime
  <2>4. /\ precise' \in [left : NoTime..MaxDelay, does : {"check", "reschedule"}]
        /\ precise'.left >= 0
        /\ now + precise'.left <= now + life
        /\ precise'.does = "check" => now + precise'.left = now + life
    BY <1>0, <2>1, <2>3, TimerForIsRight DEF TimerTypeOK
  <2>5. QED
    BY <1>0, <2>1, <2>2, <2>3, <2>4
       DEF TimerInv, TimerTypeOK, PreciseIsRight, CoarseIsNear, TimesAssumption
<1>5. CASE LockedElsewhere
  BY <1>0, <1>5 DEF LockedElsewhere, TimerInv, TimerTypeOK, PreciseIsRight, CoarseIsNear
<1>6. CASE TimerTick
  <2>1. /\ precise' = [precise EXCEPT !.left = IF precise.left = NoTime THEN NoTime
                                               ELSE precise.left - 1]
        /\ precise.left # 0 /\ coarse # 0 /\ now < MaxNow + Coarse
        /\ now' = now + 1 /\ coarse' = coarse - 1
        /\ overdue' = IF Reached THEN overdue + 1 ELSE 0
        /\ UNCHANGED <<expiresAt, sleeps, setBacks, logins>>
    BY <1>0, <1>6 DEF TimerTick, LeftAfter, TimerTypeOK, NoTime, TimesAssumption
  <2>2. /\ precise'.left = IF precise.left = NoTime THEN NoTime ELSE precise.left - 1
        /\ precise'.does = precise.does
        /\ precise' \in [left : NoTime..MaxDelay, does : {"check", "reschedule"}]
    BY <1>0, <2>1 DEF TimerTypeOK, NoTime, TimesAssumption
  <2>3. TimerTypeOK'
    BY <1>0, <2>1, <2>2 DEF TimerTypeOK, Times, TimesAssumption
  <2>4. PreciseIsRight'
    BY <1>0, <2>1, <2>2 DEF PreciseIsRight, TimerTypeOK, Times, NoTime, TimesAssumption
  <2>5. CoarseIsNear'
    BY <1>0, <2>1 DEF CoarseIsNear, Reached, TimerTypeOK, Times, NoTime, TimesAssumption
  <2>6. QED BY <2>3, <2>4, <2>5 DEF TimerInv
<1>7. CASE Sleep
  BY <1>0, <1>7 DEF Sleep, Reached, TimerInv, TimerTypeOK, PreciseIsRight, CoarseIsNear, Times,
     NoTime, TimesAssumption
<1>8. CASE SetBack
  BY <1>0, <1>8 DEF SetBack, Reached, TimerInv, TimerTypeOK, PreciseIsRight, CoarseIsNear, Times,
     NoTime, TimesAssumption
<1>9. QED BY <1>1, <1>2, <1>3, <1>4, <1>5, <1>6, <1>7, <1>8 DEF TimerNext

\* Awake and with an honest clock a session is locked at its end, otherwise
\* within one coarse interval of time awake, whatever the length of a session,
\* of a timer and of the interval.
THEOREM ExpiryKept == ASSUME TimesAssumption PROVE TimerSpec => []ExpiryIsKept
<1>1. TimerInit => TimerInv
  BY TimerInvInit
<1>2. TimerInv /\ [TimerNext]_timerVars => TimerInv'
  BY TimerInvStep
<1>3. TimerInv => ExpiryIsKept
  BY DEF TimerInv, TimerTypeOK, PreciseIsRight, CoarseIsNear, ExpiryIsKept, OnTime,
         CaughtByTheCoarseCheck, Times, NoTime, TimesAssumption
<1>4. QED BY <1>1, <1>2, <1>3, PTL DEF TimerSpec

-----------------------------------------------------------------------------
(* The doorbell.                                                            *)

\* What is remembered of the window is what waits: how many, of which kinds.
WindowIsWhatWaits ==
  /\ \A e \in waiting :
       e.kind \in EventKind /\ e.at \in Nat /\ e.at <= time /\ e.nth \in Nat /\ e.nth < observed
  /\ \A k \in EventKind : k \in seen <=> \E e \in waiting : e.kind = k
  /\ IsFiniteSet(waiting) /\ Cardinality(waiting) = observed

\* Outside of a quiet period a ring is due as soon as something waits; inside of
\* one it is noted that it is.
RingIsDue ==
  /\ cooldown = Off =>
       /\ rang + Cooldown <= time
       /\ ~ pending
       /\ debounce = Off => waiting = {}
  /\ cooldown # Off =>
       /\ debounce = Off
       /\ rang + Cooldown = time + cooldown
       /\ pending <=> waiting # {}
       /\ \A e \in waiting : time - e.at <= Cooldown - cooldown
  /\ debounce # Off =>
       /\ waiting # {}
       /\ \A e \in waiting : time - e.at <= Debounce - debounce

BellNumbers ==
  /\ time \in Nat /\ rang \in Int /\ observed \in Nat
  /\ debounce \in Off..Debounce /\ cooldown \in Off..Cooldown
  /\ seen \subseteq EventKind

BellInv == BellNumbers /\ WindowIsWhatWaits /\ RingIsDue
\* A ring empties the window, and a quiet period begins with it.
LEMMA RungInv ==
  ASSUME BellAssumption, BellNumbers, Fire, debounce' = Off, ~ pending'
  PROVE  BellInv'
<1>1. WindowIsWhatWaits'
  BY FS_EmptySet DEF Fire, WindowIsWhatWaits
<1>2. BellNumbers' /\ cooldown' # Off
  BY DEF Fire, BellNumbers, BellAssumption, Off
<1>3. RingIsDue'
  BY <1>2 DEF Fire, RingIsDue, BellNumbers, BellAssumption, Off
<1>4. QED BY <1>1, <1>2, <1>3 DEF BellInv

\* At first nothing waits and nothing is due.
LEMMA BellInvInit == ASSUME BellAssumption, BellInit PROVE BellInv
<1>1. WindowIsWhatWaits
  BY FS_EmptySet DEF BellInit, WindowIsWhatWaits
<1>2. BellNumbers /\ RingIsDue
  BY DEF BellInit, BellNumbers, RingIsDue, BellAssumption, Off
<1>3. QED BY <1>1, <1>2 DEF BellInv

\* Every trigger, timer and moment keeps it.
LEMMA BellInvStep ==
  ASSUME BellAssumption, BellInv, [BellNext]_bellVars
  PROVE  BellInv'
<1>0. BellNumbers /\ WindowIsWhatWaits /\ RingIsDue
  BY DEF BellInv
<1>1. CASE UNCHANGED bellVars
  BY <1>0, <1>1 DEF bellVars, BellInv, BellNumbers, WindowIsWhatWaits, RingIsDue
<1>2. ASSUME NEW k \in EventKind, OnTrigger(k) PROVE BellInv'
  <2> DEFINE e == [kind |-> k, at |-> time, nth |-> observed]
  <2>1. /\ waiting' = waiting \cup {e} /\ observed' = observed + 1 /\ seen' = seen \cup {k}
        /\ UNCHANGED <<time, cooldown, rang>>
    BY <1>2 DEF OnTrigger, Counts
  <2>2. e.kind = k /\ e.at = time /\ e.nth = observed
    OBVIOUS
  <2> HIDE DEF e
  <2>3. e \notin waiting
    BY <1>0, <2>2 DEF WindowIsWhatWaits, BellNumbers
  <2>4. IsFiniteSet(waiting') /\ Cardinality(waiting') = observed + 1
    BY <1>0, <2>1, <2>3, FS_AddElement DEF WindowIsWhatWaits
  <2>5. WindowIsWhatWaits'
    <3>1. \A d \in waiting' : d.kind \in EventKind /\ d.at \in Nat /\ d.at <= time
                              /\ d.nth \in Nat /\ d.nth < observed + 1
      BY <1>0, <2>1, <2>2 DEF WindowIsWhatWaits, BellNumbers
    <3>2. \A j \in EventKind : j \in seen' <=> \E d \in waiting' : d.kind = j
      BY <1>0, <2>1, <2>2 DEF WindowIsWhatWaits
    <3>3. QED BY <2>1, <2>4, <3>1, <3>2 DEF WindowIsWhatWaits
  <2>6. /\ waiting' # {} /\ time - e.at = 0
        /\ \A d \in waiting' : d \in waiting \/ d = e
    BY <1>0, <2>1, <2>2 DEF BellNumbers
  <2>7. CASE cooldown # Off
    <3>1. pending' /\ debounce' = debounce
      BY <1>2, <2>7 DEF OnTrigger
    <3>2. RingIsDue'
      BY <1>0, <2>1, <2>6, <2>7, <3>1 DEF RingIsDue, BellNumbers, BellAssumption
    <3>3. BellNumbers'
      BY <1>0, <2>1, <3>1 DEF BellNumbers
    <3>4. QED BY <2>5, <3>2, <3>3 DEF BellInv
  <2>8. CASE cooldown = Off
    <3>1. /\ debounce' = IF debounce # Off THEN debounce ELSE Debounce
          /\ pending' = pending
      BY <1>2, <2>8 DEF OnTrigger
    <3>2. RingIsDue'
      <4>1. debounce' # Off /\ debounce' \in Off..Debounce
        BY <1>0, <3>1 DEF BellNumbers, BellAssumption, Off
      <4>2. \A d \in waiting' : time - d.at <= Debounce - debounce'
        <5>1. CASE debounce = Off
          BY <1>0, <2>1, <2>6, <2>8, <3>1, <5>1 DEF RingIsDue, BellAssumption
        <5>2. CASE debounce # Off
          BY <1>0, <2>1, <2>6, <3>1, <5>2 DEF RingIsDue, BellNumbers, BellAssumption
        <5>3. QED BY <5>1, <5>2
      <4>3. QED BY <1>0, <2>1, <2>6, <2>8, <3>1, <4>1, <4>2 DEF RingIsDue
    <3>3. BellNumbers'
      BY <1>0, <2>1, <3>1 DEF BellNumbers, BellAssumption, Off
    <3>4. QED BY <2>5, <3>2, <3>3 DEF BellInv
  <2>9. QED BY <2>7, <2>8
<1>3. CASE DebounceEnds
  <2>1. cooldown = Off /\ debounce' = Off /\ pending' = pending /\ Fire
    BY <1>0, <1>3 DEF DebounceEnds, RingIsDue, Off
  <2>2. ~ pending'
    BY <1>0, <2>1 DEF RingIsDue
  <2>3. QED BY <1>0, <2>1, <2>2, RungInv
<1>4. CASE CooldownEnds
  <2>1. CASE pending /\ pending' = FALSE /\ Fire /\ UNCHANGED debounce
    <3>1. debounce' = Off
      BY <1>0, <1>4, <2>1 DEF CooldownEnds, RingIsDue, Off
    <3>2. QED BY <1>0, <2>1, <3>1, RungInv
  <2>2. CASE /\ ~pending /\ cooldown' = Off
             /\ UNCHANGED <<time, debounce, pending, seen, observed, waiting, rang>>
    <3>1. cooldown = 0 /\ cooldown # Off
      BY <1>4 DEF CooldownEnds, Off
    <3>2. WindowIsWhatWaits'
      BY <1>0, <2>2 DEF WindowIsWhatWaits
    <3>3. BellNumbers' /\ RingIsDue'
      BY <1>0, <2>2, <3>1 DEF BellNumbers, RingIsDue, BellAssumption, Off
    <3>4. QED BY <3>2, <3>3 DEF BellInv
  <2>3. QED BY <1>4, <2>1, <2>2 DEF CooldownEnds
<1>5. CASE Toggle
  BY <1>0, <1>5 DEF Toggle, BellInv, BellNumbers, WindowIsWhatWaits, RingIsDue
<1>6. CASE BellTick
  <2>1. /\ debounce # 0 /\ cooldown # 0 /\ time' = time + 1
        /\ debounce' = IF debounce = Off THEN Off ELSE debounce - 1
        /\ cooldown' = IF cooldown = Off THEN Off ELSE cooldown - 1
        /\ UNCHANGED <<pending, seen, observed, waiting, rang>>
    BY <1>6 DEF BellTick, OneLess
  <2>2. WindowIsWhatWaits'
    BY <1>0, <2>1 DEF WindowIsWhatWaits, BellNumbers
  <2>3. BellNumbers'
    BY <1>0, <2>1 DEF BellNumbers, BellAssumption, Off
  <2>4. RingIsDue'
    <3>1. \A d \in waiting' : d.at \in Nat
      BY <1>0, <2>1 DEF WindowIsWhatWaits
    <3>2. (cooldown' = Off <=> cooldown = Off) /\ (debounce' = Off <=> debounce = Off)
      BY <1>0, <2>1 DEF BellNumbers, BellAssumption, Off
    <3>3. cooldown = Off =>
            rang' + Cooldown <= time' /\ ~ pending' /\ (debounce = Off => waiting' = {})
      BY <1>0, <2>1 DEF RingIsDue, BellNumbers, BellAssumption
    <3>4. cooldown # Off =>
            /\ debounce = Off
            /\ rang' + Cooldown = time' + cooldown'
            /\ pending' <=> waiting' # {}
            /\ \A d \in waiting' : time' - d.at <= Cooldown - cooldown'
      BY <1>0, <2>1, <3>1 DEF RingIsDue, BellNumbers, BellAssumption, Off
    <3>5. debounce # Off =>
            /\ waiting' # {}
            /\ \A d \in waiting' : time' - d.at <= Debounce - debounce'
      BY <1>0, <2>1, <3>1 DEF RingIsDue, BellNumbers, BellAssumption, Off
    <3>6. QED BY <3>2, <3>3, <3>4, <3>5 DEF RingIsDue
  <2>5. QED BY <2>2, <2>3, <2>4 DEF BellInv
<1>7. QED BY <1>1, <1>2, <1>3, <1>4, <1>5, <1>6 DEF BellNext

\* While anything waits the doorbell is about to ring.
LEMMA NoneWaitsLong == ASSUME BellAssumption, BellInv PROVE TellsSoon
<1>1. BellNumbers /\ WindowIsWhatWaits /\ RingIsDue
  BY DEF BellInv
<1>2. CASE cooldown # Off
  BY <1>1, <1>2 DEF RingIsDue, WindowIsWhatWaits, BellNumbers, TellsSoon, BellAssumption, Off
<1>3. CASE debounce # Off
  BY <1>1, <1>3 DEF RingIsDue, WindowIsWhatWaits, BellNumbers, TellsSoon, BellAssumption, Off
<1>4. CASE cooldown = Off /\ debounce = Off
  BY <1>1, <1>4 DEF RingIsDue, TellsSoon
<1>5. QED BY <1>2, <1>3, <1>4

\* What one step of the dispatcher tells is due, and true of the window.
LEMMA BellStepKept ==
  ASSUME BellAssumption, BellInv, [BellNext]_bellVars
  PROVE  [KeepsQuiet /\ TellsSoon /\ TellsTheTruth]_bellVars
<1>0. BellNumbers /\ WindowIsWhatWaits /\ RingIsDue /\ TellsSoon
  BY NoneWaitsLong DEF BellInv
<1>1. rang' # rang => Fire /\ waiting # {} /\ rang + Cooldown <= time
  <2> SUFFICES ASSUME rang' # rang
               PROVE  Fire /\ waiting # {} /\ rang + Cooldown <= time
    OBVIOUS
  <2>1. DebounceEnds \/ (CooldownEnds /\ pending /\ Fire)
    BY DEF BellNext, OnTrigger, Counts, CooldownEnds, Toggle, BellTick, bellVars
  <2>2. CASE DebounceEnds
    BY <1>0, <2>2 DEF DebounceEnds, RingIsDue, Off
  <2>3. CASE CooldownEnds /\ pending /\ Fire
    BY <1>0, <2>3 DEF CooldownEnds, RingIsDue, BellNumbers, BellAssumption, Off
  <2>4. QED BY <2>1, <2>2, <2>3
<1>2. KeepsQuiet
  <2> SUFFICES ASSUME rang' # rang PROVE rang' - rang >= Cooldown
    BY DEF KeepsQuiet
  <2>1. rang' = time /\ rang + Cooldown <= time
    BY <1>1 DEF Fire
  <2>2. QED BY <1>0, <2>1 DEF BellNumbers, BellAssumption
<1>3. TellsTheTruth
  <2> SUFFICES ASSUME rang' # rang, enabled
               PROVE  /\ shown' = "flood" <=> Cardinality(Recent) >= Flood
                      /\ shown' = "failure" <=>
                           shown' # "flood" /\ {e.kind : e \in waiting} = {"failure"}
                      /\ shown' = "review" <=>
                           shown' # "flood" /\ {e.kind : e \in waiting} = {"review"}
    BY DEF TellsTheTruth
  <2>1. shown' = Announcement /\ waiting # {}
    BY <1>1 DEF Fire
  <2>2. Recent = waiting
    BY <1>0 DEF Recent, TellsSoon
  <2>3. Cardinality(Recent) = observed /\ observed \in Nat /\ Flood \in Nat
    BY <1>0, <2>2 DEF WindowIsWhatWaits, BellNumbers, BellAssumption
  <2>4. /\ seen = {e.kind : e \in waiting} /\ seen # {}
        /\ seen = EventKind \/ seen = {"failure"} \/ seen = {"review"}
    <3>1. seen = {e.kind : e \in waiting}
      BY <1>0 DEF WindowIsWhatWaits, BellNumbers
    <3>2. seen # {}
      BY <2>1, <3>1
    <3>3. QED BY <1>0, <3>1, <3>2 DEF BellNumbers, EventKind
  <2>5. CASE observed >= Flood
    BY <2>1, <2>3, <2>5 DEF Announcement
  <2>6. CASE ~ (observed >= Flood)
    <3>1. shown' = IF seen = EventKind THEN "mixed"
                   ELSE IF "failure" \in seen THEN "failure" ELSE "review"
      BY <2>1, <2>6 DEF Announcement
    <3>2. EventKind # {"failure"} /\ EventKind # {"review"} /\ {"failure"} # {"review"}
      BY DEF EventKind
    <3>3. /\ shown' # "flood"
          /\ shown' = "failure" <=> seen = {"failure"}
          /\ shown' = "review" <=> seen = {"review"}
      BY <2>4, <3>1, <3>2
    <3>4. QED BY <2>3, <2>4, <2>6, <3>3
  <2>7. QED BY <2>5, <2>6
<1>4. QED BY <1>0, <1>2, <1>3

\* Whatever is switched on and off: the bell keeps its quiet period, tells of
\* every event within one, and says no more and no less than what happened; for
\* every debounce, cooldown and threshold.
THEOREM BellKept == ASSUME BellAssumption PROVE BellSpec => BellIsKept
<1>1. BellInit => BellInv
  BY BellInvInit
<1>2. BellInv /\ [BellNext]_bellVars => BellInv'
  BY BellInvStep
<1>3. BellInv /\ [BellNext]_bellVars => [KeepsQuiet /\ TellsSoon /\ TellsTheTruth]_bellVars
  BY BellStepKept
<1>4. QED BY <1>1, <1>2, <1>3, PTL DEF BellSpec, BellIsKept
=============================================================================
