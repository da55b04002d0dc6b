------------------------- MODULE ClientAccessProofs -------------------------
(***************************************************************************)
(* Proofs about ClientAccess, for any number of clients, requests and      *)
(* sessions and any number of lost statements.                             *)
(*                                                                         *)
(* A closed account is suspended (ClosedIsSuspended) because a suspension  *)
(* that lost nothing finds its user suspended at its last statement        *)
(* (IntactSuspended), and a login of a user that is not active any more    *)
(* has been marked late (LoginsAreLate): these make the two properties of  *)
(* sessions inductive.                                                     *)
(***************************************************************************)
EXTENDS ClientAccess, TLAPS

\* The requests in flight are about clients.
ClientsKnown == \A r \in Requests : req[r].op # "idle" => req[r].client \in Clients

\* A suspension that lost no statement, before its last one, finds the user suspended.
IntactSuspended ==
  \A r \in Requests : req[r].op = "suspend" /\ req[r].at = 2 /\ req[r].intact
                        => user[req[r].client] \in {"none", "suspended"}

\* A login in flight of a user that is not active any more is late.
LoginsAreLate ==
  \A r \in Requests : req[r].op = "login" /\ user[req[r].client] # "active" => req[r].late

\* The user of a closed account is suspended.
ClosedIsSuspended == \A c \in Clients : closed[c] => user[c] = "suspended"

\* What is known of the requests in flight, and of the accounts.
Requested == ClientsKnown /\ IntactSuspended /\ LoginsAreLate
Closed == ClosedIsSuspended /\ OnlyLateSessionsSurvive

\* The inductive invariant.
IInv == AccessTypeOK /\ ApprovedHasLogin /\ Requested /\ Closed

USE DEF UserStatus

-----------------------------------------------------------------------------
(***************************************************************************)
(* What the actions share.                                                 *)
(***************************************************************************)

\* The two records that requests and sessions start from have their types.
LEMMA IdleTypes ==
  /\ Idle \in Request
  /\ [client |-> NoClient, state |-> "free", late |-> FALSE] \in Session
<1>1. 0 \in 0..2
  OBVIOUS
<1> QED
  BY <1>1 DEF Idle, Request, Session

\* A reopening clears the closure and the intactness of what is in flight.
LEMMA ReopenFacts ==
  ASSUME AccessTypeOK, NEW c \in Clients, Reopen(c)
  PROVE  /\ closed' \in [Clients -> BOOLEAN] /\ req' \in [Requests -> Request]
         /\ ~closed'[c] /\ \A d \in Clients \ {c} : closed'[d] = closed[d]
         /\ \A r \in Requests : /\ req'[r].op = req[r].op /\ req'[r].client = req[r].client
                                /\ req'[r].at = req[r].at /\ req'[r].late = req[r].late
                                /\ req'[r].intact => req[r].intact /\ req[r].client # c
BY DEF AccessTypeOK, Reopen, Request

\* A revocation leaves no session of its client alive and changes no other session.
LEMMA RevokeFacts ==
  ASSUME AccessTypeOK, NEW c, Revoke(c)
  PROVE  /\ session' \in [Sessions -> Session]
         /\ \A s \in Sessions : session'[s].client = session[s].client
         /\ \A s \in Sessions : session'[s].late = session[s].late
         /\ \A s \in Sessions : session'[s].state = "live"
                                  => session[s].state = "live" /\ session[s].client # c
BY DEF AccessTypeOK, Revoke, Session

\* When no request, no user and no registration changes, what is known of them stays.
LEMMA RequestedStays ==
  ASSUME ApprovedHasLogin, Requested, UNCHANGED <<reg, user, req>>
  PROVE  ApprovedHasLogin' /\ Requested'
BY DEF ApprovedHasLogin, Requested, ClientsKnown, IntactSuspended, LoginsAreLate

\* When sessions only end, closed accounts keep to their late ones.
LEMMA ClosedStays ==
  ASSUME Closed, UNCHANGED <<user, closed>>,
         \A s \in Sessions : session'[s].state = "live" => session'[s] = session[s]
  PROVE  Closed'
BY DEF Closed, ClosedIsSuspended, OnlyLateSessionsSurvive

\* A request that ends leaves the others as they were.
LEMMA EndKeeps ==
  ASSUME AccessTypeOK, Requested, NEW r \in Requests, req' = [req EXCEPT ![r] = Idle],
         UNCHANGED user
  PROVE  req' \in [Requests -> Request] /\ Requested'
<1>1. req' \in [Requests -> Request]
  BY IdleTypes DEF AccessTypeOK
<1>2. \A q \in Requests : req'[q] = req[q] \/ req'[q].op = "idle"
  BY DEF AccessTypeOK, Idle
<1>3. Requested'
  BY <1>2 DEF Requested, ClientsKnown, IntactSuspended, LoginsAreLate
<1> QED
  BY <1>1, <1>3

-----------------------------------------------------------------------------
(***************************************************************************)
(* Every action keeps the invariant.                                       *)
(***************************************************************************)

\* At the start nobody is approved and nothing is in flight.
LEMMA InitIInv == Init => IInv
<1> SUFFICES ASSUME Init PROVE IInv
  OBVIOUS
<1>1. AccessTypeOK
  <2>1. faults \in 0..MaxFaults
    BY AccessAssumption DEF Init
  <2> QED
    BY <2>1, IdleTypes DEF Init, AccessTypeOK
<1>2. ApprovedHasLogin /\ Requested /\ Closed
  BY DEF Init, Idle, ApprovedHasLogin, Requested, ClientsKnown, IntactSuspended, LoginsAreLate,
         Closed, ClosedIsSuspended, OnlyLateSessionsSurvive
<1> QED
  BY <1>1, <1>2 DEF IInv

\* An administrator makes the user active: by an approval, by enabling the login or with
\* a temporary password.
LEMMA ReopeningKeeps ==
  ASSUME IInv, NEW c \in Clients, Approve(c) \/ Enable(c) \/ TemporaryPassword(c)
  PROVE  IInv'
<1>1. /\ user' = [user EXCEPT ![c] = "active"] /\ Reopen(c)
      /\ reg' = [reg EXCEPT ![c] = "approved"] \/ reg' = reg
      /\ UNCHANGED <<session, faults>>
  BY DEF Approve, Enable, TemporaryPassword
<1>2. user'[c] = "active" /\ \A d \in Clients \ {c} : user'[d] = user[d]
  BY <1>1 DEF IInv, AccessTypeOK
<1>3. AccessTypeOK'
  <2>1. closed' \in [Clients -> BOOLEAN] /\ req' \in [Requests -> Request]
    BY <1>1, ReopenFacts DEF IInv
  <2> QED
    BY <1>1, <2>1 DEF IInv, AccessTypeOK
<1>4. ApprovedHasLogin'
  BY <1>1, <1>2 DEF IInv, AccessTypeOK, ApprovedHasLogin
<1>5. Requested'
  <2>1. \A r \in Requests : /\ req'[r].op = req[r].op /\ req'[r].client = req[r].client
                            /\ req'[r].at = req[r].at /\ req'[r].late = req[r].late
                            /\ req'[r].intact => req[r].intact /\ req[r].client # c
    BY <1>1, ReopenFacts DEF IInv
  <2>2. ClientsKnown'
    BY <2>1 DEF IInv, Requested, ClientsKnown
  <2>3. IntactSuspended'
    BY <1>2, <2>1 DEF IInv, Requested, ClientsKnown, IntactSuspended
  <2>4. LoginsAreLate'
    BY <1>2, <2>1 DEF IInv, Requested, ClientsKnown, LoginsAreLate
  <2> QED
    BY <2>2, <2>3, <2>4 DEF Requested
<1>6. Closed'
  <2>1. ~closed'[c] /\ \A d \in Clients \ {c} : closed'[d] = closed[d]
    BY <1>1, ReopenFacts DEF IInv
  <2> QED
    BY <1>1, <1>2, <2>1 DEF IInv, Closed, ClosedIsSuspended, OnlyLateSessionsSurvive
<1> QED
  BY <1>3, <1>4, <1>5, <1>6 DEF IInv

\* A rejection touches the registration only.
LEMMA RejectKeeps == ASSUME IInv, NEW c \in Clients, Reject(c) PROVE IInv'
<1>1. AccessTypeOK' /\ ApprovedHasLogin'
  BY DEF IInv, Reject, AccessTypeOK, ApprovedHasLogin
<1>2. Requested'
  BY DEF IInv, Reject, Requested, ClientsKnown, IntactSuspended, LoginsAreLate
<1>3. Closed'
  BY ClosedStays DEF IInv, Reject
<1> QED
  BY <1>1, <1>2, <1>3 DEF IInv

\* A suspension begins, or a login of an active user.
LEMMA BeginKeeps ==
  ASSUME IInv, NEW r \in Requests, NEW c \in Clients, SuspendBegin(r, c) \/ LoginBegin(r, c)
  PROVE  IInv'
<1>1. PICK new \in Request :
        /\ req' = [req EXCEPT ![r] = new]
        /\ new.client = c /\ new.at = 1
        /\ new.op = "login" => user[c] = "active"
  <2> DEFINE suspend == [op |-> "suspend", client |-> c, at |-> 1, intact |-> TRUE,
                         late |-> FALSE]
             login == [op |-> "login", client |-> c, at |-> 1, intact |-> FALSE,
                       late |-> FALSE]
  <2>1. suspend \in Request /\ login \in Request
    <3>1. 1 \in 0..2
      OBVIOUS
    <3> QED
      BY <3>1 DEF Request
  <2>2. CASE SuspendBegin(r, c)
    <3>1. req' = [req EXCEPT ![r] = suspend]
      BY <2>2 DEF SuspendBegin
    <3>2. suspend.client = c /\ suspend.at = 1 /\ suspend.op # "login"
      OBVIOUS
    <3> HIDE DEF suspend
    <3> QED
      BY <2>1, <3>1, <3>2
  <2>3. CASE LoginBegin(r, c)
    <3>1. req' = [req EXCEPT ![r] = login] /\ user[c] = "active"
      BY <2>3 DEF LoginBegin
    <3>2. login.client = c /\ login.at = 1
      OBVIOUS
    <3> HIDE DEF login
    <3> QED
      BY <2>1, <3>1, <3>2
  <2> QED
    BY <2>2, <2>3
<1>2. /\ reg' = [reg EXCEPT ![c] = "suspended"] \/ reg' = reg
      /\ UNCHANGED <<user, session, closed, faults>>
  BY DEF SuspendBegin, LoginBegin
<1>3. AccessTypeOK' /\ ApprovedHasLogin'
  BY <1>1, <1>2 DEF IInv, AccessTypeOK, ApprovedHasLogin
<1>4. Requested'
  <2>1. req'[r] = new /\ \A q \in Requests \ {r} : req'[q] = req[q]
    BY <1>1 DEF IInv, AccessTypeOK
  <2> QED
    BY <1>1, <1>2, <2>1 DEF IInv, Requested, ClientsKnown, IntactSuspended, LoginsAreLate
<1>5. Closed'
  BY <1>2, ClosedStays DEF IInv
<1> QED
  BY <1>3, <1>4, <1>5 DEF IInv

\* The user is suspended, and every login of it in flight is late.
LEMMA SuspendUserKeeps == ASSUME IInv, NEW r \in Requests, SuspendUser(r) PROVE IInv'
<1> DEFINE c == req[r].client
<1>1. /\ c \in Clients /\ req[r].op = "suspend"
      /\ user' = [user EXCEPT ![c] = IF @ = "none" THEN "none" ELSE "suspended"]
      /\ UNCHANGED <<reg, session, closed, faults>>
  BY DEF IInv, Requested, ClientsKnown, SuspendUser
<1>2. /\ user'[c] \in {"none", "suspended"} /\ (user'[c] = "none" <=> user[c] = "none")
      /\ \A d \in Clients \ {c} : user'[d] = user[d]
  BY <1>1 DEF IInv, AccessTypeOK
<1>3. /\ req' \in [Requests -> Request]
      /\ \A q \in Requests : req'[q].op = req[q].op /\ req'[q].client = req[q].client
  <2>1. 2 \in 0..2
    OBVIOUS
  <2> QED
    BY <2>1 DEF IInv, AccessTypeOK, SuspendUser, Request
<1>4. AccessTypeOK' /\ ApprovedHasLogin'
  BY <1>1, <1>2, <1>3 DEF IInv, AccessTypeOK, ApprovedHasLogin
<1>5. Requested'
  <2>1. \A q \in Requests \ {r} : req'[q].at = req[q].at /\ req'[q].intact = req[q].intact
    BY DEF IInv, AccessTypeOK, SuspendUser, Request
  <2>2. \A q \in Requests : req[q].op = "login" /\ req[q].client = c => req'[q].late
    BY <1>1 DEF IInv, AccessTypeOK, SuspendUser, Request
  <2>3. \A q \in Requests : req[q].op = "login" /\ req[q].client # c => req'[q] = req[q]
    BY <1>1 DEF IInv, AccessTypeOK, SuspendUser, Request
  <2>4. ClientsKnown'
    BY <1>3 DEF IInv, Requested, ClientsKnown
  <2>5. IntactSuspended'
    BY <1>1, <1>2, <1>3, <2>1 DEF IInv, Requested, ClientsKnown, IntactSuspended
  <2>6. LoginsAreLate'
    BY <1>2, <1>3, <2>2, <2>3 DEF IInv, Requested, ClientsKnown, LoginsAreLate
  <2> QED
    BY <2>4, <2>5, <2>6 DEF Requested
<1>6. Closed'
  BY <1>1, <1>2 DEF IInv, Closed, ClosedIsSuspended, OnlyLateSessionsSurvive
<1> QED
  BY <1>4, <1>5, <1>6 DEF IInv

\* The sessions are revoked; if nothing was lost and there is a user, the account is closed.
LEMMA RevokeSessionsKeeps == ASSUME IInv, NEW r \in Requests, RevokeSessions(r) PROVE IInv'
<1> DEFINE c == req[r].client
<1>1. /\ c \in Clients /\ Revoke(c)
      /\ closed' = [closed EXCEPT ![c] = @ \/ (req[r].intact /\ user[c] # "none")]
      /\ req' = [req EXCEPT ![r] = Idle]
      /\ UNCHANGED <<reg, user, faults>>
  BY DEF IInv, Requested, ClientsKnown, RevokeSessions
<1>2. /\ closed' \in [Clients -> BOOLEAN]
      /\ \A d \in Clients : closed'[d] => closed[d] \/ (d = c /\ req[r].intact
                                                             /\ user[c] # "none")
  BY <1>1 DEF IInv, AccessTypeOK
<1>3. req' \in [Requests -> Request] /\ Requested'
  BY <1>1, EndKeeps DEF IInv
<1>4. /\ session' \in [Sessions -> Session]
      /\ \A s \in Sessions : session'[s].client = session[s].client
      /\ \A s \in Sessions : session'[s].late = session[s].late
      /\ \A s \in Sessions : session'[s].state = "live"
                               => session[s].state = "live" /\ session[s].client # c
  BY <1>1, RevokeFacts DEF IInv
<1>5. AccessTypeOK' /\ ApprovedHasLogin'
  BY <1>1, <1>2, <1>3, <1>4 DEF IInv, AccessTypeOK, ApprovedHasLogin
<1>6. Closed'
  <2>1. req[r].intact => user[c] \in {"none", "suspended"}
    BY DEF IInv, Requested, IntactSuspended, RevokeSessions
  <2>2. ClosedIsSuspended'
    BY <1>1, <1>2, <2>1 DEF IInv, Closed, ClosedIsSuspended
  <2>3. OnlyLateSessionsSurvive'
    BY <1>2, <1>4 DEF IInv, Closed, OnlyLateSessionsSurvive
  <2> QED
    BY <2>2, <2>3 DEF Closed
<1> QED
  BY <1>3, <1>5, <1>6 DEF IInv

\* A suspension that lost a statement is not intact.
LEMMA StatementLostKeeps == ASSUME IInv, NEW r \in Requests, StatementLost(r) PROVE IInv'
<1>1. /\ req[r].op = "suspend"
      /\ UNCHANGED <<reg, user, session, closed>>
  BY DEF StatementLost
<1>2. faults' \in 0..MaxFaults
  BY AccessAssumption DEF IInv, AccessTypeOK, StatementLost
<1>3. /\ req' \in [Requests -> Request]
      /\ \A q \in Requests : \/ req'[q] = req[q] \/ req'[q].op = "idle"
                             \/ /\ req'[q].op = "suspend" /\ req'[q].client = req[q].client
                                /\ q = r /\ ~req'[q].intact
  <2>1. CASE req[r].at = 1
    <3>1. 2 \in 0..2
      OBVIOUS
    <3>2. req' = [req EXCEPT ![r] = [req[r] EXCEPT !.at = 2, !.intact = FALSE]]
      BY <2>1 DEF IInv, AccessTypeOK, StatementLost
    <3> QED
      BY <1>1, <3>1, <3>2 DEF IInv, AccessTypeOK, Request
  <2>2. CASE req[r].at # 1
    <3>1. req' = [req EXCEPT ![r] = Idle]
      BY <2>2 DEF IInv, AccessTypeOK, StatementLost
    <3> QED
      BY <3>1, IdleTypes DEF IInv, AccessTypeOK, Idle
  <2> QED
    BY <2>1, <2>2
<1>4. AccessTypeOK' /\ ApprovedHasLogin'
  BY <1>1, <1>2, <1>3 DEF IInv, AccessTypeOK, ApprovedHasLogin
<1>5. Requested'
  BY <1>1, <1>3 DEF IInv, Requested, ClientsKnown, IntactSuspended, LoginsAreLate
<1>6. Closed'
  BY <1>1, ClosedStays DEF IInv
<1> QED
  BY <1>4, <1>5, <1>6 DEF IInv

\* Sessions end: by a forced logout, by a logout, by time.
LEMMA SessionsEndKeeps ==
  ASSUME IInv,
         \/ \E c \in Clients : ForceLogout(c)
         \/ \E s \in Sessions : Logout(s) \/ Expire(s)
  PROVE  IInv'
<1>1. UNCHANGED <<reg, user, req, closed, faults>>
  BY DEF ForceLogout, Logout, Expire
<1>2. /\ session' \in [Sessions -> Session]
      /\ \A s \in Sessions : session'[s].state = "live" => session'[s] = session[s]
  <2>1. ASSUME NEW c \in Clients, ForceLogout(c)
        PROVE  /\ session' \in [Sessions -> Session]
               /\ \A s \in Sessions : session'[s].state = "live" => session'[s] = session[s]
    BY <2>1 DEF IInv, AccessTypeOK, ForceLogout, Revoke, Session
  <2>2. ASSUME NEW s \in Sessions, Logout(s) \/ Expire(s)
        PROVE  /\ session' \in [Sessions -> Session]
               /\ \A t \in Sessions : session'[t].state = "live" => session'[t] = session[t]
    BY <2>2 DEF IInv, AccessTypeOK, Logout, Expire, Session
  <2> QED
    BY <2>1, <2>2
<1>3. AccessTypeOK'
  BY <1>1, <1>2 DEF IInv, AccessTypeOK
<1>4. ApprovedHasLogin' /\ Requested'
  BY <1>1, RequestedStays DEF IInv
<1>5. Closed'
  BY <1>1, <1>2, ClosedStays DEF IInv
<1> QED
  BY <1>3, <1>4, <1>5 DEF IInv

\* A login that ends: its session is late whenever its account is closed.
LEMMA LoginFinishKeeps ==
  ASSUME IInv, NEW r \in Requests, NEW s \in Sessions, LoginFinish(r, s) PROVE IInv'
<1> DEFINE new == [client |-> req[r].client, state |-> "live", late |-> req[r].late]
<1>1. /\ req[r].op = "login"
      /\ session' = [session EXCEPT ![s] = new]
      /\ req' = [req EXCEPT ![r] = Idle]
      /\ UNCHANGED <<reg, user, closed, faults>>
  BY DEF LoginFinish
<1>2. req' \in [Requests -> Request] /\ Requested'
  BY <1>1, EndKeeps DEF IInv
<1>3. new \in Session
  BY DEF IInv, AccessTypeOK, Request, Session
<1>4. AccessTypeOK' /\ ApprovedHasLogin'
  BY <1>1, <1>2, <1>3 DEF IInv, AccessTypeOK, ApprovedHasLogin
<1>5. Closed'
  <2>1. session'[s] = new /\ \A t \in Sessions \ {s} : session'[t] = session[t]
    BY <1>1 DEF IInv, AccessTypeOK
  <2>2. \A c \in Clients : closed[c] /\ new.client = c => new.late
    BY <1>1 DEF IInv, Requested, LoginsAreLate, Closed, ClosedIsSuspended
  <2> QED
    BY <1>1, <2>1, <2>2 DEF IInv, Closed, ClosedIsSuspended, OnlyLateSessionsSurvive
<1> QED
  BY <1>2, <1>4, <1>5 DEF IInv

\* A login that fails leaves nothing behind.
LEMMA LoginFailedKeeps == ASSUME IInv, NEW r \in Requests, LoginFailed(r) PROVE IInv'
<1>1. req' = [req EXCEPT ![r] = Idle] /\ UNCHANGED <<reg, user, session, closed, faults>>
  BY DEF LoginFailed
<1>2. req' \in [Requests -> Request] /\ Requested'
  BY <1>1, EndKeeps DEF IInv
<1>3. AccessTypeOK' /\ ApprovedHasLogin'
  BY <1>1, <1>2 DEF IInv, AccessTypeOK, ApprovedHasLogin
<1>4. Closed'
  BY <1>1, ClosedStays DEF IInv
<1> QED
  BY <1>2, <1>3, <1>4 DEF IInv

\* Nothing happens.
LEMMA StutterKeeps == ASSUME IInv, UNCHANGED vars PROVE IInv'
BY DEF IInv, vars, AccessTypeOK, ApprovedHasLogin, Requested, ClientsKnown, IntactSuspended,
       LoginsAreLate, Closed, ClosedIsSuspended, OnlyLateSessionsSurvive

\* Every step keeps the invariant.
LEMMA NextIInv == IInv /\ [Next]_vars => IInv'
<1> SUFFICES ASSUME IInv, [Next]_vars PROVE IInv'
  OBVIOUS
<1>1. ASSUME NEW c \in Clients, Approve(c) \/ Enable(c) \/ TemporaryPassword(c) PROVE IInv'
  BY <1>1, ReopeningKeeps
<1>2. ASSUME NEW c \in Clients, Reject(c) PROVE IInv'
  BY <1>2, RejectKeeps
<1>3. ASSUME NEW r \in Requests, NEW c \in Clients, SuspendBegin(r, c) \/ LoginBegin(r, c)
      PROVE  IInv'
  BY <1>3, BeginKeeps
<1>4. ASSUME NEW r \in Requests, SuspendUser(r) \/ RevokeSessions(r) \/ StatementLost(r)
                                 \/ LoginFailed(r)
      PROVE  IInv'
  BY <1>4, SuspendUserKeeps, RevokeSessionsKeeps, StatementLostKeeps, LoginFailedKeeps
<1>5. ASSUME NEW r \in Requests, NEW s \in Sessions, LoginFinish(r, s) PROVE IInv'
  BY <1>5, LoginFinishKeeps
<1>6. CASE \/ \E c \in Clients : ForceLogout(c)
           \/ \E s \in Sessions : Logout(s) \/ Expire(s)
  BY <1>6, SessionsEndKeeps
<1>7. CASE UNCHANGED vars
  BY <1>7, StutterKeeps
<1> QED
  BY <1>1, <1>2, <1>3, <1>4, <1>5, <1>6, <1>7 DEF Next

-----------------------------------------------------------------------------
(***************************************************************************)
(* Theorems.                                                               *)
(***************************************************************************)

\* The inductive invariant holds in every reachable state.
THEOREM InvariantHolds == Spec => []IInv
BY InitIInv, NextIInv, PTL DEF Spec

\* The state always has its type; no handler writes a status its column does not know.
THEOREM TypeCorrect == Spec => []AccessTypeOK
<1>1. IInv => AccessTypeOK
  BY DEF IInv
<1> QED
  BY <1>1, InvariantHolds, PTL

\* An approved registration has its login.
THEOREM ApprovalsAreWhole == Spec => []ApprovedHasLogin
<1>1. IInv => ApprovedHasLogin
  BY DEF IInv
<1> QED
  BY <1>1, InvariantHolds, PTL

\* Nobody gets in after a complete suspension, until the account is reopened.
THEOREM ClosedStaysClosed == Spec => []AccountStaysClosed
<1>1. IInv => AccountStaysClosed
  BY DEF IInv, Closed, ClosedIsSuspended, AccountStaysClosed, Accepted
<1> QED
  BY <1>1, InvariantHolds, PTL

\* Only logins that had read the user before leave a session behind.
THEOREM SurvivorsAreLate == Spec => []OnlyLateSessionsSurvive
<1>1. IInv => OnlyLateSessionsSurvive
  BY DEF IInv, Closed
<1> QED
  BY <1>1, InvariantHolds, PTL
=============================================================================
