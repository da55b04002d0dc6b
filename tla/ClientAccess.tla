---------------------------- MODULE ClientAccess ----------------------------
(***************************************************************************)
(* Client accounts in PostgreSQL: the super admin's handlers of            *)
(* web_superadmin_api.go beside the logins and sessions of                 *)
(* web_auth_api.go.                                                        *)
(*                                                                         *)
(* A client has a row of client_business_register (reg), from the approval *)
(* on a row of auth_users (user), and rows of auth_sessions (session).     *)
(* Every statement outside approveClientRegistration commits by itself, so *)
(* a handler of several statements is several steps, and other handlers    *)
(* run between them.  A statement whose error the code discards may be     *)
(* lost (faults).  A login reads the user, verifies the password (Argon2,  *)
(* slow) and only then inserts its session.                                *)
(*                                                                         *)
(* auth_sessions.expires_at is taken to be comparable with the time, as    *)
(* the query of userFromRequestSession needs.  Disabling a login is not a  *)
(* step: the CHECK of auth_users.status refuses 'disabled', and the        *)
(* request ends at its first statement with nothing changed.               *)
(***************************************************************************)
EXTENDS Naturals, FiniteSets

CONSTANTS Clients,     \* registrations, one e-mail address each
          NoClient,    \* of no request and no session yet
          Requests,    \* handlers that may be in flight at once
          Sessions,    \* session tokens that may be issued, a bound
          MaxFaults    \* statements with a discarded error that fail, a bound

ASSUME AccessAssumption == MaxFaults \in Nat /\ NoClient \notin Clients

VARIABLES reg,       \* client_business_register.status
          user,      \* auth_users.status, or none
          session,   \* auth_sessions
          req,       \* what each request in flight has done and read
          closed,    \* history: a suspension is complete
          faults     \* statements lost so far

vars == <<reg, user, session, req, closed, faults>>

UserStatus == {"none", "active", "suspended"}
Session == [client: Clients \cup {NoClient},
            state: {"free", "live", "revoked", "expired"}, late: BOOLEAN]
\* late: the login read the user before it was suspended.
\* intact: the request lost no statement and nothing reopened the account since it began.
Request == [op: {"idle", "login", "suspend"},
            client: Clients \cup {NoClient}, at: 0..2,
            intact: BOOLEAN, late: BOOLEAN]

Idle == [op |-> "idle", client |-> NoClient, at |-> 0, intact |-> FALSE, late |-> FALSE]

AccessTypeOK ==
  /\ reg \in [Clients -> {"pending", "approved", "rejected", "suspended"}]
  /\ user \in [Clients -> UserStatus]
  /\ session \in [Sessions -> Session]
  /\ req \in [Requests -> Request]
  /\ closed \in [Clients -> BOOLEAN]
  /\ faults \in 0..MaxFaults

Init ==
  /\ reg = [c \in Clients |-> "pending"]
  /\ user = [c \in Clients |-> "none"]
  /\ session = [s \in Sessions |-> [client |-> NoClient, state |-> "free", late |-> FALSE]]
  /\ req = [r \in Requests |-> Idle]
  /\ closed = [c \in Clients |-> FALSE]
  /\ faults = 0

-----------------------------------------------------------------------------
(***************************************************************************)
(* What several handlers do.                                               *)
(***************************************************************************)

\* userFromRequestSession: neither revoked nor expired, and the user is active now.
Accepted(s) == session[s].state = "live" /\ user[session[s].client] = "active"

\* An administrator reopened account c: no suspension in flight counts as complete any more.
Reopen(c) ==
  /\ closed' = [closed EXCEPT ![c] = FALSE]
  /\ req' = [r \in Requests |-> IF req[r].client = c THEN [req[r] EXCEPT !.intact = FALSE]
                                ELSE req[r]]

\* UPDATE auth_sessions SET revoked_at = NOW() for all sessions of client c.
Revoke(c) ==
  session' = [s \in Sessions |-> IF session[s].client = c /\ session[s].state = "live"
                                 THEN [session[s] EXCEPT !.state = "revoked"]
                                 ELSE session[s]]

-----------------------------------------------------------------------------
(***************************************************************************)
(* Faulty variants, for showing what the properties detect.                *)
(***************************************************************************)

\* The word of the registration is written to the user as well.
ApproveWritesApproved(c) ==
  /\ user' = [user EXCEPT ![c] = "approved"]
  /\ reg' = [reg EXCEPT ![c] = "approved"]
  /\ Reopen(c)
  /\ UNCHANGED <<session, faults>>

\* The registration is approved although the user could not be created.
ApproveWithoutUser(c) ==
  /\ reg' = [reg EXCEPT ![c] = "approved"]
  /\ Reopen(c)
  /\ UNCHANGED <<user, session, faults>>

\* The sessions are those of registrations that are still suspended.
RevokeOnlySuspended(r) ==
  /\ req[r].op = "suspend" /\ req[r].at = 2
  /\ IF reg[req[r].client] = "suspended" THEN Revoke(req[r].client) ELSE UNCHANGED session
  /\ closed' = [closed EXCEPT ![req[r].client] = @ \/ (req[r].intact
                                                       /\ user[req[r].client] # "none")]
  /\ req' = [req EXCEPT ![r] = Idle]
  /\ UNCHANGED <<reg, user, faults>>

\* A successful login makes its user active.
LoginActivates(r, s) ==
  /\ req[r].op = "login"
  /\ session[s].state = "free"
  /\ session' = [session EXCEPT ![s] = [client |-> req[r].client, state |-> "live",
                                        late |-> req[r].late]]
  /\ user' = [user EXCEPT ![req[r].client] = "active"]
  /\ req' = [req EXCEPT ![r] = Idle]
  /\ UNCHANGED <<reg, closed, faults>>

-----------------------------------------------------------------------------
(***************************************************************************)
(* Approval, in one transaction: the user is created, or is given back the *)
(* registered password and made active, and the registration becomes       *)
(* approved.  Restoring a suspended client is the same request.            *)
(***************************************************************************)
Approve(c) ==
  /\ user' = [user EXCEPT ![c] = "active"]
  /\ reg' = [reg EXCEPT ![c] = "approved"]
  /\ Reopen(c)
  /\ UNCHANGED <<session, faults>>

\* A rejection touches the registration only: a login that exists is left alone.
Reject(c) ==
  /\ reg' = [reg EXCEPT ![c] = "rejected"]
  /\ UNCHANGED <<user, session, req, closed, faults>>

\* The first statement of a suspension, the only one whose error is reported.
SuspendBegin(r, c) ==
  /\ req[r] = Idle
  /\ reg' = [reg EXCEPT ![c] = "suspended"]
  /\ req' = [req EXCEPT ![r] = [op |-> "suspend", client |-> c, at |-> 1,
                                intact |-> TRUE, late |-> FALSE]]
  /\ UNCHANGED <<user, session, closed, faults>>

\* The second suspends the user; logins that have read the old status are late now.
SuspendUser(r) ==
  LET c == req[r].client
  IN  /\ req[r].op = "suspend" /\ req[r].at = 1
      /\ user' = [user EXCEPT ![c] = IF @ = "none" THEN "none" ELSE "suspended"]
      /\ req' = [q \in Requests |->
                   IF q = r THEN [req[r] EXCEPT !.at = 2]
                   ELSE IF req[q].op = "login" /\ req[q].client = c
                   THEN [req[q] EXCEPT !.late = TRUE]
                   ELSE req[q]]
      /\ UNCHANGED <<reg, session, closed, faults>>

\* The last one revokes the sessions; the request is answered.
RevokeSessions(r) ==
  /\ req[r].op = "suspend" /\ req[r].at = 2
  /\ Revoke(req[r].client)
  /\ closed' = [closed EXCEPT ![req[r].client] = @ \/ (req[r].intact
                                                       /\ user[req[r].client] # "none")]
  /\ req' = [req EXCEPT ![r] = Idle]
  /\ UNCHANGED <<reg, user, faults>>

\* The second or the last fails, its error is discarded and the handler goes on.
StatementLost(r) ==
  /\ req[r].op = "suspend"
  /\ faults < MaxFaults
  /\ faults' = faults + 1
  /\ req' = [req EXCEPT ![r] = IF @.at = 1 THEN [@ EXCEPT !.at = 2, !.intact = FALSE]
                               ELSE Idle]
  /\ UNCHANGED <<reg, user, session, closed>>

\* Enabling the login sets the user active, whatever the registration says.
Enable(c) ==
  /\ user[c] # "none"
  /\ user' = [user EXCEPT ![c] = "active"]
  /\ Reopen(c)
  /\ UNCHANGED <<reg, session, faults>>

\* So does a temporary password, which replaces the hash; sessions stay.  It also sets
\* must_change_password, which nothing reads.
TemporaryPassword(c) == Enable(c)

\* Force logout: one statement.
ForceLogout(c) ==
  /\ Revoke(c)
  /\ UNCHANGED <<reg, user, req, closed, faults>>

-----------------------------------------------------------------------------
(***************************************************************************)
(* Logins, with the right password.  A wrong one changes nothing: the      *)
(* UPDATE of registerFailedLogin calls datetime(), which PostgreSQL does   *)
(* not have, and its error is discarded.                                   *)
(***************************************************************************)
LoginBegin(r, c) ==
  /\ req[r] = Idle
  /\ user[c] = "active"
  /\ req' = [req EXCEPT ![r] = [op |-> "login", client |-> c, at |-> 1,
                                intact |-> FALSE, late |-> FALSE]]
  /\ UNCHANGED <<reg, user, session, closed, faults>>

\* createAuthSession, then registerSuccessfulLogin, which leaves the status alone.
LoginFinish(r, s) ==
  /\ req[r].op = "login"
  /\ session[s].state = "free"
  /\ session' = [session EXCEPT ![s] = [client |-> req[r].client, state |-> "live",
                                        late |-> req[r].late]]
  /\ req' = [req EXCEPT ![r] = Idle]
  /\ UNCHANGED <<reg, user, closed, faults>>

\* No session is created: the INSERT fails, or the request runs out of time.
LoginFailed(r) ==
  /\ req[r].op = "login"
  /\ req' = [req EXCEPT ![r] = Idle]
  /\ UNCHANGED <<reg, user, session, closed, faults>>

Logout(s) ==
  /\ session[s].state = "live"
  /\ session' = [session EXCEPT ![s].state = "revoked"]
  /\ UNCHANGED <<reg, user, req, closed, faults>>

\* Twelve hours, or thirty days, go by.
Expire(s) ==
  /\ session[s].state = "live"
  /\ session' = [session EXCEPT ![s].state = "expired"]
  /\ UNCHANGED <<reg, user, req, closed, faults>>

Next ==
  \/ \E c \in Clients : \/ Approve(c) \/ Reject(c) \/ Enable(c)
                        \/ TemporaryPassword(c) \/ ForceLogout(c)
  \/ \E r \in Requests, c \in Clients : SuspendBegin(r, c) \/ LoginBegin(r, c)
  \/ \E r \in Requests : SuspendUser(r) \/ RevokeSessions(r) \/ StatementLost(r) \/ LoginFailed(r)
  \/ \E r \in Requests, s \in Sessions : LoginFinish(r, s)
  \/ \E s \in Sessions : Logout(s) \/ Expire(s)

Spec == Init /\ [][Next]_vars

-----------------------------------------------------------------------------
(***************************************************************************)
(* Properties.                                                             *)
(***************************************************************************)

\* A registration that counts as approved has its login: the approval creates both
\* or neither, and no later handler takes the login away.
ApprovedHasLogin == \A c \in Clients : reg[c] = "approved" => user[c] # "none"

\* Once a suspension has run to its end without losing a statement, no session of the
\* account is accepted until an administrator reopens the account: nothing a client does,
\* such as finishing a login begun before, makes it active again.
AccountStaysClosed ==
  \A c \in Clients : closed[c] => \A s \in Sessions : session[s].client = c => ~Accepted(s)

\* The sessions such a suspension leaves unrevoked, which a later reopening would revive,
\* are those of logins that had read the user before it was suspended, and no others.
OnlyLateSessionsSurvive ==
  \A c \in Clients : closed[c] =>
    \A s \in Sessions : session[s].client = c /\ session[s].state = "live" => session[s].late
=============================================================================
