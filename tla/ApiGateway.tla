----------------------------- MODULE ApiGateway -----------------------------
(***************************************************************************)
(* The API gateway for one key of one tenant: the key itself               *)
(* (web_api_gateway_api.go), its verification (_security.go), the tenant's *)
(* policy (_policy.go) and the counter of one route (_rate_limit.go).      *)
(*                                                                         *)
(* A call passes four stages that each use the database on their own:      *)
(* the key is read, its use noted, the policy read, and, with a clock      *)
(* reading taken before, the counter updated in a transaction that locks   *)
(* its row.  The first call finds no row and so locks nothing.             *)
(*                                                                         *)
(* Scopes, addresses and origins do not change the state: a call they turn *)
(* away is one that ends early (RequestEnds).                              *)
(***************************************************************************)
EXTENDS Naturals

CONSTANTS Requests,      \* calls and updates of the policy that may be in flight at once
          MaxRequests,   \* max_requests
          Window,        \* window_seconds
          Expiry,        \* expires_at of the key
          MaxTime        \* the clock stops there, a bound

ASSUME GatewayAssumption ==
  /\ MaxRequests \in Nat \ {0} /\ Window \in Nat \ {0}
  /\ Expiry \in Nat /\ MaxTime \in Nat

VARIABLES now,
          key,        \* api_gateway_keys.status
          policy,     \* api_gateway_security_policies, or the default
          counter,    \* api_gateway_rate_limit_windows
          req,        \* what each request in flight has read
          revoked,    \* history: revoked, and not rotated since
          asked,      \* history: the settings administrators asked for, see SettingsAreKept
          admitted    \* history: calls let through in the window that starts at ...

vars == <<now, key, policy, counter, req, revoked, asked, admitted>>

Time == 0..MaxTime
Policy == [enabled: BOOLEAN, requireOrigin: BOOLEAN]
DefaultPolicy == [enabled |-> TRUE, requireOrigin |-> FALSE]
\* at: what comes next.  time: the clock reading.  late: the key has been revoked or
\* rotated, or the policy saved, since this request read it.
Request == [at: {"idle", "expire", "use", "policy", "count", "insert", "save"},
            time: Time, read: Policy, late: BOOLEAN]
Idle == [at |-> "idle", time |-> 0, read |-> DefaultPolicy, late |-> FALSE]

GatewayTypeOK ==
  /\ now \in Time
  /\ key \in {"none", "active", "revoked", "expired"}
  /\ policy \in Policy /\ asked \in Policy
  /\ counter \in [there: BOOLEAN, start: Time, count: 0..MaxRequests]
  /\ req \in [Requests -> Request]
  /\ revoked \in BOOLEAN
  /\ admitted \in [Time -> Nat]

Init ==
  /\ now = 0
  /\ key = "none"
  /\ policy = DefaultPolicy /\ asked = DefaultPolicy
  /\ counter = [there |-> FALSE, start |-> 0, count |-> 0]
  /\ req = [r \in Requests |-> Idle]
  /\ revoked = FALSE
  /\ admitted = [t \in Time |-> 0]

-----------------------------------------------------------------------------
\* Request r goes on to its next stage, or ends.
Goto(r, stage) == req' = [req EXCEPT ![r].at = stage]
End(r) == req' = [req EXCEPT ![r] = Idle]

\* The requests that have read what is now being changed are late.
Late(stages) == [r \in Requests |-> IF req[r].at \in stages THEN [req[r] EXCEPT !.late = TRUE]
                                    ELSE req[r]]
CallStages == {"use", "policy", "count", "insert"}

\* The call goes through to the handler, counted in the window that starts at s.
Admit(s) == admitted' = [admitted EXCEPT ![s] = @ + 1]

\* The transaction that counts the call commits, and it goes through; or the answer to
\* COMMIT is lost, and the call is refused although it was counted.
Committed(s) == Admit(s) \/ UNCHANGED admitted

-----------------------------------------------------------------------------
(***************************************************************************)
(* The key.                                                                *)
(***************************************************************************)
CreateKey ==
  /\ key = "none"
  /\ key' = "active"
  /\ UNCHANGED <<now, policy, counter, req, revoked, asked, admitted>>

RevokeKey ==
  /\ key = "active"
  /\ key' = "revoked"
  /\ revoked' = TRUE
  /\ req' = Late(CallStages)
  /\ UNCHANGED <<now, policy, counter, asked, admitted>>

\* A new secret, and active again whatever the key was; expires_at stays as it is.
RotateKey ==
  /\ key # "none"
  /\ key' = "active"
  /\ revoked' = FALSE
  /\ req' = Late(CallStages)
  /\ UNCHANGED <<now, policy, counter, asked, admitted>>

\* gatewaySecurityVerifyAPIKey with the current secret: the status, then the expiry.
Verify(r) ==
  /\ req[r] = Idle
  /\ key = "active"
  /\ Goto(r, IF now >= Expiry THEN "expire" ELSE "use")
  /\ UNCHANGED <<now, key, policy, counter, revoked, asked, admitted>>

\* loadGatewayAPIKeys reads the status too, and marks keys that have expired.
ListKeys(r) ==
  /\ req[r] = Idle
  /\ key = "active" /\ now > Expiry
  /\ Goto(r, "expire")
  /\ UNCHANGED <<now, key, policy, counter, revoked, asked, admitted>>

\* Both write the status by id, whatever it is by then.
MarkExpired(r) ==
  /\ req[r].at = "expire"
  /\ key' = "expired"
  /\ End(r)
  /\ UNCHANGED <<now, policy, counter, revoked, asked, admitted>>

\* Faulty: the use of the key is noted by writing the row back as it was read.
UseWritesRow(r) ==
  /\ req[r].at = "use"
  /\ key' = "active"
  /\ Goto(r, "policy")
  /\ UNCHANGED <<now, policy, counter, revoked, asked, admitted>>

\* last_used_at alone is written.
NoteUse(r) ==
  /\ req[r].at = "use"
  /\ Goto(r, "policy")
  /\ UNCHANGED <<now, key, policy, counter, revoked, asked, admitted>>

-----------------------------------------------------------------------------
(***************************************************************************)
(* The policy and the counter.                                             *)
(***************************************************************************)

\* A policy that is not enabled turns everyone away.  The limits and the clock are read
\* right after; between the two nothing is decided, so they are one step.
EnforcePolicy(r) ==
  /\ req[r].at = "policy"
  /\ policy.enabled
  /\ req' = [req EXCEPT ![r].at = "count", ![r].time = now]
  /\ UNCHANGED <<now, key, policy, counter, revoked, asked, admitted>>

\* No row yet: nothing is locked, the row is to be inserted.
CountFirst(r) ==
  /\ req[r].at = "count"
  /\ ~counter.there
  /\ Goto(r, "insert")
  /\ UNCHANGED <<now, key, policy, counter, revoked, asked, admitted>>

\* Faulty: a row that another call has inserted meanwhile does not stop this one.
InsertOrIgnore(r) ==
  /\ req[r].at = "insert"
  /\ IF counter.there THEN Admit(counter.start) /\ UNCHANGED counter
     ELSE /\ counter' = [there |-> TRUE, start |-> req[r].time, count |-> 1]
          /\ Committed(req[r].time)
  /\ End(r)
  /\ UNCHANGED <<now, key, policy, revoked, asked>>

\* The insert of the second of two first calls fails, and the call with it.
InsertCounter(r) ==
  /\ req[r].at = "insert"
  /\ IF counter.there THEN UNCHANGED <<counter, admitted>>
     ELSE /\ counter' = [there |-> TRUE, start |-> req[r].time, count |-> 1]
          /\ Committed(req[r].time)
  /\ End(r)
  /\ UNCHANGED <<now, key, policy, revoked, asked>>

\* now.Sub(windowStart) >= window, with the clock reading of the call, which may be older
\* than the window.
WindowOver(r) == req[r].time >= counter.start + Window

\* Faulty: any other second starts a window.
RestartOnNewSecond(r) ==
  /\ req[r].at = "count"
  /\ counter.there /\ req[r].time # counter.start
  /\ counter' = [counter EXCEPT !.start = req[r].time, !.count = 1]
  /\ Committed(req[r].time)
  /\ End(r)
  /\ UNCHANGED <<now, key, policy, revoked, asked>>

\* The row is locked: the window is over, and the next one starts with this call.
CountRestart(r) ==
  /\ req[r].at = "count"
  /\ counter.there /\ WindowOver(r)
  /\ counter' = [counter EXCEPT !.start = req[r].time, !.count = 1]
  /\ Committed(req[r].time)
  /\ End(r)
  /\ UNCHANGED <<now, key, policy, revoked, asked>>

\* Faulty: the call that finds the window full is still counted and let through.
CountPastLimit(r) ==
  /\ req[r].at = "count"
  /\ counter.there /\ ~WindowOver(r)
  /\ counter.count <= MaxRequests
  /\ counter' = [counter EXCEPT !.count = @ + 1]
  /\ Committed(counter.start)
  /\ End(r)
  /\ UNCHANGED <<now, key, policy, revoked, asked>>

\* Or the call is one more of the window, if there is room.
CountOneMore(r) ==
  /\ req[r].at = "count"
  /\ counter.there /\ ~WindowOver(r)
  /\ counter.count < MaxRequests
  /\ counter' = [counter EXCEPT !.count = @ + 1]
  /\ Committed(counter.start)
  /\ End(r)
  /\ UNCHANGED <<now, key, policy, revoked, asked>>

\* The call is turned away, or fails, or an update is: for the limit, a scope, an
\* address, an origin, a database error, a transaction that did not commit.
RequestEnds(r) ==
  /\ req[r] # Idle
  /\ End(r)
  /\ UNCHANGED <<now, key, policy, counter, revoked, asked, admitted>>

-----------------------------------------------------------------------------
(***************************************************************************)
(* handleGatewaySecurityPolicy, PUT: the policy is read, the settings of   *)
(* the payload are changed in it, and the whole row is written.            *)
(***************************************************************************)
ReadPolicy(r) ==
  /\ req[r] = Idle
  /\ req' = [req EXCEPT ![r].at = "save", ![r].read = policy]
  /\ UNCHANGED <<now, key, policy, counter, revoked, asked, admitted>>

\* Faulty: the payload is merged into the default.
SaveOverDefault(r, setting, value) ==
  /\ req[r].at = "save"
  /\ policy' = [DefaultPolicy EXCEPT ![setting] = value]
  /\ asked' = IF req[r].late THEN policy' ELSE [asked EXCEPT ![setting] = value]
  /\ req' = [Late({"save"}) EXCEPT ![r] = Idle]
  /\ UNCHANGED <<now, key, counter, revoked, admitted>>

\* asked follows what was asked; a save that was late makes it what is stored.
SavePolicy(r, setting, value) ==
  /\ req[r].at = "save"
  /\ policy' = [req[r].read EXCEPT ![setting] = value]
  /\ asked' = IF req[r].late THEN policy' ELSE [asked EXCEPT ![setting] = value]
  /\ req' = [Late({"save"}) EXCEPT ![r] = Idle]
  /\ UNCHANGED <<now, key, counter, revoked, admitted>>

Tick ==
  /\ now < MaxTime
  /\ now' = now + 1
  /\ UNCHANGED <<key, policy, counter, req, revoked, asked, admitted>>

Next ==
  \/ CreateKey \/ RevokeKey \/ RotateKey \/ Tick
  \/ \E r \in Requests :
       \/ Verify(r) \/ ListKeys(r) \/ MarkExpired(r) \/ NoteUse(r) \/ EnforcePolicy(r)
       \/ CountFirst(r) \/ InsertCounter(r) \/ CountRestart(r) \/ CountOneMore(r)
       \/ RequestEnds(r) \/ ReadPolicy(r)
       \/ \E setting \in {"enabled", "requireOrigin"}, value \in BOOLEAN :
            SavePolicy(r, setting, value)

Spec == Init /\ [][Next]_vars

-----------------------------------------------------------------------------
(***************************************************************************)
(* Properties.                                                             *)
(***************************************************************************)

\* A revoked key is not active again until it is rotated, although calls that read it
\* before still write its row, and every call on its way then had read it before.
RevokedKeyIsDead ==
  revoked => /\ key \in {"revoked", "expired"}
             /\ \A r \in Requests : req[r].at \in CallStages => req[r].late

\* No window lets more than max_requests calls through, counting those that raced for
\* the first row and those that come with an old clock reading: each is in exactly one
\* window, and the counter of the current one knows them all.  It may know more: calls
\* that were counted and then refused, since the answer to COMMIT was lost.
EveryCallIsCounted ==
  /\ \A t \in Time : admitted[t] <= MaxRequests
  /\ counter.there => admitted[counter.start] <= counter.count
  /\ ~counter.there => \A t \in Time : admitted[t] = 0

\* Calls reach the row in another order than they read the clock, wait for each other
\* there, and race for the first one: what is let through is still what a limiter with
\* fixed windows promises, no overlapping windows and no full one entered.
Limiter == INSTANCE RateLimiter WITH MaxRequests <- MaxRequests, Window <- Window,
                                     Time <- Time, admitted <- admitted
LimiterHolds == Limiter!Spec

\* A setting an administrator saves is kept by every later update that leaves it out,
\* unless that update had read the policy before: only updates that overlap lose one.
SettingsAreKept == policy = asked
=============================================================================
