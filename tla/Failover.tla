------------------------------- MODULE Failover -------------------------------
(***************************************************************************)
(* The failover controller (backend/backup/failover_controller.go) behind  *)
(* the requests of failover_api.go.  One mutex guards the status; Promote  *)
(* releases it while the promotion command runs, so that any other request *)
(* may come in between.  The command has no timeout.                       *)
(***************************************************************************)
EXTENDS Naturals, FiniteSets

CONSTANTS
  Requests,      \* POST /failover/promote requests that run at the same time
  MaxCommands    \* bound: promotion commands started

ASSUME FailoverAssumption == MaxCommands \in Nat \ {0}

VARIABLES
  standbyConfigured,   \* SCS_HOT_STANDBY_DSN is set
  commandConfigured,   \* SCS_FAILOVER_PROMOTE_COMMAND is set
  state,               \* status.State
  running,             \* requests whose promotion command runs
  answer,              \* what each promote request was last answered
  started,             \* commands started so far
  promoted             \* whether the standby has really been promoted

vars == <<standbyConfigured, commandConfigured, state, running, answer, started, promoted>>

States == {"ACTIVE", "STANDBY_READY", "EVALUATING", "PROMOTING", "RECOVERED", "BLOCKED", "FAILED"}

FailoverTypeOK ==
  /\ standbyConfigured \in BOOLEAN /\ commandConfigured \in BOOLEAN
  /\ state \in States
  /\ running \subseteq Requests
  /\ answer \in [Requests -> {"none", "recovered", "failed", "refused"}]
  /\ started \in 0..MaxCommands
  /\ promoted \in BOOLEAN

\* Faulty variant of Refusal: a state that is none of the FailoverState constants.
RefusalUnnamed == IF standbyConfigured THEN "READY" ELSE "BLOCKED"

\* What a request leaves the status at when a prerequisite is missing.
Refusal == IF standbyConfigured THEN "STANDBY_READY" ELSE "BLOCKED"

Configured == standbyConfigured /\ commandConfigured

\* NewFailoverController.
Init ==
  /\ standbyConfigured \in BOOLEAN /\ commandConfigured \in BOOLEAN
  /\ state = IF Configured THEN "ACTIVE" ELSE Refusal
  /\ running = {}
  /\ answer = [r \in Requests |-> "none"]
  /\ started = 0
  /\ promoted = FALSE

\* Evaluate looks at the configuration, never at the state it replaces.
Evaluate ==
  /\ state' = IF Configured THEN "EVALUATING" ELSE Refusal
  /\ UNCHANGED <<standbyConfigured, commandConfigured, running, answer, started, promoted>>

PromoteRefused(r) ==
  /\ r \notin running /\ ~Configured
  /\ state' = Refusal
  /\ answer' = [answer EXCEPT ![r] = "refused"]
  /\ UNCHANGED <<standbyConfigured, commandConfigured, running, started, promoted>>

\* The status says PROMOTING, the mutex is released and the command starts.
PromoteBegin(r) ==
  /\ r \notin running /\ Configured
  /\ started < MaxCommands /\ started' = started + 1
  /\ state' = "PROMOTING"
  /\ running' = running \cup {r}
  /\ UNCHANGED <<standbyConfigured, commandConfigured, answer, promoted>>

PromoteDone(r) ==
  /\ r \in running
  /\ promoted' = TRUE
  /\ state' = "RECOVERED"
  /\ running' = running \ {r}
  /\ answer' = [answer EXCEPT ![r] = "recovered"]
  /\ UNCHANGED <<standbyConfigured, commandConfigured, started>>

\* Faulty variant of PromoteFailed: the exit status of the command is ignored.
PromoteFailedIgnored(r) ==
  /\ r \in running
  /\ promoted' \in {promoted, TRUE}
  /\ state' = "RECOVERED"
  /\ running' = running \ {r}
  /\ answer' = [answer EXCEPT ![r] = "recovered"]
  /\ UNCHANGED <<standbyConfigured, commandConfigured, started>>

\* The command fails, before or after it has promoted the standby.
PromoteFailed(r) ==
  /\ r \in running
  /\ promoted' \in {promoted, TRUE}
  /\ state' = "FAILED"
  /\ running' = running \ {r}
  /\ answer' = [answer EXCEPT ![r] = "failed"]
  /\ UNCHANGED <<standbyConfigured, commandConfigured, started>>

Next ==
  \/ Evaluate
  \/ \E r \in Requests :
       PromoteRefused(r) \/ PromoteBegin(r) \/ PromoteDone(r) \/ PromoteFailed(r)

Spec == Init /\ [][Next]_vars

-----------------------------------------------------------------------------
\* However the requests overlap, the status says RECOVERED, and a request is answered
\* that the promotion completed, only of a standby that was promoted.
RecoveredMeansPromoted ==
  state = "RECOVERED" \/ (\E r \in Requests : answer[r] = "recovered") => promoted

=============================================================================
