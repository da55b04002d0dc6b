---------------------------- MODULE FailoverProofs ----------------------------
(***************************************************************************)
(* Type correctness and the safety of Failover, for any set of requests.   *)
(***************************************************************************)
EXTENDS Failover, TLAPS

\* Without a standby, or without a command, no promotion ever runs and the status names
\* what is missing.
UnconfiguredNeverPromotes ==
  ~Configured => running = {} /\ ~promoted /\ state = Refusal

\* What every reachable state satisfies: the two properties hold together by
\* themselves, because a result is only applied by the request that ran the command.
Inv == FailoverTypeOK /\ RecoveredMeansPromoted /\ UnconfiguredNeverPromotes

\* A controller starts in a state that its configuration explains.
LEMMA InitInv == Init => Inv
<1> SUFFICES ASSUME Init PROVE Inv
  OBVIOUS
<1>1. state \in States
  BY DEF Init, States, Refusal, Configured
<1>2. started \in 0..MaxCommands
  BY FailoverAssumption DEF Init, FailoverAssumption
<1>3. answer \in [Requests -> {"none", "recovered", "failed", "refused"}]
  BY DEF Init
<1>4. FailoverTypeOK
  BY <1>1, <1>2, <1>3 DEF Init, FailoverTypeOK
<1>5. RecoveredMeansPromoted
  BY DEF Init, RecoveredMeansPromoted, Refusal
<1>6. UnconfiguredNeverPromotes
  BY DEF Init, UnconfiguredNeverPromotes
<1> QED
  BY <1>4, <1>5, <1>6 DEF Inv

\* Every request, whatever it interrupts, preserves the invariant.
LEMMA NextInv == Inv /\ [Next]_vars => Inv'
<1> SUFFICES ASSUME Inv, [Next]_vars PROVE Inv'
  OBVIOUS
<1> USE FailoverAssumption DEF Inv, FailoverTypeOK, FailoverAssumption
<1>1. CASE Evaluate
  BY <1>1 DEF Evaluate, States, Refusal, Configured, RecoveredMeansPromoted,
              UnconfiguredNeverPromotes
<1>2. ASSUME NEW r \in Requests, PromoteRefused(r) PROVE Inv'
  BY <1>2 DEF PromoteRefused, States, Refusal, Configured, RecoveredMeansPromoted,
              UnconfiguredNeverPromotes
<1>3. ASSUME NEW r \in Requests, PromoteBegin(r) PROVE Inv'
  BY <1>3 DEF PromoteBegin, States, Refusal, Configured, RecoveredMeansPromoted,
              UnconfiguredNeverPromotes
<1>4. ASSUME NEW r \in Requests, PromoteDone(r) PROVE Inv'
  BY <1>4 DEF PromoteDone, States, Refusal, Configured, RecoveredMeansPromoted,
              UnconfiguredNeverPromotes
<1>5. ASSUME NEW r \in Requests, PromoteFailed(r) PROVE Inv'
  <2>1. promoted' \in BOOLEAN /\ (promoted => promoted')
    <3>1. promoted' = promoted \/ promoted' = TRUE
      BY <1>5 DEF PromoteFailed
    <3> QED
      BY <3>1, Zenon
  <2>2. FailoverTypeOK'
    BY <1>5, <2>1 DEF PromoteFailed, States
  <2>3. RecoveredMeansPromoted'
    BY <1>5, <2>1 DEF PromoteFailed, RecoveredMeansPromoted
  <2>4. Configured'
    BY <1>5 DEF PromoteFailed, Configured, UnconfiguredNeverPromotes
  <2> QED
    BY <2>2, <2>3, <2>4 DEF UnconfiguredNeverPromotes
<1>6. CASE UNCHANGED vars
  BY <1>6 DEF vars, Refusal, Configured, RecoveredMeansPromoted, UnconfiguredNeverPromotes
<1> QED
  BY <1>1, <1>2, <1>3, <1>4, <1>5, <1>6 DEF Next

\* The invariant holds of every state.
THEOREM InvariantHolds == Spec => []Inv
  BY InitInv, NextInv, PTL DEF Spec

\* The status is always one of the FailoverState constants, for any number of requests.
THEOREM TypeCorrect == Spec => []FailoverTypeOK
<1>1. Inv => FailoverTypeOK
  BY DEF Inv
<1> QED
  BY <1>1, InvariantHolds, PTL

\* Promote reports RECOVERED only of a standby that was promoted, however many
\* promotions and evaluations overlap.
THEOREM RecoveredTruly == Spec => []RecoveredMeansPromoted
<1>1. Inv => RecoveredMeansPromoted
  BY DEF Inv
<1> QED
  BY <1>1, InvariantHolds, PTL

\* A controller without a standby or without a command runs no promotion.
THEOREM UnconfiguredStaysIdle == Spec => []UnconfiguredNeverPromotes
<1>1. Inv => UnconfiguredNeverPromotes
  BY DEF Inv
<1> QED
  BY <1>1, InvariantHolds, PTL
=============================================================================
