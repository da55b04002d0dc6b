---------------------------- MODULE RecoveryStatus ----------------------------
(***************************************************************************)
(* GET recovery status (backup_api.go) beside the recovery chain.  The     *)
(* handler takes no lock: it lists the recovery points, then reads the     *)
(* event store, and computes the five-layer score from the two, while      *)
(* Create and the Guardian go on.  One scan of the directory is one step.  *)
(***************************************************************************)
EXTENDS RecoveryChain

VARIABLES
  reader,      \* the request: its program counter and what it has read
  report,      \* the last answer given, and the point it is about
  broken,      \* history: points whose last reconciliation was cut short before
               \* it could write the manifest
  reconciled   \* history: points whose manifest a reconciliation has written

requestVars == <<reader, report>>
historyVars == <<broken, reconciled>>
statusVars == <<vars, requestVars, historyVars>>

NoPoint == 0

IdleReader == [step |-> "idle", latest |-> NoPoint, m |-> NoManifest]

StatusInit ==
  /\ Init
  /\ reader = IdleReader
  /\ report = [status |-> "none", id |-> NoPoint]
  /\ broken = {} /\ reconciled = {}

\* Reconciliations of i that wrote the manifest, or ended before they could, in
\* this step.
Persisted(i) ==
  \E t \in Threads :
    /\ job[t].kind = "reconcile" /\ job[t].id = i
    /\ At(t, "write") /\ job'[t].step = "finalGate"

CutShort(i) ==
  \E t \in Threads :
    /\ job[t].kind = "reconcile" /\ job[t].id = i
    /\ job[t].step \notin {"idle", "finalGate"} /\ job'[t].step = "idle"

\* A step of the chain, with the history it leaves; a crash ends the request too.
ChainStep ==
  /\ Next
  /\ reader' = IF Crash THEN IdleReader ELSE reader
  /\ broken' = (broken \ {i \in Ids : Persisted(i)}) \cup {i \in Ids : CutShort(i)}
  /\ reconciled' = reconciled \cup {i \in Ids : Persisted(i)}
  /\ UNCHANGED report

\* List: the points that pass Verify, of which the last is the latest.
StatusList ==
  /\ reader.step = "idle"
  /\ LET latest == IF TrustedIds = {} THEN NoPoint ELSE Max(TrustedIds) IN
       reader' = [step |-> "listed", latest |-> latest,
                  m |-> IF latest = NoPoint THEN NoManifest ELSE manifest[latest]]
  /\ UNCHANGED <<vars, report, historyVars>>

\* Faulty variant of ReconciliationLayer: a reconciliation that has started counts.
ReconciliationStarted(i) == reconEvent[i] # "none"

\* Layer 4: the newest reconciliation event of the point says success.
ReconciliationLayer(i) == reconEvent[i] = "success"

\* The verified layers, from the listed manifest and the events as they are now;
\* without the event store both event layers are unverified.
Layers(latest, m, readable) ==
  {n \in 1..5 :
     CASE n = 1 -> latest # NoPoint
       [] n = 2 -> latest # NoPoint /\ m.mirrorVerified
       [] n = 3 -> latest # NoPoint /\ m.offsiteVerified
       [] n = 4 -> latest # NoPoint /\ readable /\ ReconciliationLayer(latest)
       [] n = 5 -> readable /\ guardianEvent}

Score(latest, m, readable) == 20 * Cardinality(Layers(latest, m, readable))

\* The events are read and the answer is given.
StatusAnswer ==
  /\ reader.step = "listed"
  /\ \E readable \in {TRUE, ~EventLoss} :
       LET score == Score(reader.latest, reader.m, readable) IN
       report' = [id |-> reader.latest,
                  status |-> CASE reader.latest = NoPoint -> "UNKNOWN"
                               [] reader.latest # NoPoint /\ score = 100 -> "PROTECTED"
                               [] reader.latest # NoPoint /\ score \in 1..99 -> "DEGRADED"
                               [] OTHER -> "FAILED"]
  /\ reader' = IdleReader
  /\ UNCHANGED <<vars, historyVars>>

StatusNext == ChainStep \/ StatusList \/ StatusAnswer

StatusSpec == StatusInit /\ [][StatusNext]_statusVars

-----------------------------------------------------------------------------
\* PROTECTED is only ever said of a point that a reconciliation has verified and
\* rewritten, never of one that Create merely left behind with verified flags.
ProtectedMeansReconciled ==
  report.status = "PROTECTED" => report.id \in reconciled

\* A repair that failed, or that a crash cut short, shows: as long as the event
\* store is reachable, no request answers PROTECTED for a trusted point whose
\* mirror or offsite copy the Guardian could not restore.
FailedRepairNotProtected ==
  [][StatusAnswer /\ report'.status = "PROTECTED" /\ Trusted(reader.latest)
       => reader.latest \notin broken]_statusVars

=============================================================================
