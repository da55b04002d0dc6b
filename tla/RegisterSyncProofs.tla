-------------------------- MODULE RegisterSyncProofs --------------------------
(***************************************************************************)
(* The safety of RegisterSync, for every number of keys, emails, handlers  *)
(* and faults, every batch size and both kinds of SQLite locking, and that *)
(* it implements Registration.                                             *)
(***************************************************************************)
EXTENDS RegisterSync, FiniteSetTheorems, TLAPS

\* Who is doing what, and which row each place of the system is about.
WorldOK ==
  /\ cloud \in [Emails -> Keys \cup {NoKey, Foreign}]
  /\ cloudKeys \in SUBSET Keys
  /\ cloudUp \in BOOLEAN
  /\ proc \in [Procs -> Proc]
  /\ answer \in [Handlers -> Answers]

FaultsOK == faults \in 0..MaxFaults

RowsOK ==
  /\ local \in [Emails -> Row]
  /\ \A e \in Saved : EmailOf[local[e].key] = e

\* The rows that the worker has yet to look at are there.
QueueOK ==
  /\ queue \subseteq Saved /\ IsFiniteSet(queue) /\ Cardinality(queue) <= Limit
  /\ queue # {} => proc[Worker].step # "idle"

\* What each handler, and the worker, knows at each of its steps: whose registration it
\* is about, that the row is saved before PostgreSQL is tried, and that an attempt that
\* went well has left a row of this node in PostgreSQL.
ProcsKnow ==
  \A p \in Procs :
    /\ proc[p].step \in {"save", "check", "insert", "mark"} => proc[p].key \in Keys
    /\ proc[p].step \in {"check", "insert", "mark"} => EmailAt(p) \in Saved
    /\ proc[p].step = "mark" /\ proc[p].ok => cloud[EmailAt(p)] \in Keys

\* A request is answered once, at its end, for the key that it brought.
AnswersKnow ==
  \A h \in Handlers :
    /\ answer[h] # "none" => proc[h].step = "done"
    /\ answer[h] \in {"pending", "synced"} => proc[h].key \in Keys /\ EmailAt(h) \in Saved
    /\ answer[h] = "synced" => cloud[EmailAt(h)] \in Keys

IInv ==
  /\ WorldOK /\ FaultsOK /\ RowsOK /\ QueueOK
  /\ ProcsKnow /\ AnswersKnow
  /\ SyncedIsInCloud /\ KeyAnswersForItsRow

\* Abbreviations that every proof may look through.
USE DEF At, EmailAt, GoTo, Outcome, Saved, Procs

\* There is room in the order of created_at for one more row.
LEMMA RoomForOneMore ==
  ASSUME NEW S \in SUBSET Emails, NEW e \in Emails \ S
  PROVE  Cardinality(S) + 1 \in 0..Cardinality(Emails)
<1>1. IsFiniteSet(Emails) /\ IsFiniteSet(S) /\ S \cup {e} \in SUBSET Emails
  BY RegisterAssumption, FS_Subset DEF RegisterAssumption
<1>2. Cardinality(S \cup {e}) = Cardinality(S) + 1
  BY <1>1, FS_AddElement
<1>3. Cardinality(S \cup {e}) <= Cardinality(Emails)
  BY <1>1, FS_Subset
<1>4. Cardinality(S) \in Nat /\ Cardinality(Emails) \in Nat
  BY <1>1, FS_CardinalityType
<1> QED
  BY <1>2, <1>3, <1>4

\* A new request has nothing to know yet.
LEMMA SubmitKeeps == ASSUME IInv, NEW h \in Handlers, NEW k \in Keys, Submit(h, k) PROVE IInv'
<1>1. WorldOK'
  BY RegisterAssumption DEF Submit, RegisterAssumption, IInv, WorldOK, ProcsKnow, RowsOK,
         QueueOK, Row, Proc, IdleProc, Answers
<1>2. FaultsOK'
  BY RegisterAssumption DEF Submit, Fault, RegisterAssumption, IInv, FaultsOK
<1>3. RowsOK'
  BY RegisterAssumption DEF Submit, RegisterAssumption, IInv, WorldOK, RowsOK, ProcsKnow, Row
<1>4. QueueOK'
  BY RegisterAssumption DEF Submit, RegisterAssumption, IInv, WorldOK, RowsOK, QueueOK,
         Proc, Row
<1>5. ProcsKnow'
  BY RegisterAssumption DEF Submit, RegisterAssumption, IInv, WorldOK, RowsOK, QueueOK,
         ProcsKnow, KeyAnswersForItsRow, Proc, Row, IdleProc
<1>6. AnswersKnow'
  BY RegisterAssumption DEF Submit, RegisterAssumption, IInv, WorldOK, RowsOK, ProcsKnow,
         AnswersKnow, Proc, Row, Answers, IdleProc
<1>7. SyncedIsInCloud'
  BY RegisterAssumption DEF Submit, RegisterAssumption, IInv, WorldOK, RowsOK, ProcsKnow,
         SyncedIsInCloud, Row, Proc
<1>8. KeyAnswersForItsRow'
  BY RegisterAssumption DEF Submit, RegisterAssumption, IInv, WorldOK, ProcsKnow,
         KeyAnswersForItsRow
<1> QED
  BY <1>1, <1>2, <1>3, <1>4, <1>5, <1>6, <1>7, <1>8 DEF IInv

\* After the save the row is there, under the key of the request or an earlier one.
LEMMA SaveKeeps == ASSUME IInv, NEW h \in Handlers, Save(h) PROVE IInv'
<1>1. WorldOK'
  BY RegisterAssumption DEF Save, RegisterAssumption, IInv, WorldOK, ProcsKnow, RowsOK,
         QueueOK, Row, Proc, IdleProc, Answers
<1>2. FaultsOK'
  BY RegisterAssumption DEF Save, Fault, RegisterAssumption, IInv, FaultsOK
<1> DEFINE e == EmailAt(h)
            row == [key |-> proc[h].key, synced |-> FALSE, born |-> Cardinality(Saved) + 1]
<1>key. proc[h].key \in Keys /\ e \in Emails /\ EmailOf[proc[h].key] = e
  BY RegisterAssumption DEF Save, RegisterAssumption, IInv, ProcsKnow
<1>cases. \/ local' = local /\ e \in Saved
          \/ local' = [local EXCEPT ![e] = row] /\ e \notin Saved
  BY DEF Save
<1>newRow. e \notin Saved => row \in Row
  BY <1>key, RoomForOneMore DEF Row
<1>rows. local \in [Emails -> Row] /\ \A x \in Saved : EmailOf[local[x].key] = x
  BY DEF IInv, RowsOK
<1>noKey. NoKey \notin Keys
  BY RegisterAssumption DEF RegisterAssumption
<1>3. RowsOK'
  <2>1. CASE local' = local
    BY <2>1, <1>rows DEF RowsOK
  <2>2. CASE local' = [local EXCEPT ![e] = row] /\ e \notin Saved
    <3>1. local' \in [Emails -> Row]
      BY <2>2, <1>key, <1>newRow, <1>rows
    <3>2. \A x \in Emails : local'[x] = IF x = e THEN row ELSE local[x]
      BY <2>2, <1>key, <1>rows
    <3>3. row.key = proc[h].key
      OBVIOUS
    <3> HIDE DEF e, row
    <3> QED
      BY <3>1, <3>2, <3>3, <1>key, <1>rows DEF RowsOK
  <2> QED
    BY <1>cases, <2>1, <2>2
<1>4. QueueOK'
  BY RegisterAssumption DEF Save, RegisterAssumption, IInv, WorldOK, RowsOK, QueueOK, Proc, Row
<1>saved. Saved' = Saved \cup {e} /\ UNCHANGED cloud
  <2>1. CASE local' = local /\ e \in Saved
    BY <2>1 DEF Save
  <2>2. CASE local' = [local EXCEPT ![e] = row] /\ e \notin Saved
    <3>1. \A x \in Emails : local'[x] = IF x = e THEN row ELSE local[x]
      BY <2>2, <1>key, <1>rows
    <3>2. row.key \in Keys
      BY <1>key
    <3> HIDE DEF e, row
    <3> QED
      BY <3>1, <3>2, <1>key, <1>noKey DEF Save
  <2> QED
    BY <1>cases, <2>1, <2>2
<1>5. ProcsKnow'
  <2> HIDE DEF Saved, e
  <2>1. \A p \in Procs : proc'[p].key = proc[p].key /\ proc'[p].ok = proc[p].ok
                          /\ (p # h => proc'[p] = proc[p])
    BY DEF Save, IInv, WorldOK, Proc
  <2>2. proc'[h].step = "check"
    BY DEF Save, IInv, WorldOK, Proc
  <2> QED
    BY <2>1, <2>2, <1>key, <1>saved DEF IInv, ProcsKnow, e
<1>6. AnswersKnow'
  BY RegisterAssumption DEF Save, RegisterAssumption, IInv, WorldOK, RowsOK, ProcsKnow,
         AnswersKnow, Proc, Row, Answers, IdleProc
<1>7. SyncedIsInCloud'
  <2>1. CASE local' = local
    BY <2>1 DEF Save, IInv, SyncedIsInCloud
  <2>2. CASE local' = [local EXCEPT ![e] = row] /\ e \notin Saved
    <3>1. \A x \in Emails : local'[x] = IF x = e THEN row ELSE local[x]
      BY <2>2, <1>key, <1>rows
    <3>2. ~row.synced /\ cloud' = cloud
      BY DEF Save
    <3> HIDE DEF e, row
    <3> QED
      BY <3>1, <3>2, <1>key DEF IInv, SyncedIsInCloud
  <2> QED
    BY <1>cases, <2>1, <2>2
<1>8. KeyAnswersForItsRow'
  BY RegisterAssumption DEF Save, RegisterAssumption, IInv, WorldOK, ProcsKnow,
         KeyAnswersForItsRow
<1> QED
  BY <1>1, <1>2, <1>3, <1>4, <1>5, <1>6, <1>7, <1>8 DEF IInv

\* A request that could not save is answered with the error and nothing else.
LEMMA SaveBusyKeeps == ASSUME IInv, NEW h \in Handlers, SaveBusy(h) PROVE IInv'
<1>1. WorldOK'
  BY RegisterAssumption DEF SaveBusy, RegisterAssumption, IInv, WorldOK, ProcsKnow,
         RowsOK, QueueOK, Row, Proc, IdleProc, Answers
<1>2. FaultsOK'
  BY RegisterAssumption DEF SaveBusy, Fault, RegisterAssumption, IInv, FaultsOK
<1>3. RowsOK'
  BY RegisterAssumption DEF SaveBusy, RegisterAssumption, IInv, WorldOK, RowsOK, ProcsKnow, Row
<1>4. QueueOK'
  BY RegisterAssumption DEF SaveBusy, RegisterAssumption, IInv, WorldOK, RowsOK, QueueOK,
         Proc, Row
<1>5. ProcsKnow'
  BY RegisterAssumption DEF SaveBusy, RegisterAssumption, IInv, WorldOK, RowsOK, QueueOK,
         ProcsKnow, KeyAnswersForItsRow, Proc, Row, IdleProc
<1>6. AnswersKnow'
  BY RegisterAssumption DEF SaveBusy, RegisterAssumption, IInv, WorldOK, RowsOK,
         ProcsKnow, AnswersKnow, Proc, Row, Answers, IdleProc
<1>7. SyncedIsInCloud'
  BY RegisterAssumption DEF SaveBusy, RegisterAssumption, IInv, WorldOK, RowsOK,
         ProcsKnow, SyncedIsInCloud, Row, Proc
<1>8. KeyAnswersForItsRow'
  BY RegisterAssumption DEF SaveBusy, RegisterAssumption, IInv, WorldOK, ProcsKnow,
         KeyAnswersForItsRow
<1> QED
  BY <1>1, <1>2, <1>3, <1>4, <1>5, <1>6, <1>7, <1>8 DEF IInv

\* An attempt that failed is only remembered as failed.
LEMMA UnreachableKeeps == ASSUME IInv, NEW p \in Procs, Unreachable(p) PROVE IInv'
<1>1. WorldOK'
  <2>1. proc' \in [Procs -> Proc]
    BY DEF Unreachable, IInv, WorldOK, Proc
  <2>2. proc[p].key \in Keys /\ EmailAt(p) \in Emails
    BY RegisterAssumption DEF Unreachable, RegisterAssumption, IInv, ProcsKnow
  <2> QED
    BY <2>1, <2>2 DEF Unreachable, IInv, WorldOK
<1>2. FaultsOK'
  BY RegisterAssumption DEF Unreachable, Fault, RegisterAssumption, IInv, FaultsOK
<1>3. RowsOK'
  BY RegisterAssumption DEF Unreachable, RegisterAssumption, IInv, WorldOK, RowsOK,
         ProcsKnow, Row
<1>4. QueueOK'
  BY RegisterAssumption DEF Unreachable, RegisterAssumption, IInv, WorldOK, RowsOK,
         QueueOK, Proc, Row
<1>5. ProcsKnow'
  BY RegisterAssumption DEF Unreachable, RegisterAssumption, IInv, WorldOK, RowsOK,
         QueueOK, ProcsKnow, KeyAnswersForItsRow, Proc, Row, IdleProc
<1>6. AnswersKnow'
  BY RegisterAssumption DEF Unreachable, RegisterAssumption, IInv, WorldOK, RowsOK,
         ProcsKnow, AnswersKnow, Proc, Row, Answers, IdleProc
<1>7. SyncedIsInCloud'
  BY RegisterAssumption DEF Unreachable, RegisterAssumption, IInv, WorldOK, RowsOK,
         ProcsKnow, SyncedIsInCloud, Row, Proc
<1>8. KeyAnswersForItsRow'
  BY RegisterAssumption DEF Unreachable, RegisterAssumption, IInv, WorldOK, ProcsKnow,
         KeyAnswersForItsRow
<1> QED
  BY <1>1, <1>2, <1>3, <1>4, <1>5, <1>6, <1>7, <1>8 DEF IInv

\* A known key answers for a row of this node.
LEMMA CheckKeyKeeps == ASSUME IInv, NEW p \in Procs, CheckKey(p) PROVE IInv'
<1>1. WorldOK'
  BY RegisterAssumption DEF CheckKey, RegisterAssumption, IInv, WorldOK, ProcsKnow,
         RowsOK, QueueOK, Row, Proc, IdleProc, Answers
<1>2. FaultsOK'
  BY RegisterAssumption DEF CheckKey, Fault, RegisterAssumption, IInv, FaultsOK
<1>3. RowsOK'
  BY RegisterAssumption DEF CheckKey, RegisterAssumption, IInv, WorldOK, RowsOK, ProcsKnow, Row
<1>4. QueueOK'
  BY RegisterAssumption DEF CheckKey, RegisterAssumption, IInv, WorldOK, RowsOK, QueueOK,
         Proc, Row
<1>5. ProcsKnow'
  BY RegisterAssumption DEF CheckKey, RegisterAssumption, IInv, WorldOK, RowsOK, QueueOK,
         ProcsKnow, KeyAnswersForItsRow, Proc, Row, IdleProc
<1>6. AnswersKnow'
  BY RegisterAssumption DEF CheckKey, RegisterAssumption, IInv, WorldOK, RowsOK,
         ProcsKnow, AnswersKnow, Proc, Row, Answers, IdleProc
<1>7. SyncedIsInCloud'
  BY RegisterAssumption DEF CheckKey, RegisterAssumption, IInv, WorldOK, RowsOK,
         ProcsKnow, SyncedIsInCloud, Row, Proc
<1>8. KeyAnswersForItsRow'
  BY RegisterAssumption DEF CheckKey, RegisterAssumption, IInv, WorldOK, ProcsKnow,
         KeyAnswersForItsRow
<1> QED
  BY <1>1, <1>2, <1>3, <1>4, <1>5, <1>6, <1>7, <1>8 DEF IInv

\* The row and its key are stored together; a taken email leaves both alone.
LEMMA InsertKeeps == ASSUME IInv, NEW p \in Procs, Insert(p) PROVE IInv'
<1>1. WorldOK'
  <2>1. proc' \in [Procs -> Proc]
    BY DEF Insert, IInv, WorldOK, Proc
  <2>2. proc[p].key \in Keys /\ EmailAt(p) \in Emails
    BY RegisterAssumption DEF Insert, RegisterAssumption, IInv, ProcsKnow
  <2> QED
    BY <2>1, <2>2 DEF Insert, IInv, WorldOK
<1>2. FaultsOK'
  BY RegisterAssumption DEF Insert, Fault, RegisterAssumption, IInv, FaultsOK
<1>3. RowsOK'
  BY RegisterAssumption DEF Insert, RegisterAssumption, IInv, WorldOK, RowsOK, ProcsKnow, Row
<1>4. QueueOK'
  BY RegisterAssumption DEF Insert, RegisterAssumption, IInv, WorldOK, RowsOK, QueueOK,
         Proc, Row
<1>5. ProcsKnow'
  BY RegisterAssumption DEF Insert, RegisterAssumption, IInv, WorldOK, RowsOK, QueueOK,
         ProcsKnow, KeyAnswersForItsRow, Proc, Row, IdleProc
<1>6. AnswersKnow'
  <2>1. \A h \in Handlers : answer[h] # "none" => proc'[h] = proc[h]
    BY DEF Insert, IInv, WorldOK, AnswersKnow, Proc
  <2>2. \A e \in Emails : cloud[e] \in Keys => cloud'[e] = cloud[e]
    BY RegisterAssumption DEF RegisterAssumption, Insert, IInv, WorldOK
  <2> QED
    BY RegisterAssumption, <2>1, <2>2 DEF Insert, RegisterAssumption, IInv, AnswersKnow
<1>7. SyncedIsInCloud'
  BY RegisterAssumption DEF Insert, RegisterAssumption, IInv, WorldOK, RowsOK, ProcsKnow,
         SyncedIsInCloud, Row, Proc
<1>8. KeyAnswersForItsRow'
  BY RegisterAssumption DEF Insert, RegisterAssumption, IInv, WorldOK, ProcsKnow,
         KeyAnswersForItsRow
<1> QED
  BY <1>1, <1>2, <1>3, <1>4, <1>5, <1>6, <1>7, <1>8 DEF IInv

\* A row is marked synced only after an attempt that went well.
LEMMA MarkKeeps == ASSUME IInv, NEW p \in Procs, Mark(p) PROVE IInv'
<1>1. WorldOK'
  <2>1. proc' \in [Procs -> Proc]
    BY DEF Mark, Marked, IInv, WorldOK, Proc
  <2>2. answer' \in [Handlers -> Answers]
    BY DEF Mark, Marked, IInv, WorldOK, Answers
  <2> QED
    BY <2>1, <2>2 DEF Mark, IInv, WorldOK
<1>2. FaultsOK'
  BY RegisterAssumption DEF Mark, Marked, Fault, RegisterAssumption, IInv, FaultsOK
<1>rows. local' \in [Emails -> Row] /\ \A e \in Emails : local'[e].key = local[e].key
  BY RegisterAssumption DEF Mark, RegisterAssumption, IInv, WorldOK, RowsOK, Row,
         ProcsKnow, Proc
<1>saved. Saved' = Saved
  BY <1>rows
<1>3. RowsOK'
  BY <1>rows, <1>saved DEF IInv, RowsOK
<1>4. QueueOK'
  BY RegisterAssumption DEF Mark, Marked, RegisterAssumption, IInv, WorldOK, RowsOK,
         QueueOK, Proc, Row
<1>5. ProcsKnow'
  <2> HIDE DEF Saved
  <2>1. \A q \in Procs : q # p => proc'[q] = proc[q]
    BY DEF Mark, Marked, IInv, WorldOK
  <2>2. proc'[p].step \in {"done", "next"}
    BY DEF Mark, Marked, IInv, WorldOK, Proc
  <2> QED
    BY <1>saved, <2>1, <2>2 DEF Mark, IInv, ProcsKnow
<1>6. AnswersKnow'
  BY RegisterAssumption DEF Mark, Marked, RegisterAssumption, IInv, WorldOK, RowsOK,
         ProcsKnow, AnswersKnow, Proc, Row, Answers, IdleProc
<1>7. SyncedIsInCloud'
  BY RegisterAssumption DEF Mark, Marked, RegisterAssumption, IInv, WorldOK, RowsOK,
         ProcsKnow, SyncedIsInCloud, Row, Proc
<1>8. KeyAnswersForItsRow'
  BY RegisterAssumption DEF Mark, Marked, RegisterAssumption, IInv, WorldOK, ProcsKnow,
         KeyAnswersForItsRow
<1> QED
  BY <1>1, <1>2, <1>3, <1>4, <1>5, <1>6, <1>7, <1>8 DEF IInv

\* A lost mark changes no row.
LEMMA MarkLostKeeps == ASSUME IInv, NEW p \in Procs, MarkLost(p) PROVE IInv'
<1>1. WorldOK'
  BY RegisterAssumption DEF MarkLost, Marked, RegisterAssumption, IInv, WorldOK,
         ProcsKnow, RowsOK, QueueOK, Row, Proc, IdleProc, Answers
<1>2. FaultsOK'
  BY RegisterAssumption DEF MarkLost, Marked, Fault, RegisterAssumption, IInv, FaultsOK
<1>3. RowsOK'
  BY RegisterAssumption DEF MarkLost, Marked, RegisterAssumption, IInv, WorldOK, RowsOK,
         ProcsKnow, Row
<1>4. QueueOK'
  BY RegisterAssumption DEF MarkLost, Marked, RegisterAssumption, IInv, WorldOK, RowsOK,
         QueueOK, Proc, Row
<1>5. ProcsKnow'
  BY RegisterAssumption DEF MarkLost, Marked, RegisterAssumption, IInv, WorldOK, RowsOK,
         QueueOK, ProcsKnow, KeyAnswersForItsRow, Proc, Row, IdleProc
<1>6. AnswersKnow'
  BY RegisterAssumption DEF MarkLost, Marked, RegisterAssumption, IInv, WorldOK, RowsOK,
         ProcsKnow, AnswersKnow, Proc, Row, Answers, IdleProc
<1>7. SyncedIsInCloud'
  BY RegisterAssumption DEF MarkLost, Marked, RegisterAssumption, IInv, WorldOK, RowsOK,
         ProcsKnow, SyncedIsInCloud, Row, Proc
<1>8. KeyAnswersForItsRow'
  BY RegisterAssumption DEF MarkLost, Marked, RegisterAssumption, IInv, WorldOK,
         ProcsKnow, KeyAnswersForItsRow
<1> QED
  BY <1>1, <1>2, <1>3, <1>4, <1>5, <1>6, <1>7, <1>8 DEF IInv

\* The cursor holds saved rows, at most Limit of them.
LEMMA WorkerQueryKeeps == ASSUME IInv, WorkerQuery PROVE IInv'
<1>1. WorldOK'
  BY RegisterAssumption DEF WorkerQuery, RegisterAssumption, IInv, WorldOK, ProcsKnow,
         RowsOK, QueueOK, Row, Proc, IdleProc, Answers
<1>2. FaultsOK'
  BY RegisterAssumption DEF WorkerQuery, Fault, RegisterAssumption, IInv, FaultsOK
<1>3. RowsOK'
  BY RegisterAssumption DEF WorkerQuery, RegisterAssumption, IInv, WorldOK, RowsOK,
         ProcsKnow, Row
<1>4. QueueOK'
  <2>1. PICK batch \in SUBSET Pending : queue' = batch /\ Cardinality(batch) <= Limit
    BY DEF WorkerQuery
  <2>2. batch \subseteq Saved /\ batch \subseteq Emails /\ Saved' = Saved
    BY <2>1 DEF Pending, WorkerQuery
  <2>3. IsFiniteSet(batch)
    BY <2>2, RegisterAssumption, FS_Subset DEF RegisterAssumption
  <2>4. proc'[Worker].step = "next"
    BY DEF WorkerQuery, IInv, WorldOK, Proc
  <2> QED
    BY <2>1, <2>2, <2>3, <2>4 DEF QueueOK
<1>5. ProcsKnow'
  BY RegisterAssumption DEF WorkerQuery, RegisterAssumption, IInv, WorldOK, RowsOK,
         QueueOK, ProcsKnow, KeyAnswersForItsRow, Proc, Row, IdleProc
<1>6. AnswersKnow'
  BY RegisterAssumption DEF WorkerQuery, RegisterAssumption, IInv, WorldOK, RowsOK,
         ProcsKnow, AnswersKnow, Proc, Row, Answers, IdleProc
<1>7. SyncedIsInCloud'
  BY RegisterAssumption DEF WorkerQuery, RegisterAssumption, IInv, WorldOK, RowsOK,
         ProcsKnow, SyncedIsInCloud, Row, Proc
<1>8. KeyAnswersForItsRow'
  BY RegisterAssumption DEF WorkerQuery, RegisterAssumption, IInv, WorldOK, ProcsKnow,
         KeyAnswersForItsRow
<1> QED
  BY <1>1, <1>2, <1>3, <1>4, <1>5, <1>6, <1>7, <1>8 DEF IInv

\* The worker takes the key of the row that the cursor returned.
LEMMA WorkerNextKeeps == ASSUME IInv, WorkerNext PROVE IInv'
<1>1. WorldOK'
  BY RegisterAssumption DEF WorkerNext, RegisterAssumption, IInv, WorldOK, ProcsKnow,
         RowsOK, QueueOK, Row, Proc, IdleProc, Answers
<1>2. FaultsOK'
  BY RegisterAssumption DEF WorkerNext, Fault, RegisterAssumption, IInv, FaultsOK
<1>3. RowsOK'
  BY RegisterAssumption DEF WorkerNext, RegisterAssumption, IInv, WorldOK, RowsOK,
         ProcsKnow, Row
<1>4. QueueOK'
  <2>1. PICK e \in queue : queue' = queue \ {e}
    BY DEF WorkerNext
  <2>2. IsFiniteSet(queue') /\ Cardinality(queue') <= Cardinality(queue)
    BY <2>1, FS_Subset DEF IInv, QueueOK
  <2>3. Cardinality(queue) \in Nat /\ Cardinality(queue') \in Nat /\ Limit \in Nat
    BY <2>2, RegisterAssumption, FS_CardinalityType DEF RegisterAssumption, IInv, QueueOK
  <2>4. proc'[Worker].step = "check" /\ Saved' = Saved
    BY DEF WorkerNext, IInv, WorldOK, Proc
  <2> QED
    BY <2>1, <2>2, <2>3, <2>4 DEF IInv, QueueOK
<1>5. ProcsKnow'
  BY RegisterAssumption DEF WorkerNext, RegisterAssumption, IInv, WorldOK, RowsOK,
         QueueOK, ProcsKnow, KeyAnswersForItsRow, Proc, Row, IdleProc
<1>6. AnswersKnow'
  BY RegisterAssumption DEF WorkerNext, RegisterAssumption, IInv, WorldOK, RowsOK,
         ProcsKnow, AnswersKnow, Proc, Row, Answers, IdleProc
<1>7. SyncedIsInCloud'
  BY RegisterAssumption DEF WorkerNext, RegisterAssumption, IInv, WorldOK, RowsOK,
         ProcsKnow, SyncedIsInCloud, Row, Proc
<1>8. KeyAnswersForItsRow'
  BY RegisterAssumption DEF WorkerNext, RegisterAssumption, IInv, WorldOK, ProcsKnow,
         KeyAnswersForItsRow
<1> QED
  BY <1>1, <1>2, <1>3, <1>4, <1>5, <1>6, <1>7, <1>8 DEF IInv

\* A cursor that is closed is exhausted.
LEMMA WorkerCloseKeeps == ASSUME IInv, WorkerClose PROVE IInv'
<1>1. WorldOK'
  BY RegisterAssumption DEF WorkerClose, RegisterAssumption, IInv, WorldOK, ProcsKnow,
         RowsOK, QueueOK, Row, Proc, IdleProc, Answers
<1>2. FaultsOK'
  BY RegisterAssumption DEF WorkerClose, Fault, RegisterAssumption, IInv, FaultsOK
<1>3. RowsOK'
  BY RegisterAssumption DEF WorkerClose, RegisterAssumption, IInv, WorldOK, RowsOK,
         ProcsKnow, Row
<1>4. QueueOK'
  BY RegisterAssumption DEF WorkerClose, RegisterAssumption, IInv, WorldOK, RowsOK,
         QueueOK, Proc, Row
<1>5. ProcsKnow'
  BY RegisterAssumption DEF WorkerClose, RegisterAssumption, IInv, WorldOK, RowsOK,
         QueueOK, ProcsKnow, KeyAnswersForItsRow, Proc, Row, IdleProc
<1>6. AnswersKnow'
  BY RegisterAssumption DEF WorkerClose, RegisterAssumption, IInv, WorldOK, RowsOK,
         ProcsKnow, AnswersKnow, Proc, Row, Answers, IdleProc
<1>7. SyncedIsInCloud'
  BY RegisterAssumption DEF WorkerClose, RegisterAssumption, IInv, WorldOK, RowsOK,
         ProcsKnow, SyncedIsInCloud, Row, Proc
<1>8. KeyAnswersForItsRow'
  BY RegisterAssumption DEF WorkerClose, RegisterAssumption, IInv, WorldOK, ProcsKnow,
         KeyAnswersForItsRow
<1> QED
  BY <1>1, <1>2, <1>3, <1>4, <1>5, <1>6, <1>7, <1>8 DEF IInv

\* An outage changes nothing stored.
LEMMA CloudDownKeeps == ASSUME IInv, CloudDown PROVE IInv'
<1>1. WorldOK'
  BY RegisterAssumption DEF CloudDown, RegisterAssumption, IInv, WorldOK, ProcsKnow,
         RowsOK, QueueOK, Row, Proc, IdleProc, Answers
<1>2. FaultsOK'
  BY RegisterAssumption DEF CloudDown, Fault, RegisterAssumption, IInv, FaultsOK
<1>3. RowsOK'
  BY RegisterAssumption DEF CloudDown, RegisterAssumption, IInv, WorldOK, RowsOK, ProcsKnow, Row
<1>4. QueueOK'
  BY RegisterAssumption DEF CloudDown, RegisterAssumption, IInv, WorldOK, RowsOK, QueueOK,
         Proc, Row
<1>5. ProcsKnow'
  BY RegisterAssumption DEF CloudDown, RegisterAssumption, IInv, WorldOK, RowsOK, QueueOK,
         ProcsKnow, KeyAnswersForItsRow, Proc, Row, IdleProc
<1>6. AnswersKnow'
  BY RegisterAssumption DEF CloudDown, RegisterAssumption, IInv, WorldOK, RowsOK,
         ProcsKnow, AnswersKnow, Proc, Row, Answers, IdleProc
<1>7. SyncedIsInCloud'
  BY RegisterAssumption DEF CloudDown, RegisterAssumption, IInv, WorldOK, RowsOK,
         ProcsKnow, SyncedIsInCloud, Row, Proc
<1>8. KeyAnswersForItsRow'
  BY RegisterAssumption DEF CloudDown, RegisterAssumption, IInv, WorldOK, ProcsKnow,
         KeyAnswersForItsRow
<1> QED
  BY <1>1, <1>2, <1>3, <1>4, <1>5, <1>6, <1>7, <1>8 DEF IInv

\* Neither does its end.
LEMMA CloudBackKeeps == ASSUME IInv, CloudBack PROVE IInv'
<1>1. WorldOK'
  BY RegisterAssumption DEF CloudBack, RegisterAssumption, IInv, WorldOK, ProcsKnow,
         RowsOK, QueueOK, Row, Proc, IdleProc, Answers
<1>2. FaultsOK'
  BY RegisterAssumption DEF CloudBack, Fault, RegisterAssumption, IInv, FaultsOK
<1>3. RowsOK'
  BY RegisterAssumption DEF CloudBack, RegisterAssumption, IInv, WorldOK, RowsOK, ProcsKnow, Row
<1>4. QueueOK'
  BY RegisterAssumption DEF CloudBack, RegisterAssumption, IInv, WorldOK, RowsOK, QueueOK,
         Proc, Row
<1>5. ProcsKnow'
  BY RegisterAssumption DEF CloudBack, RegisterAssumption, IInv, WorldOK, RowsOK, QueueOK,
         ProcsKnow, KeyAnswersForItsRow, Proc, Row, IdleProc
<1>6. AnswersKnow'
  BY RegisterAssumption DEF CloudBack, RegisterAssumption, IInv, WorldOK, RowsOK,
         ProcsKnow, AnswersKnow, Proc, Row, Answers, IdleProc
<1>7. SyncedIsInCloud'
  BY RegisterAssumption DEF CloudBack, RegisterAssumption, IInv, WorldOK, RowsOK,
         ProcsKnow, SyncedIsInCloud, Row, Proc
<1>8. KeyAnswersForItsRow'
  BY RegisterAssumption DEF CloudBack, RegisterAssumption, IInv, WorldOK, ProcsKnow,
         KeyAnswersForItsRow
<1> QED
  BY <1>1, <1>2, <1>3, <1>4, <1>5, <1>6, <1>7, <1>8 DEF IInv

\* Another node takes only an email that is free.
LEMMA ForeignRegisterKeeps == ASSUME IInv, NEW e \in ForeignEmails, ForeignRegister(e) PROVE IInv'
<1>1. WorldOK'
  BY RegisterAssumption DEF ForeignRegister, RegisterAssumption, IInv, WorldOK, ProcsKnow,
         RowsOK, QueueOK, Row, Proc, IdleProc, Answers
<1>2. FaultsOK'
  BY RegisterAssumption DEF ForeignRegister, Fault, RegisterAssumption, IInv, FaultsOK
<1>3. RowsOK'
  BY RegisterAssumption DEF ForeignRegister, RegisterAssumption, IInv, WorldOK, RowsOK,
         ProcsKnow, Row
<1>4. QueueOK'
  BY RegisterAssumption DEF ForeignRegister, RegisterAssumption, IInv, WorldOK, RowsOK,
         QueueOK, Proc, Row
<1>5. ProcsKnow'
  BY RegisterAssumption DEF ForeignRegister, RegisterAssumption, IInv, WorldOK, RowsOK,
         QueueOK, ProcsKnow, KeyAnswersForItsRow, Proc, Row, IdleProc
<1>6. AnswersKnow'
  BY RegisterAssumption DEF ForeignRegister, RegisterAssumption, IInv, WorldOK, RowsOK,
         ProcsKnow, AnswersKnow, Proc, Row, Answers, IdleProc
<1>7. SyncedIsInCloud'
  BY RegisterAssumption DEF ForeignRegister, RegisterAssumption, IInv, WorldOK, RowsOK,
         ProcsKnow, SyncedIsInCloud, Row, Proc
<1>8. KeyAnswersForItsRow'
  BY RegisterAssumption DEF ForeignRegister, RegisterAssumption, IInv, WorldOK, ProcsKnow,
         KeyAnswersForItsRow
<1> QED
  BY <1>1, <1>2, <1>3, <1>4, <1>5, <1>6, <1>7, <1>8 DEF IInv

\* A crash loses the work of the requests, not the databases.
LEMMA CrashKeeps == ASSUME IInv, Crash PROVE IInv'
<1>1. WorldOK'
  BY RegisterAssumption DEF Crash, RegisterAssumption, IInv, WorldOK, ProcsKnow, RowsOK,
         QueueOK, Row, Proc, IdleProc, Answers
<1>2. FaultsOK'
  BY RegisterAssumption DEF Crash, Fault, RegisterAssumption, IInv, FaultsOK
<1>3. RowsOK'
  BY RegisterAssumption DEF Crash, RegisterAssumption, IInv, WorldOK, RowsOK, ProcsKnow, Row
<1>4. QueueOK'
  <2>1. queue' = {}
    BY DEF Crash
  <2> QED
    BY <2>1, FS_EmptySet, RegisterAssumption DEF RegisterAssumption, QueueOK
<1>5. ProcsKnow'
  BY RegisterAssumption DEF Crash, RegisterAssumption, IInv, WorldOK, RowsOK, QueueOK,
         ProcsKnow, KeyAnswersForItsRow, Proc, Row, IdleProc
<1>6. AnswersKnow'
  BY RegisterAssumption DEF Crash, RegisterAssumption, IInv, WorldOK, RowsOK, ProcsKnow,
         AnswersKnow, Proc, Row, Answers, IdleProc
<1>7. SyncedIsInCloud'
  BY RegisterAssumption DEF Crash, RegisterAssumption, IInv, WorldOK, RowsOK, ProcsKnow,
         SyncedIsInCloud, Row, Proc
<1>8. KeyAnswersForItsRow'
  BY RegisterAssumption DEF Crash, RegisterAssumption, IInv, WorldOK, ProcsKnow,
         KeyAnswersForItsRow
<1> QED
  BY <1>1, <1>2, <1>3, <1>4, <1>5, <1>6, <1>7, <1>8 DEF IInv

\* A state in which nothing changes keeps what it knows.
LEMMA StutterKeeps == ASSUME IInv, UNCHANGED vars PROVE IInv'
<1>1. WorldOK'
  BY RegisterAssumption DEF vars, RegisterAssumption, IInv, WorldOK, ProcsKnow, RowsOK,
         QueueOK, Row, Proc, IdleProc, Answers
<1>2. FaultsOK'
  BY RegisterAssumption DEF vars, Fault, RegisterAssumption, IInv, FaultsOK
<1>3. RowsOK'
  BY RegisterAssumption DEF vars, RegisterAssumption, IInv, WorldOK, RowsOK, ProcsKnow, Row
<1>4. QueueOK'
  BY RegisterAssumption DEF vars, RegisterAssumption, IInv, WorldOK, RowsOK, QueueOK, Proc, Row
<1>5. ProcsKnow'
  BY RegisterAssumption DEF vars, RegisterAssumption, IInv, WorldOK, RowsOK, QueueOK,
         ProcsKnow, KeyAnswersForItsRow, Proc, Row, IdleProc
<1>6. AnswersKnow'
  BY RegisterAssumption DEF vars, RegisterAssumption, IInv, WorldOK, RowsOK, ProcsKnow,
         AnswersKnow, Proc, Row, Answers, IdleProc
<1>7. SyncedIsInCloud'
  BY RegisterAssumption DEF vars, RegisterAssumption, IInv, WorldOK, RowsOK, ProcsKnow,
         SyncedIsInCloud, Row, Proc
<1>8. KeyAnswersForItsRow'
  BY RegisterAssumption DEF vars, RegisterAssumption, IInv, WorldOK, ProcsKnow,
         KeyAnswersForItsRow
<1> QED
  BY <1>1, <1>2, <1>3, <1>4, <1>5, <1>6, <1>7, <1>8 DEF IInv

-----------------------------------------------------------------------------
\* Nothing is saved, and nobody does anything.
LEMMA InitIInv == Init => IInv
<1> SUFFICES ASSUME Init PROVE IInv
  OBVIOUS
<1>1. WorldOK
  BY DEF Init, WorldOK, Proc, IdleProc, Answers
<1>2. FaultsOK
  BY RegisterAssumption DEF Init, RegisterAssumption, FaultsOK
<1>3. RowsOK
  <2>1. 0 \in 0..Cardinality(Emails)
    BY RegisterAssumption, FS_CardinalityType DEF RegisterAssumption
  <2> QED
    BY <2>1 DEF Init, RowsOK, Row, NoRow
<1>4. QueueOK
  BY RegisterAssumption, FS_EmptySet DEF Init, RegisterAssumption, QueueOK
<1>5. ProcsKnow /\ AnswersKnow
  BY DEF Init, ProcsKnow, AnswersKnow, IdleProc
<1>6. SyncedIsInCloud /\ KeyAnswersForItsRow
  BY DEF Init, SyncedIsInCloud, KeyAnswersForItsRow, NoRow
<1> QED
  BY <1>1, <1>2, <1>3, <1>4, <1>5, <1>6 DEF IInv

\* Every step of a handler, the worker, another node and the environment keeps the
\* invariant.
LEMMA NextIInv == IInv /\ [Next]_vars => IInv'
<1> SUFFICES ASSUME IInv, [Next]_vars PROVE IInv'
  OBVIOUS
<1>1. ASSUME NEW h \in Handlers, NEW k \in Keys, Submit(h, k) PROVE IInv'
  BY <1>1, SubmitKeeps
<1>2. ASSUME NEW h \in Handlers, Request(h) PROVE IInv'
  BY <1>2, SaveKeeps, SaveBusyKeeps DEF Request
<1>3. ASSUME NEW p \in Procs, Sync(p) PROVE IInv'
  BY <1>3, UnreachableKeeps, CheckKeyKeeps, InsertKeeps, MarkKeeps, MarkLostKeeps DEF Sync
<1>4. CASE WorkerCycle
  BY <1>4, WorkerQueryKeeps, WorkerNextKeeps, WorkerCloseKeeps DEF WorkerCycle
<1>5. CASE CloudDown \/ CloudBack \/ Crash
  BY <1>5, CloudDownKeeps, CloudBackKeeps, CrashKeeps
<1>6. ASSUME NEW e \in ForeignEmails, ForeignRegister(e) PROVE IInv'
  BY <1>6, ForeignRegisterKeeps
<1>7. CASE UNCHANGED vars
  BY <1>7, StutterKeeps
<1> QED
  BY <1>1, <1>2, <1>3, <1>4, <1>5, <1>6, <1>7 DEF Next

\* The invariant holds of every state.
THEOREM InvariantHolds == Spec => []IInv
  BY InitIInv, NextIInv, PTL DEF Spec

\* Every state has its type; in particular the worker never holds more than a batch, and
\* holds rows only during a cycle.
THEOREM TypeCorrect == Spec => []RegisterTypeOK
<1>1. IInv => RegisterTypeOK
  BY DEF IInv, WorldOK, FaultsOK, RowsOK, QueueOK, RegisterTypeOK
<1> QED
  BY <1>1, InvariantHolds, PTL

\* A row that is marked synced is in PostgreSQL, and this node put it there.
THEOREM SyncedMeansStored == Spec => []SyncedIsInCloud
<1>1. IInv => SyncedIsInCloud
  BY DEF IInv
<1> QED
  BY <1>1, InvariantHolds, PTL

\* A recorded idempotency key always answers for the row that it was stored with.
THEOREM KeysAnswerForTheirRows == Spec => []KeyAnswersForItsRow
<1>1. IInv => KeyAnswersForItsRow
  BY DEF IInv
<1> QED
  BY <1>1, InvariantHolds, PTL

\* What a request was told stays true: the row is saved, and stored where it was called
\* synced.
THEOREM AcknowledgementsHold == Spec => []AcknowledgedIsKept
<1>1. IInv => AcknowledgedIsKept
  BY DEF IInv, AnswersKnow, AcknowledgedIsKept
<1> QED
  BY <1>1, InvariantHolds, PTL

-----------------------------------------------------------------------------
(* RegisterSync implements Registration *)

\* Each request's part of the refinement mapping.
Told(h) == [form |-> IF answer[h] = "none" THEN NoKey ELSE proc[h].key, answer |-> answer[h]]

\* The abstract state is one of saved rows, of PostgreSQL and of the answers: a step that
\* changes none of them, nor whom an answer is about, stutters.
LEMMA StutterImplements ==
  ASSUME UNCHANGED <<local, cloud, answer>>,
         \A h \in Handlers : answer[h] # "none" => proc'[h].key = proc[h].key
  PROVE  UNCHANGED Promise!vars
<1>1. [e \in Emails |-> local[e].key]' = [e \in Emails |-> local[e].key]
  OBVIOUS
<1>2. [h \in Handlers |-> Told(h)]' = [h \in Handlers |-> Told(h)]
  BY DEF Told
<1> QED
  BY <1>1, <1>2 DEF Promise!vars, Told

\* An answer to a request is one about the form it brought, the first and the last.
LEMMA AnswerImplements ==
  ASSUME IInv, NEW h \in Handlers, proc[h].step \notin {"idle", "done"}, proc[h].key \in Keys,
         NEW a \in {"local_save_failed", "pending", "synced"},
         answer' = [answer EXCEPT ![h] = a],
         a \in {"pending", "synced"} => EmailAt(h) \in Saved,
         a = "synced" => cloud[EmailAt(h)] \in Keys,
         proc' = [proc EXCEPT ![h].step = "done"],
         [e \in Emails |-> local[e].key]' = [e \in Emails |-> local[e].key],
         UNCHANGED cloud
  PROVE  Promise!Next
<1> DEFINE told == [g \in Handlers |-> Told(g)]
<1>1. /\ answer \in [Handlers -> Answers] /\ proc \in [Procs -> Proc]
      /\ answer[h] = "none" /\ EmailAt(h) \in Emails
  BY RegisterAssumption DEF IInv, WorldOK, AnswersKnow, Answers, RegisterAssumption
<1>2. told' = [told EXCEPT ![h] = [form |-> proc[h].key, answer |-> a]]
  <2> SUFFICES ASSUME NEW g \in Handlers
               PROVE  Told(g)' = IF g = h THEN [form |-> proc[h].key, answer |-> a] ELSE Told(g)
    BY DEF Told
  <2>1. /\ answer'[g] = IF g = h THEN a ELSE answer[g]
        /\ proc'[g].key = proc[g].key
    BY <1>1 DEF Proc
  <2> QED
    BY <2>1 DEF Told
<1>3. Promise!Tell(h, proc[h].key, a)
  BY <1>1, <1>2 DEF Promise!Tell, Told
<1> QED
  BY <1>3 DEF Promise!Next

\* A save holds the form for an email that has none, and otherwise nothing.
LEMMA SaveImplements ==
  ASSUME IInv, NEW h \in Handlers, Save(h) PROVE [Promise!Next]_Promise!vars
<1> DEFINE held == [e \in Emails |-> local[e].key]
<1> PICK k \in Keys : k = proc[h].key
  BY DEF IInv, ProcsKnow, Save
<1>1. /\ EmailOf[k] \in Emails /\ UNCHANGED <<cloud, answer>>
      /\ local \in [Emails -> Row] /\ proc \in [Procs -> Proc]
      /\ \A g \in Handlers : proc'[g].key = proc[g].key
  BY RegisterAssumption DEF IInv, WorldOK, RowsOK, ProcsKnow, Save, Proc, RegisterAssumption
<1>2. CASE EmailAt(h) \in Saved
  <2>1. UNCHANGED local
    BY <1>2 DEF Save
  <2> QED
    BY <1>1, <2>1, StutterImplements
<1>3. CASE EmailAt(h) \notin Saved
  <2>1. held[EmailOf[k]] = NoKey
    BY <1>1, <1>3
  <2>2. held' = [held EXCEPT ![EmailOf[k]] = k]
    <3>1. /\ local'[EmailOf[k]].key = k
          /\ \A e \in Emails \ {EmailOf[k]} : local'[e] = local[e]
      BY <1>1, <1>3 DEF Save
    <3>2. \A e \in Emails : local'[e].key = IF e = EmailOf[k] THEN k ELSE local[e].key
      BY <3>1
    <3> QED
      BY <3>2
  <2>3. [g \in Handlers |-> Told(g)]' = [g \in Handlers |-> Told(g)]
    BY <1>1 DEF Told
  <2>4. Promise!Hold(k)
    BY <1>1, <2>1, <2>2, <2>3 DEF Promise!Hold, Told
  <2>5. Promise!Next
    BY <2>4 DEF Promise!Next
  <2> QED
    BY <2>5
<1> QED
  BY <1>2, <1>3

\* An insert enters a form for an email whose row is saved, or meets the email there.
LEMMA InsertImplements ==
  ASSUME IInv, NEW p \in Procs, Insert(p) PROVE [Promise!Next]_Promise!vars
<1> DEFINE k == proc[p].key
           held == [e \in Emails |-> local[e].key]
<1>1. /\ k \in Keys /\ EmailOf[k] \in Emails /\ EmailOf[k] \in Saved
      /\ UNCHANGED <<local, answer>> /\ proc \in [Procs -> Proc]
  BY RegisterAssumption DEF IInv, WorldOK, ProcsKnow, Insert, RegisterAssumption
<1>2. \A g \in Handlers : proc'[g].key = proc[g].key
  BY <1>1 DEF Insert, Proc
<1>3. CASE cloud[EmailOf[k]] = NoKey
  <2>1. cloud' = [cloud EXCEPT ![EmailOf[k]] = k]
    BY <1>3 DEF Insert
  <2>2. [g \in Handlers |-> Told(g)]' = [g \in Handlers |-> Told(g)]
    BY <1>1, <1>2 DEF Told
  <2>3. held[EmailOf[k]] # NoKey /\ held' = held
    BY <1>1
  <2>4. Promise!Enter(k)
    BY <1>3, <2>1, <2>2, <2>3 DEF Promise!Enter, Told
  <2>5. Promise!Next
    BY <1>1, <2>4 DEF Promise!Next
  <2> QED
    BY <2>5
<1>4. CASE cloud[EmailOf[k]] # NoKey
  <2>1. UNCHANGED cloud
    BY <1>4 DEF Insert
  <2> QED
    BY <1>1, <1>2, <2>1, StutterImplements
<1> QED
  BY <1>3, <1>4

\* The mark, made or lost, answers a request; the worker's tells nobody.
LEMMA MarkImplements ==
  ASSUME IInv, NEW p \in Procs, Mark(p) \/ MarkLost(p) PROVE [Promise!Next]_Promise!vars
<1> DEFINE a == IF proc[p].ok THEN "synced" ELSE "pending"
<1>1. /\ proc \in [Procs -> Proc] /\ local \in [Emails -> Row]
      /\ proc[p].step = "mark" /\ proc[p].key \in Keys /\ EmailAt(p) \in Saved
      /\ proc[p].ok => cloud[EmailAt(p)] \in Keys
      /\ UNCHANGED cloud /\ Marked(p)
  BY DEF IInv, WorldOK, RowsOK, ProcsKnow, Mark, MarkLost
<1>2. [e \in Emails |-> local[e].key]' = [e \in Emails |-> local[e].key]
  <2> SUFFICES ASSUME NEW e \in Emails PROVE local'[e].key = local[e].key
    OBVIOUS
  <2>1. CASE Mark(p)
    BY <1>1, <2>1 DEF Mark, Row
  <2>2. CASE MarkLost(p)
    BY <2>2 DEF MarkLost
  <2> QED
    BY <2>1, <2>2
<1>3. CASE p = Worker
  <2>1. UNCHANGED answer /\ \A g \in Handlers : proc'[g].key = proc[g].key
    BY <1>1, <1>3 DEF Marked, Proc
  <2>2. [g \in Handlers |-> Told(g)]' = [g \in Handlers |-> Told(g)]
    BY <2>1 DEF Told
  <2> QED
    BY <1>1, <1>2, <2>2 DEF Promise!vars, Told
<1>4. CASE p # Worker
  <2>1. /\ p \in Handlers /\ answer' = [answer EXCEPT ![p] = a]
        /\ proc' = [proc EXCEPT ![p].step = "done"]
    BY <1>1, <1>4 DEF Marked
  <2> QED
    BY <1>1, <1>2, <2>1, AnswerImplements
<1> QED
  BY <1>3, <1>4

\* Every step of a node is one of the abstract registration, or none.
LEMMA StepImplements == IInv /\ [Next]_vars => [Promise!Next]_Promise!vars
<1> SUFFICES ASSUME IInv, [Next]_vars PROVE [Promise!Next]_Promise!vars
  OBVIOUS
<1>1. /\ proc \in [Procs -> Proc] /\ cloud \in [Emails -> Keys \cup {NoKey, Foreign}]
      /\ Worker \notin Handlers /\ ForeignEmails \subseteq Emails
      /\ \A h \in Handlers : answer[h] # "none" => proc[h].step = "done"
  BY RegisterAssumption DEF IInv, WorldOK, AnswersKnow, RegisterAssumption
<1>2. ASSUME NEW h \in Handlers, NEW k \in Keys, Submit(h, k)
      PROVE  UNCHANGED Promise!vars
  BY <1>1, <1>2, StutterImplements DEF Submit
<1>3. ASSUME NEW h \in Handlers, SaveBusy(h) PROVE Promise!Next
  <2>1. proc[h].key \in Keys
    BY <1>3 DEF IInv, ProcsKnow, SaveBusy
  <2> QED
    BY <1>3, <2>1, AnswerImplements DEF SaveBusy
<1>4. ASSUME NEW p \in Procs, Unreachable(p) \/ CheckKey(p) PROVE UNCHANGED Promise!vars
  <2>1. UNCHANGED <<local, cloud, answer>> /\ \A g \in Handlers : proc'[g].key = proc[g].key
    BY <1>1, <1>4 DEF Unreachable, CheckKey, Proc
  <2> QED
    BY <2>1, StutterImplements
<1>5. CASE WorkerCycle \/ CloudDown \/ CloudBack
  <2>1. UNCHANGED <<local, cloud, answer>> /\ \A g \in Handlers : proc'[g] = proc[g]
    BY <1>1, <1>5 DEF WorkerCycle, WorkerQuery, WorkerNext, WorkerClose, CloudDown, CloudBack
  <2> QED
    BY <2>1, StutterImplements
<1>6. ASSUME NEW e \in ForeignEmails, ForeignRegister(e) PROVE Promise!Next
  <2>1. Promise!EnterForeign(e)
    BY <1>6 DEF ForeignRegister, Promise!EnterForeign
  <2> QED
    BY <1>1, <2>1 DEF Promise!Next
<1>7. CASE Crash
  <2>1. UNCHANGED <<local, cloud, answer>>
        /\ \A g \in Handlers : proc[g].step = "done" => proc'[g] = proc[g]
    BY <1>1, <1>7 DEF Crash
  <2> QED
    BY <1>1, <2>1, StutterImplements
<1>8. CASE UNCHANGED vars
  BY <1>8, StutterImplements DEF vars
<1> QED
  BY <1>2, <1>3, <1>4, <1>5, <1>6, <1>7, <1>8, SaveImplements, InsertImplements, MarkImplements
     DEF Next, Request, Sync

\* Offline-first registration is a Registration, for any number of keys, emails, requests
\* and faults: no form is replaced, here or in PostgreSQL, PostgreSQL gets from this node
\* only what is saved here, and what a request is told is true and stays so.
THEOREM RegistersAsPromised == Spec => RegistrationHolds
<1>1. Init => Promise!Init
  BY DEF Init, Promise!Init, NoRow
<1> QED
  BY <1>1, InvariantHolds, StepImplements, PTL DEF Spec, RegistrationHolds, Promise!Spec
=============================================================================
