----------------------- MODULE RestoreTransactionProofs -----------------------
(***************************************************************************)
(* The safety of RestoreTransaction, for every set of targets and tools,   *)
(* any number of restores and faults, and an application that writes or    *)
(* not.                                                                    *)
(***************************************************************************)
EXTENDS RestoreTransaction, TLAPS

\* A restore has a result only once it has returned.
ResultWhenIdle == result # "none" => step = "idle"

\* PostgreSQL always is a database: a replay of the rollback dump, which would need
\* an absent one, changes nothing.
PgExists == live.pg # "absent"

BeforePg == {"snapshotSQLite", "snapshotPg", "stage", "restorePg"}
AfterCopy == {"snapshotPg", "stage", "restorePg", "activate", "integrity", "rollback",
"succeed"}
AfterDump == AfterCopy \ {"snapshotPg"}

\* What a live database held when the restore began is there until that database is
\* replaced, and always if it was not asked for.
LiveKept ==
  /\ step \in BeforePg \cup {"activate"} \/ ~WithSQLite => Holds(live.sqlite, before.sqlite)
  /\ step \in BeforePg \/ ~WithPg => Holds(live.pg, before.pg)

\* Once a rollback copy is made it stays what it is, until the restore has returned.
CopiesKept ==
  /\ step \in AfterCopy /\ WithSQLite /\ before.sqlite # "absent" =>
       Holds(pre.sqlite, before.sqlite) \/ Torn
  /\ step \in AfterDump /\ WithPg /\ "pg_dump" \in tools => Holds(pre.pg, before.pg)

\* How far the restore has come towards the recovery point.
Staged == step \in {"restorePg", "activate"} /\ WithSQLite => temp = image
PgRestored ==
  step \in {"activate", "integrity",
  "succeed"} /\ WithPg /\ "psql" \in tools => live.pg = "backup"
SQLiteRestored ==
  /\ step = "integrity" => live.sqlite = image
  /\ step = "succeed" /\ WithSQLite =>
       live.sqlite = IF "sqlite3" \in tools THEN "backup" ELSE image

Progress == Staged /\ PgRestored /\ SQLiteRestored

\* The two halves of RestoreTypeOK: what the databases hold, and where the restore is.
DataOK ==
  /\ tools \in SUBSET Tools
  /\ image \in {"backup", "broken"}
  /\ live \in Databases /\ pre \in Databases /\ before \in Databases
  /\ temp \in Content

ControlOK ==
  /\ step \in Steps /\ target \in {"local", "postgres", "both"} /\ result \in Results
  /\ step \in {"activate", "integrity", "rollback"} => target \in {"local", "both"}
  /\ unseen \subseteq Unseen
  /\ attempts \in 0..MaxAttempts /\ faults \in 0..MaxFaults

\* The inductive invariant.  NothingLost alone is not one: a rollback relies on the copies
\* (CopiesKept), success on every step before it (Progress).
IInv ==
  /\ DataOK /\ ControlOK
  /\ ResultWhenIdle /\ PgExists
  /\ LiveKept /\ CopiesKept /\ Progress
  /\ NothingLost /\ FailedSingleRestoreKeepsLiveData /\ SuccessMeansRestored

\* Abbreviations that every proof may look through.
USE DEF WithSQLite, WithPg, Finish, Holds, Torn

\* A new restore starts from whatever the last one has left, with no rollback copies yet.
LEMMA BeginKeeps == ASSUME IInv, NEW tgt \in Targets, Begin(tgt) PROVE IInv'
<1>1. DataOK'
  BY DEF Begin, IInv, DataOK, ControlOK, Databases, Content, None
<1>2. ControlOK'
  <2>1. attempts' \in 0..MaxAttempts /\ faults' \in 0..MaxFaults
    BY RestoreAssumption DEF Begin, RestoreAssumption, IInv, ControlOK
  <2> QED
    BY RestoreAssumption, <2>1 DEF Begin, RestoreAssumption, IInv, ControlOK, Steps,
           Results, None
<1>3. ResultWhenIdle' /\ PgExists' /\ Progress' /\ SuccessMeansRestored'
  BY DEF Begin, IInv, DataOK, ControlOK, Databases, ResultWhenIdle, PgExists, Progress,
         Staged, PgRestored, SQLiteRestored, SuccessMeansRestored, None
<1>4. LiveKept' /\ CopiesKept'
  BY DEF Begin, IInv, DataOK, ControlOK, Databases, PgExists, LiveKept, CopiesKept,
         BeforePg, AfterCopy, AfterDump, None
<1>5. NothingLost' /\ FailedSingleRestoreKeepsLiveData'
  BY DEF Begin, IInv, DataOK, ControlOK, Databases, ResultWhenIdle, PgExists, LiveKept,
         CopiesKept, BeforePg, AfterCopy, AfterDump, NothingLost,
         FailedSingleRestoreKeepsLiveData, None
<1> QED
  BY <1>1, <1>2, <1>3, <1>4, <1>5 DEF IInv

\* The rollback copy of SQLite holds what the live file holds, or is torn.
LEMMA SnapshotSQLiteKeeps == ASSUME IInv, SnapshotSQLite PROVE IInv'
<1>1. DataOK'
  BY DEF SnapshotSQLite, IInv, DataOK, ControlOK, Databases, Content, CopiesOfLive
<1>2. ControlOK'
  <2>1. attempts' \in 0..MaxAttempts /\ faults' \in 0..MaxFaults
    BY RestoreAssumption DEF SnapshotSQLite, RestoreAssumption, IInv, ControlOK
  <2> QED
    BY RestoreAssumption, <2>1 DEF SnapshotSQLite, RestoreAssumption, IInv, ControlOK,
           Steps, Results, CopiesOfLive
<1>3. ResultWhenIdle' /\ PgExists' /\ Progress' /\ SuccessMeansRestored'
  BY DEF SnapshotSQLite, IInv, DataOK, ControlOK, Databases, ResultWhenIdle, PgExists,
         Progress, Staged, PgRestored, SQLiteRestored, SuccessMeansRestored, CopiesOfLive
<1>4. LiveKept' /\ CopiesKept'
  BY DEF SnapshotSQLite, IInv, DataOK, ControlOK, Databases, PgExists, LiveKept,
         CopiesKept, BeforePg, AfterCopy, AfterDump, CopiesOfLive
<1>5. NothingLost' /\ FailedSingleRestoreKeepsLiveData'
  BY DEF SnapshotSQLite, IInv, DataOK, ControlOK, Databases, ResultWhenIdle, PgExists,
         LiveKept, CopiesKept, BeforePg, AfterCopy, AfterDump, NothingLost,
         FailedSingleRestoreKeepsLiveData, CopiesOfLive
<1> QED
  BY <1>1, <1>2, <1>3, <1>4, <1>5 DEF IInv

\* The rollback dump holds what PostgreSQL holds, where pg_dump is installed.
LEMMA SnapshotPgKeeps == ASSUME IInv, SnapshotPg PROVE IInv'
<1>1. DataOK'
  BY DEF SnapshotPg, IInv, DataOK, ControlOK, Databases, Content
<1>2. ControlOK'
  <2>1. attempts' \in 0..MaxAttempts /\ faults' \in 0..MaxFaults
    BY RestoreAssumption DEF SnapshotPg, RestoreAssumption, IInv, ControlOK
  <2> QED
    BY RestoreAssumption, <2>1 DEF SnapshotPg, RestoreAssumption, IInv, ControlOK,
           Steps, Results
<1>3. ResultWhenIdle' /\ PgExists' /\ Progress' /\ SuccessMeansRestored'
  BY DEF SnapshotPg, IInv, DataOK, ControlOK, Databases, ResultWhenIdle, PgExists,
         Progress, Staged, PgRestored, SQLiteRestored, SuccessMeansRestored
<1>4. LiveKept' /\ CopiesKept'
  BY DEF SnapshotPg, IInv, DataOK, ControlOK, Databases, PgExists, LiveKept, CopiesKept,
         BeforePg, AfterCopy, AfterDump
<1>5. NothingLost' /\ FailedSingleRestoreKeepsLiveData'
  BY DEF SnapshotPg, IInv, DataOK, ControlOK, Databases, ResultWhenIdle, PgExists,
         LiveKept, CopiesKept, BeforePg, AfterCopy, AfterDump, NothingLost,
         FailedSingleRestoreKeepsLiveData
<1> QED
  BY <1>1, <1>2, <1>3, <1>4, <1>5 DEF IInv

\* A failed snapshot has changed no live database.
LEMMA SnapshotFailKeeps == ASSUME IInv, SnapshotFail PROVE IInv'
<1>1. DataOK'
  BY DEF SnapshotFail, IInv, DataOK, ControlOK, Databases, Content, None
<1>2. ControlOK'
  <2>1. attempts' \in 0..MaxAttempts /\ faults' \in 0..MaxFaults
    BY RestoreAssumption DEF SnapshotFail, RestoreAssumption, IInv, ControlOK, Fault
  <2> QED
    BY RestoreAssumption, <2>1 DEF SnapshotFail, RestoreAssumption, IInv, ControlOK,
           Steps, Results, None
<1>3. ResultWhenIdle' /\ PgExists' /\ Progress' /\ SuccessMeansRestored'
  BY DEF SnapshotFail, IInv, DataOK, ControlOK, Databases, ResultWhenIdle, PgExists,
         Progress, Staged, PgRestored, SQLiteRestored, SuccessMeansRestored, None
<1>4. LiveKept' /\ CopiesKept'
  BY DEF SnapshotFail, IInv, DataOK, ControlOK, Databases, PgExists, LiveKept, CopiesKept,
         BeforePg, AfterCopy, AfterDump, None
<1>5. NothingLost' /\ FailedSingleRestoreKeepsLiveData'
  BY DEF SnapshotFail, IInv, DataOK, ControlOK, Databases, ResultWhenIdle, PgExists,
         LiveKept, CopiesKept, BeforePg, AfterCopy, AfterDump, NothingLost,
         FailedSingleRestoreKeepsLiveData, None
<1> QED
  BY <1>1, <1>2, <1>3, <1>4, <1>5 DEF IInv

\* The staged file is the image of the recovery point.
LEMMA StageKeeps == ASSUME IInv, Stage PROVE IInv'
<1>1. DataOK'
  BY DEF Stage, IInv, DataOK, ControlOK, Databases, Content
<1>2. ControlOK'
  <2>1. attempts' \in 0..MaxAttempts /\ faults' \in 0..MaxFaults
    BY RestoreAssumption DEF Stage, RestoreAssumption, IInv, ControlOK
  <2> QED
    BY RestoreAssumption, <2>1 DEF Stage, RestoreAssumption, IInv, ControlOK, Steps, Results
<1>3. ResultWhenIdle' /\ PgExists' /\ Progress' /\ SuccessMeansRestored'
  BY DEF Stage, IInv, DataOK, ControlOK, Databases, ResultWhenIdle, PgExists, Progress,
         Staged, PgRestored, SQLiteRestored, SuccessMeansRestored
<1>4. LiveKept' /\ CopiesKept'
  BY DEF Stage, IInv, DataOK, ControlOK, Databases, PgExists, LiveKept, CopiesKept,
         BeforePg, AfterCopy, AfterDump
<1>5. NothingLost' /\ FailedSingleRestoreKeepsLiveData'
  BY DEF Stage, IInv, DataOK, ControlOK, Databases, ResultWhenIdle, PgExists, LiveKept,
         CopiesKept, BeforePg, AfterCopy, AfterDump, NothingLost,
         FailedSingleRestoreKeepsLiveData
<1> QED
  BY <1>1, <1>2, <1>3, <1>4, <1>5 DEF IInv

\* A failed staging has changed no live database.
LEMMA StageFailKeeps == ASSUME IInv, StageFail PROVE IInv'
<1>1. DataOK'
  BY DEF StageFail, IInv, DataOK, ControlOK, Databases, Content
<1>2. ControlOK'
  <2>1. attempts' \in 0..MaxAttempts /\ faults' \in 0..MaxFaults
    BY RestoreAssumption DEF StageFail, RestoreAssumption, IInv, ControlOK, Fault
  <2> QED
    BY RestoreAssumption, <2>1 DEF StageFail, RestoreAssumption, IInv, ControlOK, Steps, Results
<1>3. ResultWhenIdle' /\ PgExists' /\ Progress' /\ SuccessMeansRestored'
  BY DEF StageFail, IInv, DataOK, ControlOK, Databases, ResultWhenIdle, PgExists,
         Progress, Staged, PgRestored, SQLiteRestored, SuccessMeansRestored
<1>4. LiveKept' /\ CopiesKept'
  BY DEF StageFail, IInv, DataOK, ControlOK, Databases, PgExists, LiveKept, CopiesKept,
         BeforePg, AfterCopy, AfterDump
<1>5. NothingLost' /\ FailedSingleRestoreKeepsLiveData'
  BY DEF StageFail, IInv, DataOK, ControlOK, Databases, ResultWhenIdle, PgExists,
         LiveKept, CopiesKept, BeforePg, AfterCopy, AfterDump, NothingLost,
         FailedSingleRestoreKeepsLiveData
<1> QED
  BY <1>1, <1>2, <1>3, <1>4, <1>5 DEF IInv

\* PostgreSQL is replaced only when there is a rollback dump of it or none could be made.
LEMMA RestorePgKeeps == ASSUME IInv, RestorePg PROVE IInv'
<1>1. DataOK'
  BY DEF RestorePg, IInv, DataOK, ControlOK, Databases, Content, AfterPg
<1>2. ControlOK'
  <2>1. attempts' \in 0..MaxAttempts /\ faults' \in 0..MaxFaults
    BY RestoreAssumption DEF RestorePg, RestoreAssumption, IInv, ControlOK
  <2> QED
    BY RestoreAssumption, <2>1 DEF RestorePg, RestoreAssumption, IInv, ControlOK, Steps,
           Results, AfterPg
<1>3. ResultWhenIdle' /\ PgExists' /\ Progress' /\ SuccessMeansRestored'
  BY DEF RestorePg, IInv, DataOK, ControlOK, Databases, ResultWhenIdle, PgExists,
         Progress, Staged, PgRestored, SQLiteRestored, SuccessMeansRestored, AfterPg
<1>4. LiveKept' /\ CopiesKept'
  BY DEF RestorePg, IInv, DataOK, ControlOK, Databases, PgExists, LiveKept, CopiesKept,
         BeforePg, AfterCopy, AfterDump, AfterPg
<1>5. NothingLost' /\ FailedSingleRestoreKeepsLiveData'
  BY DEF RestorePg, IInv, DataOK, ControlOK, Databases, ResultWhenIdle, PgExists,
         LiveKept, CopiesKept, BeforePg, AfterCopy, AfterDump, NothingLost,
         FailedSingleRestoreKeepsLiveData, AfterPg
<1> QED
  BY <1>1, <1>2, <1>3, <1>4, <1>5 DEF IInv

\* A failed psql has changed PostgreSQL only where its COMMIT took effect, and SQLite not.
LEMMA RestorePgFailKeeps == ASSUME IInv, RestorePgFail PROVE IInv'
<1>1. DataOK'
  BY DEF RestorePgFail, IInv, DataOK, ControlOK, Databases, Content
<1>2. ControlOK'
  <2>1. attempts' \in 0..MaxAttempts /\ faults' \in 0..MaxFaults
    BY RestoreAssumption DEF RestorePgFail, RestoreAssumption, IInv, ControlOK, Fault
  <2> QED
    BY RestoreAssumption, <2>1 DEF RestorePgFail, RestoreAssumption, IInv, ControlOK,
           Steps, Results, Unseen
<1>3. ResultWhenIdle' /\ PgExists' /\ Progress' /\ SuccessMeansRestored'
  BY DEF RestorePgFail, IInv, DataOK, ControlOK, Databases, ResultWhenIdle, PgExists,
         Progress, Staged, PgRestored, SQLiteRestored, SuccessMeansRestored
<1>4. LiveKept' /\ CopiesKept'
  BY DEF RestorePgFail, IInv, DataOK, ControlOK, Databases, PgExists, LiveKept,
         CopiesKept, BeforePg, AfterCopy, AfterDump
<1>5. NothingLost' /\ FailedSingleRestoreKeepsLiveData'
  BY DEF RestorePgFail, IInv, DataOK, ControlOK, Databases, ResultWhenIdle, PgExists,
         LiveKept, CopiesKept, BeforePg, AfterCopy, AfterDump, NothingLost,
         FailedSingleRestoreKeepsLiveData
<1> QED
  BY <1>1, <1>2, <1>3, <1>4, <1>5 DEF IInv

\* SQLite is replaced only after its rollback copy was made.
LEMMA ActivateKeeps == ASSUME IInv, Activate PROVE IInv'
<1>1. DataOK'
  BY DEF Activate, IInv, DataOK, ControlOK, Databases, Content
<1>2. ControlOK'
  <2>1. attempts' \in 0..MaxAttempts /\ faults' \in 0..MaxFaults
    BY RestoreAssumption DEF Activate, RestoreAssumption, IInv, ControlOK
  <2> QED
    BY RestoreAssumption, <2>1 DEF Activate, RestoreAssumption, IInv, ControlOK, Steps, Results
<1>3. ResultWhenIdle' /\ PgExists' /\ Progress' /\ SuccessMeansRestored'
  BY DEF Activate, IInv, DataOK, ControlOK, Databases, ResultWhenIdle, PgExists, Progress,
         Staged, PgRestored, SQLiteRestored, SuccessMeansRestored
<1>4. LiveKept' /\ CopiesKept'
  BY DEF Activate, IInv, DataOK, ControlOK, Databases, PgExists, LiveKept, CopiesKept,
         BeforePg, AfterCopy, AfterDump
<1>5. NothingLost' /\ FailedSingleRestoreKeepsLiveData'
  BY DEF Activate, IInv, DataOK, ControlOK, Databases, ResultWhenIdle, PgExists, LiveKept,
         CopiesKept, BeforePg, AfterCopy, AfterDump, NothingLost,
         FailedSingleRestoreKeepsLiveData
<1> QED
  BY <1>1, <1>2, <1>3, <1>4, <1>5 DEF IInv

\* A failed rename has changed no SQLite file; PostgreSQL stays as it is.
LEMMA ActivateFailKeeps == ASSUME IInv, ActivateFail PROVE IInv'
<1>1. DataOK'
  BY DEF ActivateFail, IInv, DataOK, ControlOK, Databases, Content, PgRolledBack, Replay
<1>2. ControlOK'
  <2>1. attempts' \in 0..MaxAttempts /\ faults' \in 0..MaxFaults
    BY RestoreAssumption DEF ActivateFail, RestoreAssumption, IInv, ControlOK, Fault
  <2> QED
    BY RestoreAssumption, <2>1 DEF ActivateFail, RestoreAssumption, IInv, ControlOK,
           Steps, Results, PgRolledBack, Replay
<1>3. ResultWhenIdle' /\ PgExists' /\ Progress' /\ SuccessMeansRestored'
  BY DEF ActivateFail, IInv, DataOK, ControlOK, Databases, ResultWhenIdle, PgExists,
         Progress, Staged, PgRestored, SQLiteRestored, SuccessMeansRestored, PgRolledBack,
         Replay
<1>4. LiveKept' /\ CopiesKept'
  BY DEF ActivateFail, IInv, DataOK, ControlOK, Databases, PgExists, LiveKept, CopiesKept,
         BeforePg, AfterCopy, AfterDump, PgRolledBack, Replay
<1>5. NothingLost' /\ FailedSingleRestoreKeepsLiveData'
  BY DEF ActivateFail, IInv, DataOK, ControlOK, Databases, ResultWhenIdle, PgExists,
         LiveKept, CopiesKept, BeforePg, AfterCopy, AfterDump, NothingLost,
         FailedSingleRestoreKeepsLiveData, PgRolledBack, Replay
<1> QED
  BY <1>1, <1>2, <1>3, <1>4, <1>5 DEF IInv

\* Only a sound file, or one that cannot be checked, passes the integrity check.
LEMMA IntegrityKeeps == ASSUME IInv, Integrity PROVE IInv'
<1>1. DataOK'
  BY DEF Integrity, IInv, DataOK, ControlOK, Databases, Content
<1>2. ControlOK'
  <2>1. attempts' \in 0..MaxAttempts /\ faults' \in 0..MaxFaults
    BY RestoreAssumption DEF Integrity, RestoreAssumption, IInv, ControlOK
  <2> QED
    BY RestoreAssumption, <2>1 DEF Integrity, RestoreAssumption, IInv, ControlOK, Steps, Results
<1>3. ResultWhenIdle' /\ PgExists' /\ Progress' /\ SuccessMeansRestored'
  BY DEF Integrity, IInv, DataOK, ControlOK, Databases, ResultWhenIdle, PgExists,
         Progress, Staged, PgRestored, SQLiteRestored, SuccessMeansRestored
<1>4. LiveKept' /\ CopiesKept'
  BY DEF Integrity, IInv, DataOK, ControlOK, Databases, PgExists, LiveKept, CopiesKept,
         BeforePg, AfterCopy, AfterDump
<1>5. NothingLost' /\ FailedSingleRestoreKeepsLiveData'
  BY DEF Integrity, IInv, DataOK, ControlOK, Databases, ResultWhenIdle, PgExists,
         LiveKept, CopiesKept, BeforePg, AfterCopy, AfterDump, NothingLost,
         FailedSingleRestoreKeepsLiveData
<1> QED
  BY <1>1, <1>2, <1>3, <1>4, <1>5 DEF IInv

\* A check that fails itself leads to the rollback.
LEMMA IntegrityErrorKeeps == ASSUME IInv, IntegrityError PROVE IInv'
<1>1. DataOK'
  BY DEF IntegrityError, IInv, DataOK, ControlOK, Databases, Content
<1>2. ControlOK'
  <2>1. attempts' \in 0..MaxAttempts /\ faults' \in 0..MaxFaults
    BY RestoreAssumption DEF IntegrityError, RestoreAssumption, IInv, ControlOK, Fault
  <2> QED
    BY RestoreAssumption, <2>1 DEF IntegrityError, RestoreAssumption, IInv, ControlOK,
           Steps, Results
<1>3. ResultWhenIdle' /\ PgExists' /\ Progress' /\ SuccessMeansRestored'
  BY DEF IntegrityError, IInv, DataOK, ControlOK, Databases, ResultWhenIdle, PgExists,
         Progress, Staged, PgRestored, SQLiteRestored, SuccessMeansRestored
<1>4. LiveKept' /\ CopiesKept'
  BY DEF IntegrityError, IInv, DataOK, ControlOK, Databases, PgExists, LiveKept,
         CopiesKept, BeforePg, AfterCopy, AfterDump
<1>5. NothingLost' /\ FailedSingleRestoreKeepsLiveData'
  BY DEF IntegrityError, IInv, DataOK, ControlOK, Databases, ResultWhenIdle, PgExists,
         LiveKept, CopiesKept, BeforePg, AfterCopy, AfterDump, NothingLost,
         FailedSingleRestoreKeepsLiveData
<1> QED
  BY <1>1, <1>2, <1>3, <1>4, <1>5 DEF IInv

\* The rollback puts back what the restore began with.
LEMMA RollbackKeeps == ASSUME IInv, Rollback PROVE IInv'
<1>1. DataOK'
  BY DEF Rollback, IInv, DataOK, ControlOK, Databases, Content, PgRolledBack, Replay
<1>2. ControlOK'
  <2>1. attempts' \in 0..MaxAttempts /\ faults' \in 0..MaxFaults
    BY RestoreAssumption DEF Rollback, RestoreAssumption, IInv, ControlOK
  <2> QED
    BY RestoreAssumption, <2>1 DEF Rollback, RestoreAssumption, IInv, ControlOK, Steps,
           Results, PgRolledBack, Replay
<1>3. ResultWhenIdle' /\ PgExists' /\ Progress' /\ SuccessMeansRestored'
  BY DEF Rollback, IInv, DataOK, ControlOK, Databases, ResultWhenIdle, PgExists, Progress,
         Staged, PgRestored, SQLiteRestored, SuccessMeansRestored, PgRolledBack, Replay
<1>4. LiveKept' /\ CopiesKept'
  BY DEF Rollback, IInv, DataOK, ControlOK, Databases, PgExists, LiveKept, CopiesKept,
         BeforePg, AfterCopy, AfterDump, PgRolledBack, Replay
<1>5. NothingLost' /\ FailedSingleRestoreKeepsLiveData'
  BY DEF Rollback, IInv, DataOK, ControlOK, Databases, ResultWhenIdle, PgExists, LiveKept,
         CopiesKept, BeforePg, AfterCopy, AfterDump, NothingLost,
         FailedSingleRestoreKeepsLiveData, PgRolledBack, Replay
<1> QED
  BY <1>1, <1>2, <1>3, <1>4, <1>5 DEF IInv

\* After a failed copy back the rollback copy still holds it.
LEMMA RollbackFailKeeps == ASSUME IInv, RollbackFail PROVE IInv'
<1>1. DataOK'
  <2>1. PgRolledBack \in Content
    BY DEF PgRolledBack, Replay, IInv, DataOK, Databases
  <2>2. live' \in Databases
    BY <2>1 DEF RollbackFail, IInv, DataOK, Databases, Content
  <2> QED
    BY <2>2 DEF RollbackFail, IInv, DataOK
<1>2. ControlOK'
  <2>1. attempts' \in 0..MaxAttempts /\ faults' \in 0..MaxFaults
    <3>1. attempts' = attempts /\ faults < MaxFaults /\ faults' = faults + 1
      BY DEF RollbackFail, Fault
    <3> QED
      BY <3>1, RestoreAssumption DEF RestoreAssumption, IInv, ControlOK
  <2> QED
    BY RestoreAssumption, <2>1 DEF RollbackFail, RestoreAssumption, IInv, ControlOK,
           Steps, Results, Unseen, PgRolledBack, Replay
<1>3. ResultWhenIdle' /\ PgExists' /\ Progress' /\ SuccessMeansRestored'
  BY DEF RollbackFail, IInv, DataOK, ControlOK, Databases, ResultWhenIdle, PgExists,
         Progress, Staged, PgRestored, SQLiteRestored, SuccessMeansRestored, PgRolledBack,
         Replay
<1>4. LiveKept' /\ CopiesKept'
  BY DEF RollbackFail, IInv, DataOK, ControlOK, Databases, PgExists, LiveKept, CopiesKept,
         BeforePg, AfterCopy, AfterDump, PgRolledBack, Replay
<1>5. NothingLost' /\ FailedSingleRestoreKeepsLiveData'
  BY DEF RollbackFail, IInv, DataOK, ControlOK, Databases, ResultWhenIdle, PgExists,
         LiveKept, CopiesKept, BeforePg, AfterCopy, AfterDump, NothingLost,
         FailedSingleRestoreKeepsLiveData, PgRolledBack, Replay
<1> QED
  BY <1>1, <1>2, <1>3, <1>4, <1>5 DEF IInv

\* Success is reported at the end of a restore that went all the way.
LEMMA SucceedKeeps == ASSUME IInv, Succeed PROVE IInv'
<1>1. DataOK'
  BY DEF Succeed, IInv, DataOK, ControlOK, Databases, Content
<1>2. ControlOK'
  <2>1. attempts' \in 0..MaxAttempts /\ faults' \in 0..MaxFaults
    BY RestoreAssumption DEF Succeed, RestoreAssumption, IInv, ControlOK
  <2> QED
    BY RestoreAssumption, <2>1 DEF Succeed, RestoreAssumption, IInv, ControlOK, Steps, Results
<1>3. ResultWhenIdle' /\ PgExists' /\ Progress' /\ SuccessMeansRestored'
  BY DEF Succeed, IInv, DataOK, ControlOK, Databases, ResultWhenIdle, PgExists, Progress,
         Staged, PgRestored, SQLiteRestored, SuccessMeansRestored
<1>4. LiveKept' /\ CopiesKept'
  BY DEF Succeed, IInv, DataOK, ControlOK, Databases, PgExists, LiveKept, CopiesKept,
         BeforePg, AfterCopy, AfterDump
<1>5. NothingLost' /\ FailedSingleRestoreKeepsLiveData'
  BY DEF Succeed, IInv, DataOK, ControlOK, Databases, ResultWhenIdle, PgExists, LiveKept,
         CopiesKept, BeforePg, AfterCopy, AfterDump, NothingLost,
         FailedSingleRestoreKeepsLiveData
<1> QED
  BY <1>1, <1>2, <1>3, <1>4, <1>5 DEF IInv

\* A crash leaves the live databases, the rollback copies, or both.
LEMMA CrashKeeps == ASSUME IInv, Crash PROVE IInv'
<1>1. DataOK'
  BY DEF Crash, IInv, DataOK, ControlOK, Databases, Content
<1>2. ControlOK'
  <2>1. attempts' \in 0..MaxAttempts /\ faults' \in 0..MaxFaults
    BY RestoreAssumption DEF Crash, RestoreAssumption, IInv, ControlOK, Fault
  <2> QED
    BY RestoreAssumption, <2>1 DEF Crash, RestoreAssumption, IInv, ControlOK, Steps, Results
<1>3. ResultWhenIdle' /\ PgExists' /\ Progress' /\ SuccessMeansRestored'
  BY DEF Crash, IInv, DataOK, ControlOK, Databases, ResultWhenIdle, PgExists, Progress,
         Staged, PgRestored, SQLiteRestored, SuccessMeansRestored
<1>4. LiveKept' /\ CopiesKept'
  BY DEF Crash, IInv, DataOK, ControlOK, Databases, PgExists, LiveKept, CopiesKept,
         BeforePg, AfterCopy, AfterDump
<1>5. NothingLost' /\ FailedSingleRestoreKeepsLiveData'
  BY DEF Crash, IInv, DataOK, ControlOK, Databases, ResultWhenIdle, PgExists, LiveKept,
         CopiesKept, BeforePg, AfterCopy, AfterDump, NothingLost,
         FailedSingleRestoreKeepsLiveData
<1> QED
  BY <1>1, <1>2, <1>3, <1>4, <1>5 DEF IInv

\* A write of the application adds to what a live database holds.
LEMMA AppWriteKeeps == ASSUME IInv, AppWrite PROVE IInv'
<1>1. DataOK'
  BY DEF AppWrite, IInv, DataOK, ControlOK, Databases, Content
<1>2. ControlOK'
  <2>1. attempts' \in 0..MaxAttempts /\ faults' \in 0..MaxFaults
    BY RestoreAssumption DEF AppWrite, RestoreAssumption, IInv, ControlOK
  <2> QED
    BY RestoreAssumption, <2>1 DEF AppWrite, RestoreAssumption, IInv, ControlOK, Steps, Results
<1>3. ResultWhenIdle' /\ PgExists' /\ Progress' /\ SuccessMeansRestored'
  BY DEF AppWrite, IInv, DataOK, ControlOK, Databases, ResultWhenIdle, PgExists, Progress,
         Staged, PgRestored, SQLiteRestored, SuccessMeansRestored
<1>4. LiveKept' /\ CopiesKept'
  BY DEF AppWrite, IInv, DataOK, ControlOK, Databases, PgExists, LiveKept, CopiesKept,
         BeforePg, AfterCopy, AfterDump
<1>5. NothingLost' /\ FailedSingleRestoreKeepsLiveData'
  BY DEF AppWrite, IInv, DataOK, ControlOK, Databases, ResultWhenIdle, PgExists, LiveKept,
         CopiesKept, BeforePg, AfterCopy, AfterDump, NothingLost,
         FailedSingleRestoreKeepsLiveData
<1> QED
  BY <1>1, <1>2, <1>3, <1>4, <1>5 DEF IInv

-----------------------------------------------------------------------------
\* A state in which nothing changes keeps what it knows.
LEMMA StutterKeeps == ASSUME IInv, UNCHANGED vars PROVE IInv'
<1> USE DEF vars
<1>1. DataOK' /\ ControlOK'
  BY DEF IInv, DataOK, ControlOK
<1>2. ResultWhenIdle' /\ PgExists' /\ LiveKept' /\ CopiesKept'
  BY DEF IInv, ResultWhenIdle, PgExists, LiveKept, CopiesKept
<1>3. Progress' /\ NothingLost' /\ FailedSingleRestoreKeepsLiveData' /\ SuccessMeansRestored'
  BY DEF IInv, Progress, Staged, PgRestored, SQLiteRestored, NothingLost,
       FailedSingleRestoreKeepsLiveData, SuccessMeansRestored
<1> QED
  BY <1>1, <1>2, <1>3 DEF IInv

\* Nothing has happened yet.
LEMMA InitIInv == Init => IInv
<1> SUFFICES ASSUME Init PROVE IInv
  OBVIOUS
<1>1. DataOK
  BY RestoreAssumption DEF Init, RestoreAssumption, DataOK, Databases, Content, None
<1>2. ControlOK
  BY RestoreAssumption DEF Init, RestoreAssumption, ControlOK, Steps, Results
<1>3. ResultWhenIdle /\ PgExists /\ LiveKept /\ CopiesKept /\ Progress
  BY DEF Init, ResultWhenIdle, PgExists, LiveKept, CopiesKept, AfterCopy, AfterDump, Progress,
         Staged, PgRestored, SQLiteRestored
<1>4. NothingLost /\ FailedSingleRestoreKeepsLiveData /\ SuccessMeansRestored
  BY DEF Init, NothingLost, FailedSingleRestoreKeepsLiveData, SuccessMeansRestored
<1> QED
  BY <1>1, <1>2, <1>3, <1>4 DEF IInv

\* Every step of a restore, of the environment and of the application keeps the invariant.
LEMMA NextIInv == IInv /\ [Next]_vars => IInv'
<1> SUFFICES ASSUME IInv, [Next]_vars PROVE IInv'
  OBVIOUS
<1>1. CASE Next
  BY <1>1, BeginKeeps, SnapshotSQLiteKeeps, SnapshotPgKeeps, SnapshotFailKeeps, StageKeeps,
     StageFailKeeps, RestorePgKeeps, RestorePgFailKeeps, ActivateKeeps, ActivateFailKeeps,
     IntegrityKeeps, IntegrityErrorKeeps, RollbackKeeps, RollbackFailKeeps, SucceedKeeps,
     CrashKeeps, AppWriteKeeps
  DEF Next
<1> QED
  BY <1>1, StutterKeeps

\* The invariant holds of every state.
THEOREM InvariantHolds == Spec => []IInv
  BY InitIInv, NextIInv, PTL DEF Spec

\* The state of a restore always has its type, for every set of tools and targets.
THEOREM TypeCorrect == Spec => []RestoreTypeOK
<1>1. IInv => RestoreTypeOK
  BY DEF IInv, DataOK, ControlOK, RestoreTypeOK
<1> QED
  BY <1>1, InvariantHolds, PTL

\* What a live database held when a restore began is in it or in its rollback copy,
\* whatever fails and wherever the process dies.
THEOREM LiveDataNeverLost == Spec => []NothingLost
<1>1. IInv => NothingLost
  BY DEF IInv
<1> QED
  BY <1>1, InvariantHolds, PTL

\* A restore of one database that reports an error has left in both databases what they
\* held, but for a torn rollback copy, a copy back that failed unseen, and an error that
\* psql reported for a transaction that PostgreSQL had committed.
THEOREM FailedSingleRestoreUndone == Spec => []FailedSingleRestoreKeepsLiveData
<1>1. IInv => FailedSingleRestoreKeepsLiveData
  BY DEF IInv
<1> QED
  BY <1>1, InvariantHolds, PTL

\* A restore that reports success has restored every database there is a tool for.
THEOREM SuccessIsTrue == Spec => []SuccessMeansRestored
<1>1. IInv => SuccessMeansRestored
  BY DEF IInv
<1> QED
  BY <1>1, InvariantHolds, PTL

\* A restore of both databases activates the SQLite image only once PostgreSQL, which
\* psql can restore, is at the recovery point.
THEOREM SQLiteOnlyAfterPostgres == Spec => SQLiteAfterPostgres
<1>1. IInv => (target = "both" /\ "psql" \in tools /\ step = "activate"
                 /\ live'.sqlite # live.sqlite /\ live'.sqlite = image => live.pg = "backup")
  BY DEF IInv, Progress, PgRestored
<1> QED
  BY <1>1, InvariantHolds, PTL DEF SQLiteAfterPostgres
=============================================================================
