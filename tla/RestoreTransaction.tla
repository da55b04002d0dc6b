-------------------------- MODULE RestoreTransaction --------------------------
(***************************************************************************)
(* Service.Restore (backup/backup_service.go): the recovery image of one   *)
(* point is put in place of the live PostgreSQL and SQLite databases, with *)
(* a pre-restore snapshot to go back to.  The two databases do not share a *)
(* transaction: PostgreSQL is replaced by psql --single-transaction, then  *)
(* SQLite by a rename.  Service.mu is held throughout, so no other job     *)
(* runs; the application does not take it and may write meanwhile.         *)
(*                                                                         *)
(* A database is abstracted to which content it holds.                     *)
(***************************************************************************)
EXTENDS Integers

CONSTANTS
  Targets,        \* the targets requested: subset of local, postgres, both
  ToolSets,       \* which of pg_dump, psql, sqlite3 are installed, each a possibility
  AppWrites,      \* whether the application writes while a restore runs
  MaxAttempts,    \* bound: restores requested
  MaxFaults       \* bound: failed operations and crashes

Tools == {"pg_dump", "psql", "sqlite3"}

\* "original": before everything; "newer": with a write of the application on top;
\* "backup": the recovery point; "broken": fails integrity_check; "absent": no file.
Content == {"original", "newer", "backup", "broken", "absent"}

ASSUME RestoreAssumption ==
  /\ Targets \subseteq {"local", "postgres", "both"}
  /\ ToolSets \subseteq SUBSET Tools
  /\ AppWrites \in BOOLEAN
  /\ MaxAttempts \in Nat /\ MaxFaults \in Nat

VARIABLES
  tools,     \* the commands commandExists finds; psql stands for a DSN as well
  image,     \* local.sqlite of the recovery point
  live,      \* the live databases
  pre,       \* the pre-restore directory: the rollback copies
  temp,      \* <SQLitePath>.restore.tmp
  step,      \* where Restore is
  target,    \* opts.Target
  result,    \* what the last Restore returned
  before,    \* history: the live databases when that Restore began
  unseen,    \* history: what went wrong in it that its error does not tell
  attempts,  \* restores begun
  faults     \* faults spent

vars == <<tools, image, live, pre, temp, step, target, result, before, unseen, attempts,
          faults>>

Databases == [pg : Content, sqlite : Content]
None == [pg |-> "absent", sqlite |-> "absent"]

Steps == {"idle", "snapshotSQLite", "snapshotPg", "stage", "restorePg", "activate",
          "integrity", "rollback", "succeed"}

Results == {"none", "error", "crashed", "ok"}

\* "copyBack": the copy back of SQLite failed, and its error was ignored; "commit": psql
\* reported an error for a transaction that PostgreSQL had committed.
Unseen == {"copyBack", "commit"}

RestoreTypeOK ==
  /\ tools \in SUBSET Tools
  /\ image \in {"backup", "broken"}
  /\ live \in Databases /\ pre \in Databases /\ before \in Databases
  /\ temp \in Content
  /\ step \in Steps /\ target \in {"local", "postgres", "both"} /\ result \in Results
  /\ step \in {"activate", "integrity", "rollback"} => target \in {"local", "both"}
  /\ unseen \subseteq Unseen
  /\ attempts \in 0..MaxAttempts /\ faults \in 0..MaxFaults

\* A verified image is not always a sound one: Create skips integrity_check when
\* sqlite3 is not installed.
Init ==
  /\ tools \in ToolSets
  /\ image \in {"backup", "broken"}
  /\ live \in [pg : {"original"}, sqlite : {"original", "absent"}]
  /\ pre = None /\ before = live
  /\ temp = "absent"
  /\ step = "idle" /\ target \in Targets /\ result = "none"
  /\ unseen = {}
  /\ attempts = 0 /\ faults = 0

-----------------------------------------------------------------------------
WithSQLite == target \in {"local", "both"}
WithPg == target \in {"postgres", "both"}

Fault == faults < MaxFaults /\ faults' = faults + 1

Finish(res) == step' = "idle" /\ result' = res

\* psql --single-transaction of the pre-restore dump, which is made without --clean:
\* its first CREATE meets an existing object, which aborts the transaction.
Replay(pg, dump) == IF pg = "absent" THEN dump ELSE pg

\* Restore accepts a confirmed request for a point that passes verifyUnlocked and
\* creates the empty rollback directory.
Begin(tgt) ==
  /\ step = "idle"
  /\ attempts < MaxAttempts
  /\ attempts' = attempts + 1
  /\ target' = tgt /\ before' = live /\ pre' = None /\ unseen' = {}
  /\ step' = "snapshotSQLite" /\ result' = "none"
  /\ UNCHANGED <<tools, image, live, temp, faults>>

\* copyFile reads the live file page by page, without a lock: what it reads while the
\* application writes may be no database at all.
CopiesOfLive ==
  {live.sqlite} \cup (IF AppWrites /\ live.sqlite # "absent" THEN {"broken"} ELSE {})

\* Faulty variant of SnapshotSQLite: only for the local target.
SnapshotSQLiteLocalOnly ==
  /\ step = "snapshotSQLite"
  /\ \E copy \in CopiesOfLive :
       pre' = IF target = "local" THEN [pre EXCEPT !.sqlite = copy] ELSE pre
  /\ step' = "snapshotPg"
  /\ UNCHANGED <<tools, image, live, temp, target, result, before, unseen, attempts, faults>>

\* The rollback copy of the live SQLite file, if there is one.
SnapshotSQLite ==
  /\ step = "snapshotSQLite"
  /\ \E copy \in CopiesOfLive :
       pre' = IF WithSQLite THEN [pre EXCEPT !.sqlite = copy] ELSE pre
  /\ step' = "snapshotPg"
  /\ UNCHANGED <<tools, image, live, temp, target, result, before, unseen, attempts, faults>>

\* The rollback dump of PostgreSQL: only where pg_dump is installed.
SnapshotPg ==
  /\ step = "snapshotPg"
  /\ pre' = IF WithPg /\ "pg_dump" \in tools THEN [pre EXCEPT !.pg = live.pg] ELSE pre
  /\ step' = "stage"
  /\ UNCHANGED <<tools, image, live, temp, target, result, before, unseen, attempts, faults>>

\* Either snapshot fails: the rollback directory is removed, nothing was changed.
SnapshotFail ==
  /\ \/ step = "snapshotSQLite" /\ WithSQLite /\ live.sqlite # "absent"
     \/ step = "snapshotPg" /\ WithPg /\ "pg_dump" \in tools
  /\ Fault
  /\ pre' = None
  /\ Finish("error")
  /\ UNCHANGED <<tools, image, live, temp, target, before, unseen, attempts>>

\* The SQLite image is copied next to the live file; it is not hashed again.
Stage ==
  /\ step = "stage"
  /\ temp' = IF WithSQLite THEN image ELSE temp
  /\ step' = "restorePg"
  /\ UNCHANGED <<tools, image, live, pre, target, result, before, unseen, attempts, faults>>

StageFail ==
  /\ step = "stage" /\ WithSQLite
  /\ Fault
  /\ temp' = "absent"
  /\ Finish("error")
  /\ UNCHANGED <<tools, image, live, pre, target, before, unseen, attempts>>

\* Faulty variant of AfterPg: the target is not looked at.
AfterPgAlways == "activate"

\* Once PostgreSQL is dealt with: the activation, or success for postgres alone.
AfterPg == IF WithSQLite THEN "activate" ELSE "succeed"

\* psql replays the dump of the point, made with --clean --if-exists, so it replaces
\* what is there; without psql or a DSN this is silently skipped.
RestorePg ==
  /\ step = "restorePg"
  /\ live' = IF WithPg /\ "psql" \in tools
               THEN [live EXCEPT !.pg = "backup"] ELSE live
  /\ step' = AfterPg
  /\ UNCHANGED <<tools, image, pre, temp, target, result, before, unseen, attempts, faults>>

\* Faulty variant of RestorePgFail: the failure is logged and the restore goes on.
RestorePgFailIgnored ==
  /\ step = "restorePg" /\ WithPg /\ "psql" \in tools
  /\ Fault
  /\ step' = AfterPg
  /\ UNCHANGED <<tools, image, live, pre, temp, target, result, before, unseen, attempts>>

\* psql exits with an error, and the staged file is removed.  The transaction was rolled
\* back, or its COMMIT took effect and the answer was lost: the caller cannot tell.
RestorePgFail ==
  /\ step = "restorePg" /\ WithPg /\ "psql" \in tools
  /\ Fault
  /\ \/ UNCHANGED <<live, unseen>>
     \/ live' = [live EXCEPT !.pg = "backup"] /\ unseen' = unseen \cup {"commit"}
  /\ temp' = "absent"
  /\ Finish("error")
  /\ UNCHANGED <<tools, image, pre, target, before, attempts>>

\* os.Rename activates the staged SQLite file.
Activate ==
  /\ step = "activate"
  /\ live' = [live EXCEPT !.sqlite = temp]
  /\ temp' = "absent"
  /\ step' = "integrity"
  /\ UNCHANGED <<tools, image, pre, target, result, before, unseen, attempts, faults>>

\* The PostgreSQL half of a rollback, its outcome ignored.
PgRolledBack ==
  IF pre.pg # "absent" /\ "psql" \in tools THEN Replay(live.pg, pre.pg) ELSE live.pg

\* The rename fails: PostgreSQL is to be rolled back.
ActivateFail ==
  /\ step = "activate"
  /\ Fault
  /\ temp' = "absent"
  /\ live' = [live EXCEPT !.pg = PgRolledBack]
  /\ Finish("error")
  /\ UNCHANGED <<tools, image, pre, target, before, unseen, attempts>>

\* Faulty variant of Integrity: the check is only made in Create.
IntegrityUnchecked ==
  /\ step = "integrity"
  /\ step' = "succeed"
  /\ UNCHANGED <<tools, image, live, pre, temp, target, result, before, unseen, attempts, faults>>

\* PRAGMA integrity_check of the activated file, where sqlite3 is installed.
Integrity ==
  /\ step = "integrity"
  /\ step' = IF "sqlite3" \in tools /\ live.sqlite = "broken" THEN "rollback" ELSE "succeed"
  /\ UNCHANGED <<tools, image, live, pre, temp, target, result, before, unseen, attempts, faults>>

\* sqlite3 itself fails, which counts as a failed check.
IntegrityError ==
  /\ step = "integrity" /\ "sqlite3" \in tools
  /\ Fault
  /\ step' = "rollback"
  /\ UNCHANGED <<tools, image, live, pre, temp, target, result, before, unseen, attempts>>

\* Faulty variant of Rollback: the SQLite copy is not put back.
RollbackPgOnly ==
  /\ step = "rollback"
  /\ live' = [live EXCEPT !.pg = PgRolledBack]
  /\ Finish("error")
  /\ UNCHANGED <<tools, image, pre, temp, target, before, unseen, attempts, faults>>

\* Both rollback copies are put back, as far as there are any.
Rollback ==
  /\ step = "rollback"
  /\ live' = [sqlite |-> IF pre.sqlite # "absent" THEN pre.sqlite ELSE live.sqlite,
              pg |-> PgRolledBack]
  /\ Finish("error")
  /\ UNCHANGED <<tools, image, pre, temp, target, before, unseen, attempts, faults>>

\* The copy back fails, before or after it has truncated the live file.  Its error is
\* ignored: the caller gets the same error as after a good rollback.
RollbackFail ==
  /\ step = "rollback" /\ pre.sqlite # "absent"
  /\ Fault
  /\ \E left \in {live.sqlite, "broken"} : live' = [sqlite |-> left, pg |-> PgRolledBack]
  /\ unseen' = unseen \cup {"copyBack"}
  /\ Finish("error")
  /\ UNCHANGED <<tools, image, pre, temp, target, before, attempts>>

\* restore_succeeded is recorded and the result says Verified.
Succeed ==
  /\ step = "succeed"
  /\ Finish("ok")
  /\ UNCHANGED <<tools, image, live, pre, temp, target, before, unseen, attempts, faults>>

\* The process dies.  Nothing resumes the restore; a copy back may be half done.
Crash ==
  /\ step # "idle"
  /\ Fault
  /\ live' \in {live} \cup
       (IF step = "rollback" /\ pre.sqlite # "absent"
          THEN {[live EXCEPT !.sqlite = "broken"]} ELSE {})
  /\ Finish("crashed")
  /\ UNCHANGED <<tools, image, pre, temp, target, before, unseen, attempts>>

\* The application writes to one of the live databases.
AppWrite ==
  /\ AppWrites
  /\ \/ live.sqlite = "original" /\ live' = [live EXCEPT !.sqlite = "newer"]
     \/ live.pg = "original" /\ live' = [live EXCEPT !.pg = "newer"]
  /\ UNCHANGED <<tools, image, pre, temp, step, target, result, before, unseen, attempts, faults>>

Next ==
  \/ \E tgt \in Targets : Begin(tgt)
  \/ SnapshotSQLite \/ SnapshotPg \/ SnapshotFail
  \/ Stage \/ StageFail
  \/ RestorePg \/ RestorePgFail
  \/ Activate \/ ActivateFail
  \/ Integrity \/ IntegrityError \/ Rollback \/ RollbackFail
  \/ Succeed
  \/ Crash \/ AppWrite

Spec == Init /\ [][Next]_vars

-----------------------------------------------------------------------------
\* c has everything that b has.
Holds(c, b) == c = b \/ (b = "original" /\ c = "newer")

\* The rollback copy of SQLite was read while the application wrote: it is no database.
Torn == pre.sqlite = "broken" /\ before.sqlite # "broken"

\* "Create rollback point" (backup_service.go): whatever fails, and wherever the process
\* dies, what a live database held when the restore began is still in that database or
\* in the rollback copy of it, where the code can make a good one: pg_dump is installed,
\* and the copy of SQLite was not torn.
NothingLost ==
  /\ before.sqlite # "absent" /\ ~Torn =>
       Holds(live.sqlite, before.sqlite) \/ Holds(pre.sqlite, before.sqlite)
  /\ "pg_dump" \in tools =>
       Holds(live.pg, before.pg) \/ Holds(pre.pg, before.pg)

\* "Live database must be rolled back to PRE_RESTORE_SAFE_DATA" (offsite_test.go): a
\* restore of one database that reports an error has left both live databases with what
\* they held, whatever tools are missing and at whatever step it fails, with three
\* exceptions that the error does not show.  SQLite may hold something else if its
\* rollback copy was torn, or if the copy back failed, which is ignored; PostgreSQL, if
\* psql reported an error although its COMMIT took effect.  Where it can, NothingLost
\* then vouches for the rollback copy.  Of a restore of both databases the property is
\* false: the dump cannot be replayed.
FailedSingleRestoreKeepsLiveData ==
  result = "error" /\ target # "both" =>
    /\ \/ before.sqlite = "absent" \/ Torn
       \/ "copyBack" \in unseen
       \/ Holds(live.sqlite, before.sqlite)
    /\ "commit" \in unseen \/ Holds(live.pg, before.pg)

\* "Restore transaction and post-restore integrity verified successfully"
\* (backup_service.go): after a successful restore every requested database for which
\* there is a tool is the recovery point, and with sqlite3 no unsound file was let
\* through.
SuccessMeansRestored ==
  result = "ok" =>
    /\ WithPg /\ "psql" \in tools => live.pg = "backup"
    /\ WithSQLite => live.sqlite = IF "sqlite3" \in tools THEN "backup" ELSE image

\* "Activate SQLite only after PostgreSQL succeeds" (backup_service.go): a restore of both
\* never moves SQLite to the recovery point while PostgreSQL, which psql could have
\* restored, is not there.
SQLiteAfterPostgres ==
  [][target = "both" /\ "psql" \in tools /\ step = "activate" /\ live'.sqlite # live.sqlite
       /\ live'.sqlite = image
     => live.pg = "backup"]_vars

=============================================================================
