----------------------------- MODULE RegisterSync -----------------------------
(***************************************************************************)
(* Offline-first registration (web_register_api.go): handleRegister saves  *)
(* a registration in the local SQLite table local_tenants, tries at once   *)
(* to insert it into PostgreSQL, and marks the row synced or pending.  A   *)
(* worker retries the pending rows, oldest first.  Handlers, the worker    *)
(* and other nodes run at the same time; nothing but the two databases     *)
(* orders them.                                                            *)
(*                                                                         *)
(* A registration is its idempotency key.  local_tenants has at most one   *)
(* row for an email (UNIQUE), so a row is named by its email.              *)
(***************************************************************************)
EXTENDS Integers, FiniteSets

CONSTANTS
  Keys,            \* idempotency keys: one for each submission of the form
  Emails,
  EmailOf,         \* the email submitted under each key
  NoKey,           \* no registration
  Foreign,         \* a registration that another node made in PostgreSQL
  ForeignEmails,   \* emails that other nodes may register
  Handlers,        \* requests; each is handled once, several may bring the same key
  Worker,          \* the goroutine of startSQLiteToPostgresSyncWorker
  Limit,           \* rows that one cycle of the worker looks at (25)
  ReaderBlocks,    \* whether an open cursor keeps other connections from committing:
                   \* SQLite's rollback journal, the default, as opposed to WAL
  MaxFaults        \* bound: outages, lost answers, failed updates, crashes

Procs == Handlers \cup {Worker}

ASSUME RegisterAssumption ==
  /\ IsFiniteSet(Emails) /\ EmailOf \in [Keys -> Emails]
  /\ NoKey \notin Keys /\ Foreign \notin Keys /\ NoKey # Foreign
  /\ ForeignEmails \subseteq Emails
  /\ Worker \notin Handlers
  /\ Limit \in Nat \ {0} /\ MaxFaults \in Nat /\ ReaderBlocks \in BOOLEAN

VARIABLES
  local,     \* local_tenants: per email the key it was saved under, is_synced, and
             \* its place in the order of created_at
  cloud,     \* client_business_register: per email the key it was inserted under
  cloudKeys, \* api_idempotency_keys
  cloudUp,   \* whether PostgreSQL can be reached
  proc,      \* what each handler, and the worker, is doing
  queue,     \* rows the open cursor of the worker has yet to return
  answer,    \* what each handler has answered
  faults

vars == <<local, cloud, cloudKeys, cloudUp, proc, queue, answer, faults>>

Row == [key : Keys \cup {NoKey}, synced : BOOLEAN, born : 0..Cardinality(Emails)]
NoRow == [key |-> NoKey, synced |-> FALSE, born |-> 0]

Proc == [step : {"idle", "save", "check", "insert", "mark", "next", "done"},
         key : Keys \cup {NoKey}, ok : BOOLEAN]
IdleProc == [step |-> "idle", key |-> NoKey, ok |-> FALSE]

Answers == {"none", "local_save_failed", "pending", "synced"}

RegisterTypeOK ==
  /\ local \in [Emails -> Row]
  /\ cloud \in [Emails -> Keys \cup {NoKey, Foreign}]
  /\ cloudKeys \in SUBSET Keys
  /\ cloudUp \in BOOLEAN
  /\ proc \in [Procs -> Proc]
  /\ queue \in SUBSET Emails /\ Cardinality(queue) <= Limit
  /\ queue # {} => proc[Worker].step # "idle"
  /\ answer \in [Handlers -> Answers]
  /\ faults \in 0..MaxFaults

Init ==
  /\ local = [e \in Emails |-> NoRow]
  /\ cloud = [e \in Emails |-> NoKey]
  /\ cloudKeys = {}
  /\ cloudUp \in BOOLEAN
  /\ proc = [p \in Procs |-> IdleProc]
  /\ queue = {}
  /\ answer = [h \in Handlers |-> "none"]
  /\ faults = 0

-----------------------------------------------------------------------------
Saved == {e \in Emails : local[e].key # NoKey}
Pending == {e \in Saved : ~local[e].synced}

Fault == faults < MaxFaults /\ faults' = faults + 1

\* The cursor of the worker is open from its query to the return of the cycle.
CursorOpen == proc[Worker].step # "idle"

\* A write of another connection cannot commit; it waits 5 s, then fails.
Locked == ReaderBlocks /\ CursorOpen

At(p, step) == proc[p].step = step
GoTo(p, step) == proc' = [proc EXCEPT ![p].step = step]
EmailAt(p) == EmailOf[proc[p].key]

\* The attempt to reach PostgreSQL is over, well or not.
Outcome(p, ok) == proc' = [proc EXCEPT ![p].step = "mark", ![p].ok = ok]

\* A valid request arrives; a retry brings the key of an earlier one.
Submit(h, k) ==
  /\ At(h, "idle")
  /\ proc' = [proc EXCEPT ![h] = [step |-> "save", key |-> k, ok |-> FALSE]]
  /\ UNCHANGED <<local, cloud, cloudKeys, cloudUp, queue, answer, faults>>

\* Faulty variant of Save: INSERT OR REPLACE.
SaveReplaces(h) ==
  LET e == EmailAt(h) IN
  /\ At(h, "save") /\ ~Locked
  /\ local' = [local EXCEPT ![e] = [key |-> proc[h].key, synced |-> FALSE,
                                    born |-> Cardinality(Saved \cup {e})]]
  /\ GoTo(h, "check")
  /\ UNCHANGED <<cloud, cloudKeys, cloudUp, queue, answer, faults>>

\* saveRegistrationToSQLiteFirst: INSERT OR IGNORE, then the row that is there.
Save(h) ==
  LET e == EmailAt(h) IN
  /\ At(h, "save")
  /\ IF e \in Saved
       THEN UNCHANGED local
       ELSE /\ ~Locked
            /\ local' = [local EXCEPT ![e] = [key |-> proc[h].key, synced |-> FALSE,
                                              born |-> Cardinality(Saved) + 1]]
  /\ GoTo(h, "check")
  /\ UNCHANGED <<cloud, cloudKeys, cloudUp, queue, answer, faults>>

\* Faulty variant of SaveBusy: the error is ignored.
SaveBusyIgnored(h) ==
  /\ At(h, "save")
  /\ EmailAt(h) \notin Saved /\ Locked
  /\ GoTo(h, "check")
  /\ UNCHANGED <<local, cloud, cloudKeys, cloudUp, queue, answer, faults>>

\* The row cannot be written: 500, and the registration is nowhere.
SaveBusy(h) ==
  /\ At(h, "save")
  /\ EmailAt(h) \notin Saved /\ Locked
  /\ GoTo(h, "done")
  /\ answer' = [answer EXCEPT ![h] = "local_save_failed"]
  /\ UNCHANGED <<local, cloud, cloudKeys, cloudUp, queue, faults>>

-----------------------------------------------------------------------------
(* syncRegistrationToPostgres, for a handler or the worker *)

Unreachable(p) ==
  /\ At(p, "check") \/ At(p, "insert")
  /\ ~cloudUp
  /\ Outcome(p, FALSE)
  /\ UNCHANGED <<local, cloud, cloudKeys, cloudUp, queue, answer, faults>>

\* cloudIDForIdempotencyKey: a known key needs no insert.
CheckKey(p) ==
  /\ At(p, "check") /\ cloudUp
  /\ IF proc[p].key \in cloudKeys THEN Outcome(p, TRUE) ELSE GoTo(p, "insert")
  /\ UNCHANGED <<local, cloud, cloudKeys, cloudUp, queue, answer, faults>>

\* Faulty variant of Insert: the key is recorded although the email was taken.
InsertKeyAnyway(p) ==
  LET e == EmailAt(p)
      k == proc[p].key
  IN
  /\ At(p, "insert") /\ cloudUp
  /\ cloudKeys' = cloudKeys \cup {k}
  /\ cloud' = IF cloud[e] = NoKey THEN [cloud EXCEPT ![e] = k] ELSE cloud
  /\ Outcome(p, cloud[e] = NoKey)
  /\ UNCHANGED <<local, cloudUp, queue, answer, faults>>

\* INSERT ... ON CONFLICT (email) DO NOTHING, and the key, in one transaction; a
\* conflict is the error duplicate_email.  The answer to COMMIT may be lost.
Insert(p) ==
  LET e == EmailAt(p)
      k == proc[p].key
  IN
  /\ At(p, "insert") /\ cloudUp
  /\ IF cloud[e] = NoKey
       THEN /\ cloud' = [cloud EXCEPT ![e] = k] /\ cloudKeys' = cloudKeys \cup {k}
            /\ \/ Outcome(p, TRUE) /\ UNCHANGED faults
               \/ Outcome(p, FALSE) /\ Fault
       ELSE Outcome(p, FALSE) /\ UNCHANGED <<cloud, cloudKeys, faults>>
  /\ UNCHANGED <<local, cloudUp, queue, answer>>

-----------------------------------------------------------------------------
(* The mark, for a handler or the worker *)

\* The handler answers; the worker looks at its next row.
Marked(p) ==
  IF p = Worker
    THEN GoTo(p, "next") /\ UNCHANGED answer
    ELSE /\ GoTo(p, "done")
         /\ answer' = [answer EXCEPT ![p] = IF proc[p].ok THEN "synced" ELSE "pending"]

\* Faulty variant of Mark: an attempt that failed counts as made.
MarkAnyOutcome(p) ==
  /\ At(p, "mark") /\ ~Locked
  /\ local' = [local EXCEPT ![EmailAt(p)].synced = TRUE]
  /\ Marked(p)
  /\ UNCHANGED <<cloud, cloudKeys, cloudUp, queue, faults>>

\* markSQLiteRegistrationSynced or ...Pending: an unconditional UPDATE of the row.
Mark(p) ==
  /\ At(p, "mark") /\ ~Locked
  /\ local' = [local EXCEPT ![EmailAt(p)].synced = proc[p].ok]
  /\ Marked(p)
  /\ UNCHANGED <<cloud, cloudKeys, cloudUp, queue, faults>>

\* The UPDATE fails, for the lock or otherwise; its error is discarded.
MarkLost(p) ==
  /\ At(p, "mark")
  /\ IF Locked THEN UNCHANGED faults ELSE Fault
  /\ Marked(p)
  /\ UNCHANGED <<local, cloud, cloudKeys, cloudUp, queue>>

-----------------------------------------------------------------------------
(* syncPendingSQLiteRegistrations *)

\* The query: at most Limit pending rows, the oldest.
WorkerQuery ==
  /\ At(Worker, "idle")
  /\ \E batch \in SUBSET Pending :
       /\ batch # {}
       /\ batch = Pending \/ Cardinality(batch) = Limit
       /\ Cardinality(batch) <= Limit
       /\ \A b \in batch, e \in Pending \ batch : local[b].born < local[e].born
       /\ queue' = batch
  /\ GoTo(Worker, "next")
  /\ UNCHANGED <<local, cloud, cloudKeys, cloudUp, answer, faults>>

\* rows.Next: the row as the query found it.
WorkerNext ==
  /\ At(Worker, "next")
  /\ \E e \in queue :
       /\ \A other \in queue : local[e].born <= local[other].born
       /\ queue' = queue \ {e}
       /\ proc' = [proc EXCEPT ![Worker] = [step |-> "check", key |-> local[e].key, ok |-> FALSE]]
  /\ UNCHANGED <<local, cloud, cloudKeys, cloudUp, answer, faults>>

\* Faulty variant of WorkerClose: the cycle returns after a row that failed.
WorkerCloseEarly ==
  /\ At(Worker, "next") /\ (queue = {} \/ ~cloudUp)
  /\ proc' = [proc EXCEPT ![Worker] = IdleProc]
  /\ UNCHANGED <<local, cloud, cloudKeys, cloudUp, queue, answer, faults>>

\* The cursor is exhausted and closed.
WorkerClose ==
  /\ At(Worker, "next") /\ queue = {}
  /\ proc' = [proc EXCEPT ![Worker] = IdleProc]
  /\ UNCHANGED <<local, cloud, cloudKeys, cloudUp, queue, answer, faults>>

-----------------------------------------------------------------------------
(* The environment *)

CloudDown ==
  /\ cloudUp /\ Fault
  /\ cloudUp' = FALSE
  /\ UNCHANGED <<local, cloud, cloudKeys, proc, queue, answer>>

CloudBack ==
  /\ ~cloudUp
  /\ cloudUp' = TRUE
  /\ UNCHANGED <<local, cloud, cloudKeys, proc, queue, answer, faults>>

\* Another node registers the email, under a key of its own.
ForeignRegister(e) ==
  /\ cloud[e] = NoKey
  /\ cloud' = [cloud EXCEPT ![e] = Foreign]
  /\ UNCHANGED <<local, cloudKeys, cloudUp, proc, queue, answer, faults>>

\* The process dies: its requests go unanswered, the worker starts again.
Crash ==
  /\ \E p \in Procs : proc[p].step \notin {"idle", "done"}
  /\ Fault
  /\ proc' = [p \in Procs |->
                CASE p = Worker -> IdleProc
                  [] p # Worker /\ proc[p].step \in {"idle", "done"} -> proc[p]
                  [] OTHER -> [proc[p] EXCEPT !.step = "done"]]
  /\ queue' = {}
  /\ UNCHANGED <<local, cloud, cloudKeys, cloudUp, answer>>

-----------------------------------------------------------------------------
Request(h) == Save(h) \/ SaveBusy(h)

Sync(p) == Unreachable(p) \/ CheckKey(p) \/ Insert(p) \/ Mark(p) \/ MarkLost(p)

WorkerCycle == WorkerQuery \/ WorkerNext \/ WorkerClose

Next ==
  \/ \E h \in Handlers, k \in Keys : Submit(h, k)
  \/ \E h \in Handlers : Request(h)
  \/ \E p \in Procs : Sync(p)
  \/ WorkerCycle
  \/ CloudDown \/ CloudBack
  \/ \E e \in ForeignEmails : ForeignRegister(e)
  \/ Crash

Spec == Init /\ [][Next]_vars

\* Requests run to their end, the 15 s ticker of the worker goes on, and PostgreSQL
\* comes back.
FairSpec ==
  /\ Spec
  /\ \A h \in Handlers : WF_vars(Request(h))
  /\ \A p \in Procs : WF_vars(Sync(p))
  /\ WF_vars(WorkerCycle)
  /\ WF_vars(CloudBack)

-----------------------------------------------------------------------------
\* A row marked synced is in PostgreSQL, and this node put it there: no order of
\* retries, lost answers and crashes, and no other node's email, hides a registration
\* that never arrived.
SyncedIsInCloud ==
  \A e \in Saved : local[e].synced => cloud[e] \in Keys

\* The idempotency key and the row it answers for stand or fall together.
KeyAnswersForItsRow ==
  \A k \in cloudKeys : cloud[EmailOf[k]] = k

\* A request that was told its registration is saved or synced can rely on it: the row
\* is never lost or replaced, and what was called synced is in PostgreSQL.
AcknowledgedIsKept ==
  \A h \in Handlers :
    LET e == EmailOf[proc[h].key] IN
    /\ answer[h] \in {"pending", "synced"} => e \in Saved
    /\ answer[h] = "synced" => cloud[e] \in Keys

\* Seen from outside, all this is the Registration of an email: a row keeps the form it
\* was acknowledged for, PostgreSQL gets from this node only what is saved here and keeps
\* what it has, and no request is told twice, or what is not true or does not stay so.
Promise == INSTANCE Registration WITH
  Forms <- Keys, Emails <- Emails, EmailOf <- EmailOf, NoForm <- NoKey, Foreign <- Foreign,
  Requests <- Handlers,
  held <- [e \in Emails |-> local[e].key],
  register <- cloud,
  told <- [h \in Handlers |->
             [form |-> IF answer[h] = "none" THEN NoKey ELSE proc[h].key,
              answer |-> answer[h]]]

RegistrationHolds == Promise!Spec

\* "Cloud sync is pending" (web_register_api.go): every registration that is in the
\* local table gets to PostgreSQL in the end, unless another node took its email.
EventuallyInCloud ==
  <>[](\A e \in Saved : cloud[e] # NoKey)

=============================================================================
