---------------------------- MODULE RecoveryChain ----------------------------
(***************************************************************************)
(* The recovery chain of backend/backup: recovery points made of core      *)
(* artefacts (pg_dump + SQLite image), an office mirror built from them,   *)
(* an offsite copy of the mirror, and the manifest.json that records the   *)
(* SHA-256 of each.  Service.Create makes a point; the Guardian's          *)
(* Service.ReconcileLatestRecoveryPoint verifies the newest trusted one    *)
(* and rebuilds what is missing or corrupt.  Both hold Service.mu for      *)
(* their whole run.  The file system around them is hostile: files are     *)
(* altered or deleted, writes fail, the process crashes between any two    *)
(* file operations, and the event store (PostgreSQL) may be unreachable.   *)
(*                                                                         *)
(* A digest names the content of a directory tree.  Every build differs    *)
(* from every earlier one (RECOVERY.md holds its creation time) and so     *)
(* does every alteration: a new content gets a digest that nothing about   *)
(* the same recovery point mentions.                                       *)
(***************************************************************************)
EXTENDS Integers, FiniteSetsExt

CONSTANTS
  MaxId,           \* bound: recovery points created in a behaviour
  SHA,             \* digests of directory trees
  NoSHA,           \* the empty string: no digest, or a tree that is not there
  Guardian,        \* the goroutine of startGuardianMonitor
  Clients,         \* HTTP handlers that call Create
  Nobody,          \* Service.mu is free
  OffsiteMode,     \* which of SCS_OFFSITE_ROOT / SCS_OFFSITE_RCLONE_REMOTE is set
  TamperBusy,      \* whether files of a point change while a job works on it
  EventLoss,       \* whether the event store may fail to record an event
  MaxFaults        \* bound: faults (tampering, failed operations, crashes)

Ids == 1..MaxId
Threads == Clients \cup {Guardian}
SHA0 == SHA \cup {NoSHA}

ASSUME ChainAssumption ==
  /\ MaxId \in Nat /\ MaxFaults \in Nat
  /\ NoSHA \notin SHA
  /\ Guardian \notin Clients
  /\ Nobody \notin Threads
  /\ OffsiteMode \in {"none", "filesystem", "rclone"}
  /\ TamperBusy \in BOOLEAN /\ EventLoss \in BOOLEAN

VARIABLES
  mu,             \* Service.mu: the thread that holds it
  job,            \* what each thread is doing, and the Manifest it has in memory
  nextId,         \* the next timestamp id; later points have larger ids
  core,           \* postgres.sql and local.sqlite of each point
  manifest,       \* manifest.json of each point
  mirror,         \* <office-mirror>/<id>
  offsite,        \* <offsite root>/<id>
  reconEvent,     \* newest reconciliation event of each point in the event store
  guardianEvent,  \* a guardian_health event is in the event store
  faults,         \* faults spent so far
  suspect         \* history: points whose files changed, whose copy retention removed,
                  \* or whose job was cut short, since their last trust gate

disk == <<core, manifest, mirror, offsite>>
events == <<reconEvent, guardianEvent>>
vars == <<mu, job, nextId, disk, events, faults, suspect>>

-----------------------------------------------------------------------------
(* Types *)

Tree == [sha : SHA0, genuine : BOOLEAN]
NoTree == [sha |-> NoSHA, genuine |-> FALSE]

\* retention: the OFFSITE-MANIFEST.json of the copy, "unmarked" when it has none
OffsiteTree == [sha : SHA0, genuine : BOOLEAN,
                retention : {"unmarked", "retained", "expired"}]
NoOffsite == [sha |-> NoSHA, genuine |-> FALSE, retention |-> "unmarked"]

\* "torn": truncated by os.WriteFile and not yet, or never, written again; the
\* other fields then still hold what the file said before
Manifest == [file : {"absent", "torn", "whole"},
             mirrorSHA : SHA0, mirrorVerified : BOOLEAN,
             offsiteSHA : SHA0, offsiteVerified : BOOLEAN]
NoManifest == [file |-> "absent", mirrorSHA |-> NoSHA, mirrorVerified |-> FALSE,
               offsiteSHA |-> NoSHA, offsiteVerified |-> FALSE]

Steps == {"idle", "gate", "mirrorCheck", "mirrorCopy", "mirrorSeal",
          "mirrorRecheck", "offsiteCheck", "offsiteCopy", "offsiteFill",
          "offsiteSeal", "offsiteRecheck", "persist", "write", "finalGate"}

Job == [step : Steps, kind : {"create", "reconcile"}, id : 0..MaxId, m : Manifest]
Idle == [step |-> "idle", kind |-> "reconcile", id |-> 0, m |-> NoManifest]

TypeOK ==
  /\ mu \in Threads \cup {Nobody}
  /\ job \in [Threads -> Job]
  /\ nextId \in 1..(MaxId + 1)
  /\ core \in [Ids -> {"absent", "intact", "damaged"}]
  /\ manifest \in [Ids -> Manifest]
  /\ mirror \in [Ids -> Tree]
  /\ offsite \in [Ids -> OffsiteTree]
  /\ reconEvent \in [Ids -> {"none", "started", "success"}]
  /\ guardianEvent \in BOOLEAN
  /\ faults \in 0..MaxFaults
  /\ suspect \in SUBSET Ids

Init ==
  /\ mu = Nobody
  /\ job = [t \in Threads |-> Idle]
  /\ nextId = 1
  /\ core = [i \in Ids |-> "absent"]
  /\ manifest = [i \in Ids |-> NoManifest]
  /\ mirror = [i \in Ids |-> NoTree]
  /\ offsite = [i \in Ids |-> NoOffsite]
  /\ reconEvent = [i \in Ids |-> "none"]
  /\ guardianEvent = FALSE
  /\ faults = 0
  /\ suspect = {}

-----------------------------------------------------------------------------
(* Helpers *)

Busy(i) == \E t \in Threads : job[t].step # "idle" /\ job[t].id = i

\* verifyUnlocked: the manifest parses and both core artefacts have its digests.
Trusted(i) == manifest[i].file = "whole" /\ core[i] = "intact"

TrustedIds == {i \in Ids : Trusted(i)}

\* The digest comparison of ReconcileRecoveryPoint for the mirror and the copy,
\* of the manifest m read at the gate against the tree on disk now.
MirrorMatches(i, m) ==
  m.mirrorVerified /\ m.mirrorSHA # NoSHA /\ mirror[i].sha = m.mirrorSHA

OffsiteMatches(i, m) ==
  m.offsiteVerified /\ m.offsiteSHA # NoSHA /\ offsite[i].sha = m.offsiteSHA

UsedSHA(i) ==
  {mirror[i].sha, offsite[i].sha, manifest[i].mirrorSHA, manifest[i].offsiteSHA}
    \cup {job[t].m.mirrorSHA : t \in Threads}
    \cup {job[t].m.offsiteSHA : t \in Threads}

\* One digest that nothing about point i mentions.  Digests are interchangeable,
\* so it does not matter which.
FreshSHA(i) ==
  IF SHA \subseteq UsedSHA(i) THEN {} ELSE {CHOOSE d \in SHA : d \notin UsedSHA(i)}

\* One fault of the environment.
Fault == faults < MaxFaults /\ faults' = faults + 1

\* recordRecoveryEvent fails; every caller discards its error.
EventLost == EventLoss /\ Fault

RecordRecon(i, status) ==
  \/ reconEvent' = [reconEvent EXCEPT ![i] = status] /\ UNCHANGED faults
  \/ UNCHANGED reconEvent /\ EventLost

At(t, step) == job[t].step = step

GoTo(t, step) == job' = [job EXCEPT ![t].step = step]

GoToWith(t, step, m) == job' = [job EXCEPT ![t].step = step, ![t].m = m]

\* Return from Create or ReconcileLatestRecoveryPoint: the deferred Unlock.
Return(t) ==
  /\ job' = [job EXCEPT ![t] = Idle]
  /\ mu' = Nobody

\* An error return after the mirror was touched.  Create removes the directory
\* of the new point, and nothing else; reconciliation leaves everything as it is.
\* purged: the points whose offsite copy retention has just removed.
ErrorReturn(t, purged) ==
  LET i == job[t].id IN
  /\ Return(t)
  /\ IF job[t].kind = "create"
       THEN /\ core' = [core EXCEPT ![i] = "absent"]
            /\ manifest' = [manifest EXCEPT ![i] = NoManifest]
       ELSE UNCHANGED <<core, manifest>>
  /\ suspect' = suspect \cup {i} \cup purged
  /\ UNCHANGED <<nextId, events>>

-----------------------------------------------------------------------------
(* Taking the mutex *)

\* A tree whose writing has begun: it exists, and is no copy of anything yet.
PartialTree(d) == [sha |-> d, genuine |-> FALSE]

\* What Create does once it has the mutex; without the mutex, a faulty variant of it.
CreateBeginUnlocked(t) ==
  /\ At(t, "idle")
  /\ nextId <= MaxId
  /\ nextId' = nextId + 1
  /\ core' = [core EXCEPT ![nextId] = "intact"]
  /\ \E d \in FreshSHA(nextId) : mirror' = [mirror EXCEPT ![nextId] = PartialTree(d)]
  /\ job' = [job EXCEPT ![t] =
               [step |-> "mirrorCopy", kind |-> "create", id |-> nextId, m |-> NoManifest]]
  /\ mu' = t
  /\ UNCHANGED <<manifest, offsite, events, faults, suspect>>

\* Faulty variant of CreateBegin: the point is entered under a second timestamp.
CreateBeginTwoClocks(t) ==
  /\ mu = Nobody
  /\ At(t, "idle") /\ nextId <= MaxId
  /\ nextId' = nextId + 1
  /\ core' = [core EXCEPT ![nextId] = "intact"]
  /\ job' = [job EXCEPT ![t] =
               [step |-> "mirrorCopy", kind |-> "create", id |-> nextId + 1, m |-> NoManifest]]
  /\ mu' = t
  /\ UNCHANGED <<manifest, mirror, offsite, events, faults, suspect>>

\* Create: Lock, dump PostgreSQL, copy SQLite, hash both, and begin the office
\* mirror.  (A failure before the mirror removes the new directory again and
\* leaves no trace: it is a stuttering step.)
CreateBegin(t) ==
  /\ mu = Nobody
  /\ CreateBeginUnlocked(t)

\* Faulty variant of ReconcileBegin: the start is not recorded.
ReconcileBeginSilent(t) ==
  /\ At(t, "idle")
  /\ mu = Nobody
  /\ \E i \in TrustedIds :
       /\ \A j \in TrustedIds : j <= i
       /\ job' = [job EXCEPT ![t] =
                    [step |-> "gate", kind |-> "reconcile", id |-> i, m |-> NoManifest]]
  /\ mu' = t
  /\ UNCHANGED <<nextId, disk, events, faults, suspect>>

\* ReconcileLatestRecoveryPoint: Lock, and take the newest point that passes
\* verifyUnlocked; reconciliation_started is recorded before anything is checked.
ReconcileBegin(t) ==
  /\ At(t, "idle")
  /\ mu = Nobody
  /\ \E i \in TrustedIds :
       /\ \A j \in TrustedIds : j <= i
       /\ job' = [job EXCEPT ![t] =
                    [step |-> "gate", kind |-> "reconcile", id |-> i, m |-> NoManifest]]
       /\ RecordRecon(i, "started")
  /\ mu' = t
  /\ UNCHANGED <<nextId, disk, guardianEvent, suspect>>

\* The core trust gate: verifyUnlocked again, and the manifest it read.
ReconcileGate(t) ==
  LET i == job[t].id IN
  /\ At(t, "gate")
  /\ IF Trusted(i)
       THEN /\ GoToWith(t, "mirrorCheck", manifest[i])
            /\ suspect' = suspect \ {i}
            /\ UNCHANGED mu
       ELSE Return(t) /\ UNCHANGED suspect
  /\ UNCHANGED <<nextId, disk, events, faults>>

-----------------------------------------------------------------------------
(* The office mirror *)

\* Faulty variant of MirrorCheck: a mirror that fails the comparison but exists is
\* hashed again instead of rebuilt.
MirrorCheckRehash(t) ==
  LET i == job[t].id IN
  /\ At(t, "mirrorCheck")
  /\ CASE MirrorMatches(i, job[t].m) -> GoTo(t, "offsiteCheck") /\ UNCHANGED mirror
       [] ~MirrorMatches(i, job[t].m) /\ mirror[i].sha # NoSHA ->
            GoTo(t, "mirrorSeal") /\ UNCHANGED mirror
       [] OTHER ->
            /\ GoTo(t, "mirrorCopy")
            /\ \E d \in FreshSHA(i) : mirror' = [mirror EXCEPT ![i] = PartialTree(d)]
  /\ UNCHANGED <<mu, nextId, core, manifest, offsite, events, faults, suspect>>

\* Faulty variant of MirrorCheck: trusts the manifest's flag, without the digest.
MirrorCheckFlagOnly(t) ==
  /\ At(t, "mirrorCheck")
  /\ job[t].m.mirrorVerified
  /\ GoTo(t, "offsiteCheck")
  /\ UNCHANGED <<mu, nextId, disk, events, faults, suspect>>

\* Reconciliation verifies the mirror; a missing or corrupt one is removed and
\* its rebuild begins.
MirrorCheck(t) ==
  LET i == job[t].id IN
  /\ At(t, "mirrorCheck")
  /\ IF MirrorMatches(i, job[t].m)
       THEN GoTo(t, "offsiteCheck") /\ UNCHANGED mirror
       ELSE /\ GoTo(t, "mirrorCopy")
            /\ \E d \in FreshSHA(i) : mirror' = [mirror EXCEPT ![i] = PartialTree(d)]
  /\ UNCHANGED <<mu, nextId, core, manifest, offsite, events, faults, suspect>>

\* createOfficeMirror copies the core artefacts as they are now.
MirrorCopy(t) ==
  LET i == job[t].id IN
  /\ At(t, "mirrorCopy")
  /\ \E d \in FreshSHA(i) :
       mirror' = [mirror EXCEPT ![i] = [sha |-> d, genuine |-> core[i] = "intact"]]
  /\ GoTo(t, "mirrorSeal")
  /\ UNCHANGED <<mu, nextId, core, manifest, offsite, events, faults, suspect>>

\* createOfficeMirror fails (git, copy, write): it removes the mirror directory.
MirrorFail(t) ==
  LET i == job[t].id IN
  /\ At(t, "mirrorCopy")
  /\ Fault
  /\ mirror' = [mirror EXCEPT ![i] = NoTree]
  /\ ErrorReturn(t, {})
  /\ UNCHANGED offsite

\* directorySHA256 of the finished mirror; it is "verified" by being computed.
MirrorSeal(t) ==
  LET i == job[t].id
      m == [job[t].m EXCEPT !.mirrorSHA = mirror[i].sha, !.mirrorVerified = TRUE]
  IN
  /\ At(t, "mirrorSeal")
  /\ mirror[i].sha # NoSHA
  /\ GoToWith(t, IF job[t].kind = "create" THEN "offsiteCopy" ELSE "mirrorRecheck", m)
  /\ UNCHANGED <<mu, nextId, disk, events, faults, suspect>>

\* Faulty variant of MirrorRecheck: the new digest does not reach the manifest.
MirrorRecheckForgets(t) ==
  LET i == job[t].id IN
  /\ At(t, "mirrorRecheck")
  /\ mirror[i].sha = job[t].m.mirrorSHA
  /\ GoToWith(t, "offsiteCheck", [job[t].m EXCEPT !.mirrorSHA = manifest[i].mirrorSHA])
  /\ UNCHANGED <<mu, nextId, disk, events, faults, suspect>>

\* Reconciliation computes the digest of the rebuilt mirror once more.
MirrorRecheck(t) ==
  LET i == job[t].id IN
  /\ At(t, "mirrorRecheck")
  /\ mirror[i].sha = job[t].m.mirrorSHA
  /\ GoTo(t, "offsiteCheck")
  /\ UNCHANGED <<mu, nextId, disk, events, faults, suspect>>

\* The mirror went away before it was sealed, or changed before the recheck.
MirrorLost(t) ==
  LET i == job[t].id IN
  /\ \/ At(t, "mirrorSeal") /\ mirror[i].sha = NoSHA
     \/ At(t, "mirrorRecheck") /\ mirror[i].sha # job[t].m.mirrorSHA
  /\ ErrorReturn(t, {})
  /\ UNCHANGED <<mirror, offsite, faults>>

-----------------------------------------------------------------------------
(* The offsite copy *)

WithOffsite(m, d, verified) == [m EXCEPT !.offsiteSHA = d, !.offsiteVerified = verified]

\* Faulty variant of OffsiteCheck: decides by the rclone remote, not by the root.
OffsiteCheckByRemote(t) ==
  /\ At(t, "offsiteCheck")
  /\ OffsiteMode # "rclone"
  /\ GoToWith(t, "persist", WithOffsite(job[t].m, NoSHA, FALSE))
  /\ UNCHANGED <<mu, nextId, disk, events, faults, suspect>>

\* Faulty variant of OffsiteCheck: the stale copy is not removed before the rebuild.
OffsiteCheckNoCleanup(t) ==
  LET i == job[t].id IN
  /\ At(t, "offsiteCheck")
  /\ GoTo(t, IF OffsiteMatches(i, job[t].m) THEN "persist" ELSE "offsiteCopy")
  /\ UNCHANGED <<mu, nextId, disk, events, faults, suspect>>

\* Reconciliation verifies the offsite copy.  It looks at SCS_OFFSITE_ROOT only:
\* without one the copy is recorded as not configured.  A missing or corrupt copy
\* is removed first, since createOffsiteCopy never overwrites one.
OffsiteCheck(t) ==
  LET i == job[t].id
      m == job[t].m
  IN
  /\ At(t, "offsiteCheck")
  /\ \/ /\ OffsiteMode # "filesystem"
        /\ GoToWith(t, "persist", WithOffsite(m, NoSHA, FALSE))
        /\ UNCHANGED offsite
     \/ /\ OffsiteMode = "filesystem" /\ OffsiteMatches(i, m)
        /\ GoTo(t, "persist")
        /\ UNCHANGED offsite
     \/ /\ OffsiteMode = "filesystem" /\ ~OffsiteMatches(i, m)
        /\ GoTo(t, "offsiteCopy")
        /\ offsite' = [offsite EXCEPT ![i] = NoOffsite]
  /\ UNCHANGED <<mu, nextId, core, manifest, mirror, events, faults, suspect>>

\* removeRecoveryTree of the stale copy fails: reconciliation gives up.
OffsiteCleanupFail(t) ==
  /\ At(t, "offsiteCheck")
  /\ OffsiteMode = "filesystem" /\ ~OffsiteMatches(job[t].id, job[t].m)
  /\ Fault
  /\ ErrorReturn(t, {})
  /\ UNCHANGED <<mirror, offsite>>

OffsiteDirs == {j \in Ids : offsite[j].sha # NoSHA}

\* Faulty variant of Purged: the newest directory is not spared.
PurgedAlsoNewest == {j \in OffsiteDirs : offsite[j].retention = "expired"}

\* enforceFilesystemRetention: of the directories under the root, all whose
\* OFFSITE-MANIFEST.json says the retention is over, except the lexically last.
Purged ==
  {j \in OffsiteDirs : offsite[j].retention = "expired" /\ \E k \in OffsiteDirs : k > j}

\* Faulty variant of OffsiteUnverified: Create records the copy without looking at
\* whether it was verified.
OffsiteUnverifiedRecorded(t, purged) ==
  LET m == job[t].m IN
  IF job[t].kind = "create"
    THEN /\ GoToWith(t, "persist", WithOffsite(m, m.mirrorSHA, TRUE))
         /\ suspect' = suspect \cup purged
         /\ UNCHANGED <<mu, nextId, core, manifest, events>>
    ELSE ErrorReturn(t, purged)

\* createOffsiteCopy did not produce a verified copy.  Create records that and goes
\* on; reconciliation returns an error.
OffsiteUnverified(t, purged) ==
  IF job[t].kind = "create"
    THEN /\ GoToWith(t, "persist", WithOffsite(job[t].m, NoSHA, FALSE))
         /\ suspect' = suspect \cup purged
         /\ UNCHANGED <<mu, nextId, core, manifest, events>>
    ELSE ErrorReturn(t, purged)

\* createOffsiteCopy with no destination configured, or no mirror to copy.
OffsiteSkip(t) ==
  /\ At(t, "offsiteCopy")
  /\ OffsiteMode = "none" \/ mirror[job[t].id].sha = NoSHA
  /\ OffsiteUnverified(t, {})
  /\ UNCHANGED <<mirror, offsite, faults>>

\* createOffsiteCopy through rclone: copy, then rclone check --one-way.
RcloneCopy(t) ==
  LET i == job[t].id
      src == mirror[i]
      copied == [sha |-> src.sha, genuine |-> src.genuine, retention |-> "unmarked"]
  IN
  /\ At(t, "offsiteCopy")
  /\ OffsiteMode = "rclone" /\ src.sha # NoSHA
  /\ offsite' = [offsite EXCEPT ![i] = copied]
  /\ GoToWith(t, "persist", WithOffsite(job[t].m, src.sha, TRUE))
  /\ UNCHANGED <<mu, nextId, core, manifest, mirror, events, faults, suspect>>

\* rclone is missing, the copy fails half way, or the check does.
RcloneFail(t) ==
  LET i == job[t].id IN
  /\ At(t, "offsiteCopy")
  /\ OffsiteMode = "rclone" /\ mirror[i].sha # NoSHA
  /\ Fault
  /\ \/ UNCHANGED offsite
     \/ \E d \in FreshSHA(i) :
          offsite' = [offsite EXCEPT ![i].sha = d, ![i].genuine = FALSE]
  /\ OffsiteUnverified(t, {})
  /\ UNCHANGED mirror

\* createOffsiteCopy below SCS_OFFSITE_ROOT: retention runs, an existing copy is
\* never overwritten, and otherwise the copy begins.
OffsiteCopy(t) ==
  LET i == job[t].id
      kept == [j \in Ids |-> IF j \in Purged THEN NoOffsite ELSE offsite[j]]
  IN
  /\ At(t, "offsiteCopy")
  /\ OffsiteMode = "filesystem" /\ mirror[i].sha # NoSHA
  /\ IF i \in OffsiteDirs \ Purged
       THEN offsite' = kept /\ OffsiteUnverified(t, Purged)
       ELSE /\ \E d \in FreshSHA(i) : offsite' = [kept EXCEPT ![i] = [NoOffsite EXCEPT !.sha = d]]
            /\ GoTo(t, "offsiteFill")
            /\ suspect' = suspect \cup Purged
            /\ UNCHANGED <<mu, nextId, core, manifest, events>>
  /\ UNCHANGED <<mirror, faults>>

\* copyDirectory of the mirror as it is now, its digest, OFFSITE-MANIFEST.json with
\* the retention date, and the tree made read-only.
OffsiteFill(t) ==
  LET i == job[t].id
      src == mirror[i]
      copied == [sha |-> src.sha, genuine |-> src.genuine, retention |-> "retained"]
  IN
  /\ At(t, "offsiteFill")
  /\ src.sha # NoSHA
  /\ offsite' = [offsite EXCEPT ![i] = copied]
  /\ GoToWith(t, "offsiteSeal", WithOffsite(job[t].m, src.sha, FALSE))
  /\ UNCHANGED <<mu, nextId, core, manifest, mirror, events, faults, suspect>>

\* The copy fails: RemoveAll of the destination, which does not remove a tree that
\* is read-only already.
OffsiteFillFail(t) ==
  /\ At(t, "offsiteFill")
  /\ IF mirror[job[t].id].sha = NoSHA THEN UNCHANGED faults ELSE Fault
  /\ offsite' \in {offsite, [offsite EXCEPT ![job[t].id] = NoOffsite]}
  /\ OffsiteUnverified(t, {})
  /\ UNCHANGED mirror

\* createOffsiteCopy reads the finished copy back and compares the digest.
OffsiteSeal(t) ==
  LET i == job[t].id
      m == job[t].m
  IN
  /\ At(t, "offsiteSeal")
  /\ IF offsite[i].sha = m.offsiteSHA
       THEN /\ GoToWith(t, IF job[t].kind = "create" THEN "persist" ELSE "offsiteRecheck",
                           WithOffsite(m, m.offsiteSHA, TRUE))
            /\ UNCHANGED <<mu, nextId, core, manifest, offsite, events, suspect>>
       ELSE /\ offsite' = [offsite EXCEPT ![i] = NoOffsite]
            /\ OffsiteUnverified(t, {})
  /\ UNCHANGED <<mirror, faults>>

\* Reconciliation computes the digest of the rebuilt copy once more.
OffsiteRecheck(t) ==
  LET i == job[t].id IN
  /\ At(t, "offsiteRecheck")
  /\ IF offsite[i].sha = job[t].m.offsiteSHA
       THEN GoTo(t, "persist") /\ UNCHANGED <<mu, nextId, core, manifest, events, suspect>>
       ELSE ErrorReturn(t, {})
  /\ UNCHANGED <<mirror, offsite, faults>>

-----------------------------------------------------------------------------
(* The manifest *)

\* os.WriteFile opens manifest.json with O_TRUNC: what it said is gone.
Persist(t) ==
  LET i == job[t].id IN
  /\ At(t, "persist")
  /\ manifest' = [manifest EXCEPT ![i].file = "torn"]
  /\ GoTo(t, "write")
  /\ UNCHANGED <<mu, nextId, core, mirror, offsite, events, faults, suspect>>

\* The new content is on disk.  Create is done; reconciliation records
\* manifest_persisted and goes on to its final gate.
Write(t) ==
  LET i == job[t].id IN
  /\ At(t, "write")
  /\ manifest' = [manifest EXCEPT ![i] = [job[t].m EXCEPT !.file = "whole"]]
  /\ IF job[t].kind = "create"
       THEN Return(t) /\ UNCHANGED <<reconEvent, faults>>
       ELSE GoTo(t, "finalGate") /\ UNCHANGED mu /\ RecordRecon(i, "success")
  /\ UNCHANGED <<nextId, core, mirror, offsite, guardianEvent, suspect>>

\* The write fails after the truncation (a full disk).  Create removes the point's
\* directory, but not its mirror and its offsite copy.
WriteFail(t) ==
  /\ At(t, "write")
  /\ Fault
  /\ ErrorReturn(t, {})
  /\ UNCHANGED <<mirror, offsite>>

\* The final trust gate reads the point back; then reconciliation_completed and
\* guardian_health are recorded, each of which may be lost.
FinalGate(t) ==
  LET i == job[t].id IN
  /\ At(t, "finalGate")
  /\ Trusted(i)
  /\ \/ reconEvent' = [reconEvent EXCEPT ![i] = "success"] /\ guardianEvent' = TRUE
        /\ UNCHANGED faults
     \/ reconEvent' = [reconEvent EXCEPT ![i] = "success"] /\ UNCHANGED guardianEvent /\ EventLost
     \/ UNCHANGED reconEvent /\ guardianEvent' = TRUE /\ EventLost
     \/ UNCHANGED events /\ EventLost
  /\ Return(t)
  /\ UNCHANGED <<nextId, disk, suspect>>

\* The core artefacts were damaged meanwhile: an error, although the manifest is
\* written and manifest_persisted stands.
FinalGateFail(t) ==
  /\ At(t, "finalGate")
  /\ ~Trusted(job[t].id)
  /\ ErrorReturn(t, {})
  /\ UNCHANGED <<mirror, offsite, faults>>

-----------------------------------------------------------------------------
(* The environment *)

MayTamper(i) == TamperBusy \/ ~Busy(i)

\* A core artefact is altered or deleted: its digest no longer matches.
DamageCore(i) ==
  /\ core[i] = "intact" /\ MayTamper(i)
  /\ Fault
  /\ core' = [core EXCEPT ![i] = "damaged"]
  /\ suspect' = suspect \cup {i}
  /\ UNCHANGED <<mu, job, nextId, manifest, mirror, offsite, events>>

\* The mirror is altered, or deleted.
DamageMirror(i) ==
  /\ mirror[i].sha # NoSHA /\ MayTamper(i)
  /\ Fault
  /\ \E d \in FreshSHA(i) \cup {NoSHA} :
       mirror' = [mirror EXCEPT ![i] = [sha |-> d, genuine |-> FALSE]]
  /\ suspect' = suspect \cup {i}
  /\ UNCHANGED <<mu, job, nextId, core, manifest, offsite, events>>

\* The offsite copy is altered, or deleted.
DamageOffsite(i) ==
  /\ offsite[i].sha # NoSHA /\ MayTamper(i)
  /\ Fault
  /\ \/ offsite' = [offsite EXCEPT ![i] = NoOffsite]
     \/ \E d \in FreshSHA(i) :
          offsite' = [offsite EXCEPT ![i].sha = d, ![i].genuine = FALSE]
  /\ suspect' = suspect \cup {i}
  /\ UNCHANGED <<mu, job, nextId, core, manifest, mirror, events>>

\* The retention period of an offsite copy runs out.
Expire(i) ==
  /\ offsite[i].retention = "retained"
  /\ offsite' = [offsite EXCEPT ![i].retention = "expired"]
  /\ UNCHANGED <<mu, job, nextId, core, manifest, mirror, events, faults, suspect>>

\* The process dies and is started again: disk and event store stay as they are.
Crash ==
  /\ mu # Nobody
  /\ Fault
  /\ mu' = Nobody
  /\ job' = [t \in Threads |-> Idle]
  /\ suspect' = suspect \cup {i \in Ids : Busy(i)}
  /\ UNCHANGED <<nextId, disk, events>>

-----------------------------------------------------------------------------
\* What a thread does once it has the mutex.
JobStep(t) ==
  \/ ReconcileGate(t)
  \/ MirrorCheck(t) \/ MirrorCopy(t) \/ MirrorFail(t) \/ MirrorSeal(t)
  \/ MirrorRecheck(t) \/ MirrorLost(t)
  \/ OffsiteCheck(t) \/ OffsiteCleanupFail(t) \/ OffsiteSkip(t)
  \/ RcloneCopy(t) \/ RcloneFail(t)
  \/ OffsiteCopy(t) \/ OffsiteFill(t) \/ OffsiteFillFail(t)
  \/ OffsiteSeal(t) \/ OffsiteRecheck(t)
  \/ Persist(t) \/ Write(t) \/ WriteFail(t)
  \/ FinalGate(t) \/ FinalGateFail(t)

Environment ==
  \/ \E i \in Ids : DamageCore(i) \/ DamageMirror(i) \/ DamageOffsite(i) \/ Expire(i)
  \/ Crash

Next ==
  \/ \E t \in Clients : CreateBegin(t)
  \/ ReconcileBegin(Guardian)
  \/ \E t \in Threads : JobStep(t)
  \/ Environment

Spec == Init /\ [][Next]_vars

\* A goroutine that holds the mutex is scheduled, and so is the Guardian's 10 s
\* ticker.  Nobody has to ask for a backup.
FairSpec ==
  /\ Spec
  /\ WF_vars(ReconcileBegin(Guardian))
  /\ \A t \in Threads : WF_vars(JobStep(t))

-----------------------------------------------------------------------------
(* What the chain promises *)

\* Service.mu: a thread is in Create or ReconcileLatestRecoveryPoint exactly while
\* it holds the mutex, so no two jobs ever run at once ("two Guardian cycles can
\* never rebuild the same recovery point concurrently").
MutualExclusion == \A t \in Threads : job[t].step # "idle" <=> mu = t

\* Every manifest that nobody is rewriting says the truth about the mirror beside
\* it, unless something outside the service changed the point's files, or a repair
\* of it was cut short, since its last reconciliation began.
MirrorRecordTrue ==
  \A i \in Ids :
    manifest[i].file = "whole" /\ ~Busy(i) /\ i \notin suspect
      => MirrorMatches(i, manifest[i])

\* The same of the offsite copy: a copy recorded as verified is there, with the
\* recorded digest, through failed copies, copies of other points and the expiry of
\* its own retention; only a copy that retention removed stays recorded.
OffsiteRecordTrue ==
  \A i \in Ids :
    (/\ manifest[i].file = "whole" /\ manifest[i].offsiteVerified
     /\ ~Busy(i) /\ i \notin suspect)
      => OffsiteMatches(i, manifest[i])

\* A mirror or offsite copy that passes the digest comparison really is a copy of
\* the verified core artefacts: no crash, failure or repair in any order makes a
\* half-written or altered tree pass.  (For tampering between jobs: a mirror that is
\* altered after its check and before its offsite copy is copied as it is.)
VerifiedIsGenuine ==
  \A i \in Ids :
    manifest[i].file = "whole" =>
      /\ MirrorMatches(i, manifest[i]) => mirror[i].genuine
      /\ OffsiteMatches(i, manifest[i]) => offsite[i].genuine

\* createOffsiteCopy's retention, run on behalf of one point, removes the copy of
\* another only when its period is over and a newer directory stays behind.
RetentionSparesNewest ==
  [][\A i \in Ids :
       job' # job /\ ~Busy(i) /\ i \in OffsiteDirs /\ i \notin OffsiteDirs'
         => /\ offsite[i].retention = "expired"
            /\ \E j \in OffsiteDirs \cap OffsiteDirs' : j > i]_vars

\* Reconciliation never takes the protection of an intact offsite copy away: as long
\* as the copy has the recorded digest, the next manifest records it as verified too.
VerifiedOffsiteKept ==
  [][\A i \in Ids :
       OffsiteMatches(i, manifest[i]) /\ core[i] = "intact"
         => manifest'[i].offsiteVerified]_vars

\* The mirror matches, the offsite copy matches where one can be configured, and the
\* event store says so: what the five layers of the recovery status ask for.
Healed(i) ==
  /\ MirrorMatches(i, manifest[i])
  /\ OffsiteMode = "filesystem" => OffsiteMatches(i, manifest[i])
  /\ reconEvent[i] = "success" /\ guardianEvent

\* Automatic healing: once faults stop, the Guardian brings the newest trusted point
\* to full protection, and keeps it there.
EventuallyHealed ==
  <>[](mu = Nobody /\ TrustedIds # {} => Healed(Max(TrustedIds)))

=============================================================================
