------------------------- MODULE RecoveryChainProofs -------------------------
(***************************************************************************)
(* Proofs about RecoveryChain and the status request beside it, for every  *)
(* number of points, digests, clients and faults.  The inductive invariant *)
(* IInv adds to the promises of the chain what the job that holds the      *)
(* mutex knows about the trees of its point, step by step.  On top of it   *)
(* stand, each for the properties it is named after, what makes a tree     *)
(* genuine (GenuineInv), what keeps a copy recorded (KeptInv), and what    *)
(* the events say of a reconciliation (ReconInv, BrokenInv).               *)
(***************************************************************************)
EXTENDS RecoveryStatus, WellFoundedInduction, FiniteSetTheorems, TLAPS

-----------------------------------------------------------------------------
(* The inductive invariant *)

\* The types of everything but the mutex and the jobs.
WorldOK ==
  /\ nextId \in 1..(MaxId + 1)
  /\ core \in [Ids -> {"absent", "intact", "damaged"}]
  /\ manifest \in [Ids -> Manifest]
  /\ mirror \in [Ids -> Tree]
  /\ offsite \in [Ids -> OffsiteTree]
  /\ reconEvent \in [Ids -> {"none", "started", "success"}]
  /\ guardianEvent \in BOOLEAN
  /\ faults \in 0..MaxFaults
  /\ suspect \in SUBSET Ids

\* A job works on a point that exists.
JobHasPoint == \A t \in Threads : job[t].step # "idle" => job[t].id \in Ids

\* The steps at which the manifest on disk is not being replaced: before the gate has
\* read it, and after it was written.
RestSteps == {"idle", "gate", "finalGate"}

AtRest(i) == \A t \in Threads : job[t].id = i => job[t].step \in RestSteps

\* The manifest of i is true of the trees beside it, unless i is suspect.
RecordTrue(i) ==
  manifest[i].file = "whole" /\ i \notin suspect =>
    /\ MirrorMatches(i, manifest[i])
    /\ manifest[i].offsiteVerified => OffsiteMatches(i, manifest[i])

RecordsTrue == \A i \in Ids : AtRest(i) => RecordTrue(i)

\* The steps after the mirror was compared, or sealed, and those after the copy was.
AfterMirror == {"offsiteCheck", "offsiteCopy", "offsiteFill", "offsiteSeal",
                "offsiteRecheck", "persist", "write", "finalGate"}
AfterOffsite == {"persist", "write", "finalGate"}

\* What a job at this step knows of the mirror of i: the manifest m it has in memory
\* records it, once the digest was compared or computed.
MirrorKnown(step, i, m) ==
  /\ step = "mirrorRecheck" => m.mirrorVerified /\ m.mirrorSHA # NoSHA
  /\ step \in AfterMirror /\ i \notin suspect => MirrorMatches(i, m)

\* The same of an offsite copy that m records as verified.
OffsiteKnown(step, i, m) ==
  /\ step = "offsiteSeal" => m.offsiteSHA # NoSHA
  /\ step = "offsiteRecheck" => m.offsiteVerified /\ m.offsiteSHA # NoSHA
  /\ step \in AfterOffsite /\ m.offsiteVerified /\ i \notin suspect => OffsiteMatches(i, m)

Known(step, i, m) == MirrorKnown(step, i, m) /\ OffsiteKnown(step, i, m)

JobsKnow == \A t \in Threads : Known(job[t].step, job[t].id, job[t].m)

IInv == TypeOK /\ JobHasPoint /\ MutualExclusion /\ RecordsTrue /\ JobsKnow

-----------------------------------------------------------------------------
(* Digests and jobs *)

\* A fresh digest is a digest.
LEMMA FreshIsSHA == \A i : FreshSHA(i) \subseteq SHA
  BY DEF FreshSHA

\* The types are those of the world, the mutex and the jobs.
LEMMA TypeSplit ==
  TypeOK <=> mu \in Threads \cup {Nobody} /\ job \in [Threads -> Job] /\ WorldOK
  BY DEF TypeOK, WorldOK

\* Nothing about a point other than i changes, except that the copies of the purged
\* points go, which makes them suspect.
OthersKept(i, purged) ==
  /\ purged \subseteq suspect'
  /\ \A j \in Ids \ {i} :
       /\ manifest'[j] = manifest[j] /\ mirror'[j] = mirror[j]
       /\ j \notin purged => offsite'[j] = offsite[j]
       /\ j \in suspect => j \in suspect'

\* Moving on is moving on with the manifest unchanged.
LEMMA GoToIsGoToWith ==
  ASSUME job \in [Threads -> Job], NEW t \in Threads, NEW step, GoTo(t, step)
  PROVE  GoToWith(t, step, job[t].m)
  BY DEF GoTo, GoToWith, Job

\* Another point is at rest whenever a job works on i.
LEMMA OtherAtRest ==
  ASSUME IInv, NEW t \in Threads, job[t].step # "idle", NEW j \in Ids, j # job[t].id
  PROVE  AtRest(j)
  BY DEF IInv, MutualExclusion, AtRest, RestSteps

\* A job that moves on has to know what its next step requires of its own point, and
\* leaves the others as they are; that is all the invariant asks of it.
LEMMA AdvanceKeepsIInv ==
  ASSUME IInv, NEW t \in Threads, NEW i \in Ids, job[t].id = i, job[t].step # "idle",
         NEW step \in Steps \ {"idle"}, NEW m \in Manifest, NEW purged,
         WorldOK', mu' = mu, GoToWith(t, step, m),
         OthersKept(i, purged),
         step \in RestSteps => RecordTrue(i)',
         Known(step, i, m)'
  PROVE  IInv'
<1>0. job \in [Threads -> Job] /\ mu \in Threads \cup {Nobody}
  BY DEF IInv, TypeOK
<1>1. job' \in [Threads -> Job]
  BY <1>0 DEF GoToWith, Job
<1>2. /\ job'[t].step = step /\ job'[t].id = i /\ job'[t].m = m
      /\ \A u \in Threads \ {t} : job'[u] = job[u]
  BY <1>0 DEF GoToWith, Job
<1>3. \A u \in Threads \ {t} : job[u].step = "idle"
  BY DEF IInv, MutualExclusion
<1>4. TypeOK'
  BY <1>0, <1>1 DEF TypeOK, WorldOK
<1>5. JobHasPoint'
  BY <1>2, <1>3 DEF JobHasPoint
<1>6. MutualExclusion'
  BY <1>2, <1>3 DEF IInv, MutualExclusion
<1>7. RecordsTrue'
  <2> SUFFICES ASSUME NEW j \in Ids, AtRest(j)' PROVE RecordTrue(j)'
    BY DEF RecordsTrue
  <2>1. CASE j = i
    BY <2>1, <1>2 DEF AtRest
  <2>2. CASE j # i
    <3>1. RecordTrue(j)
      BY <2>2, OtherAtRest DEF IInv, RecordsTrue
    <3>2. QED
      BY <2>2, <3>1 DEF RecordTrue, OthersKept, MirrorMatches, OffsiteMatches
  <2>3. QED
    BY <2>1, <2>2
<1>8. JobsKnow'
  <2> SUFFICES ASSUME NEW u \in Threads
               PROVE  Known(job[u].step, job[u].id, job[u].m)'
    BY DEF JobsKnow
  <2>1. CASE u = t
    BY <2>1, <1>2 DEF Known, MirrorKnown, OffsiteKnown, MirrorMatches, OffsiteMatches
  <2>2. CASE u # t
    BY <2>2, <1>2, <1>3
       DEF Known, MirrorKnown, OffsiteKnown, AfterMirror, AfterOffsite
  <2>3. QED
    BY <2>1, <2>2
<1>9. QED
  BY <1>4, <1>5, <1>6, <1>7, <1>8 DEF IInv

\* A job that ends has to leave the record of its own point true, or suspect.
LEMMA ReturnKeepsIInv ==
  ASSUME IInv, NEW t \in Threads, NEW i \in Ids, job[t].id = i, job[t].step # "idle",
         NEW purged, WorldOK', Return(t), OthersKept(i, purged), RecordTrue(i)'
  PROVE  IInv'
<1>0. job \in [Threads -> Job]
  BY DEF IInv, TypeOK
<1>1. job' \in [Threads -> Job]
  BY <1>0, ChainAssumption
     DEF Return, Idle, Job, Steps, NoManifest, Manifest, SHA0
<1>2. \A u \in Threads : job'[u].step = "idle"
  BY <1>0 DEF IInv, MutualExclusion, Return, Idle
<1>3. TypeOK'
  BY <1>1 DEF TypeOK, WorldOK, Return
<1>4. JobHasPoint' /\ MutualExclusion'
  BY <1>2, ChainAssumption DEF JobHasPoint, MutualExclusion, Return
<1>5. RecordsTrue'
  <2> SUFFICES ASSUME NEW j \in Ids, j # i PROVE RecordTrue(j)'
    BY DEF RecordsTrue
  <2>1. RecordTrue(j)
    BY OtherAtRest DEF IInv, RecordsTrue
  <2>2. QED
    BY <2>1 DEF RecordTrue, OthersKept, MirrorMatches, OffsiteMatches
<1>6. JobsKnow'
  BY <1>2 DEF JobsKnow, Known, MirrorKnown, OffsiteKnown, AfterMirror, AfterOffsite
<1>7. QED
  BY <1>3, <1>4, <1>5, <1>6 DEF IInv

\* An error return leaves the point of the job suspect.
LEMMA ErrorReturnKeepsIInv ==
  ASSUME IInv, NEW t \in Threads, NEW i \in Ids, job[t].id = i, job[t].step # "idle",
         NEW purged \in SUBSET Ids, ErrorReturn(t, purged),
         mirror' \in [Ids -> Tree], offsite' \in [Ids -> OffsiteTree],
         faults' \in 0..MaxFaults,
         \A j \in Ids \ {i} : mirror'[j] = mirror[j]
                              /\ (j \notin purged => offsite'[j] = offsite[j])
  PROVE  IInv'
<1>1. TypeOK
  BY DEF IInv
<1>2. core' \in [Ids -> {"absent", "intact", "damaged"}] /\ manifest' \in [Ids -> Manifest]
  <2>1. NoManifest \in Manifest
    BY DEF NoManifest, Manifest, SHA0
  <2>2. CASE job[t].kind = "create"
    BY <1>1, <2>1, <2>2 DEF TypeOK, ErrorReturn
  <2>3. CASE job[t].kind # "create"
    BY <1>1, <2>3 DEF TypeOK, ErrorReturn
  <2>4. QED
    BY <2>2, <2>3
<1>3. WorldOK'
  BY <1>1, <1>2 DEF TypeOK, WorldOK, ErrorReturn, events
<1>4. OthersKept(i, purged)
  BY <1>1 DEF TypeOK, ErrorReturn, OthersKept
<1>5. RecordTrue(i)'
  BY DEF ErrorReturn, RecordTrue
<1>6. QED
  BY <1>3, <1>4, <1>5, ReturnKeepsIInv DEF ErrorReturn

\* A job that begins needs a free mutex, and a true record unless it is a new point.
LEMMA BeginKeepsIInv ==
  ASSUME IInv, NEW t \in Threads, mu = Nobody, mu' = t, NEW j0 \in Job,
         job' = [job EXCEPT ![t] = j0], j0.id \in Ids,
         j0.step \in {"gate", "mirrorCopy"},
         WorldOK', manifest' = manifest, offsite' = offsite, suspect' = suspect,
         \A j \in Ids : mirror'[j] = mirror[j] \/ (j = j0.id /\ j0.step = "mirrorCopy")
  PROVE  IInv'
<1>0. job \in [Threads -> Job]
  BY DEF IInv, TypeOK
<1>1. job' \in [Threads -> Job] /\ job'[t] = j0 /\ \A u \in Threads \ {t} : job'[u] = job[u]
  BY <1>0
<1>2. \A u \in Threads : job[u].step = "idle"
  BY ChainAssumption DEF IInv, MutualExclusion
<1>3. TypeOK'
  BY <1>1 DEF TypeOK, WorldOK
<1>4. JobHasPoint' /\ MutualExclusion'
  BY <1>1, <1>2 DEF JobHasPoint, MutualExclusion
<1>5. RecordsTrue'
  <2> SUFFICES ASSUME NEW j \in Ids, AtRest(j)' PROVE RecordTrue(j)'
    BY DEF RecordsTrue
  <2>1. mirror'[j] = mirror[j]
    BY <1>1 DEF AtRest, RestSteps
  <2>2. RecordTrue(j)
    BY <1>2 DEF IInv, RecordsTrue, AtRest, RestSteps
  <2>3. QED
    BY <2>1, <2>2 DEF RecordTrue, MirrorMatches, OffsiteMatches
<1>6. JobsKnow'
  BY <1>1, <1>2 DEF JobsKnow, Known, MirrorKnown, OffsiteKnown, AfterMirror, AfterOffsite
<1>7. QED
  BY <1>3, <1>4, <1>5, <1>6 DEF IInv

\* What happens around the jobs may change any file of a point, if that makes it suspect.
LEMMA EnvironmentKeepsIInv ==
  ASSUME IInv, WorldOK', mu' = mu, job' = job, suspect \subseteq suspect',
         \A j \in Ids : \/ j \in suspect'
                        \/ /\ manifest'[j] = manifest[j]
                           /\ mirror'[j].sha = mirror[j].sha
                           /\ offsite'[j].sha = offsite[j].sha
  PROVE  IInv'
<1>1. TypeOK'
  BY DEF IInv, TypeOK, WorldOK
<1>2. JobHasPoint' /\ MutualExclusion'
  BY DEF IInv, JobHasPoint, MutualExclusion
<1>3. RecordsTrue'
  BY DEF IInv, RecordsTrue, AtRest, RecordTrue, MirrorMatches, OffsiteMatches
<1>4. JobsKnow'
  <2> SUFFICES ASSUME NEW t \in Threads
               PROVE  Known(job[t].step, job[t].id, job[t].m)'
    BY DEF JobsKnow
  <2>1. Known(job[t].step, job[t].id, job[t].m)
    BY DEF IInv, JobsKnow
  <2>2. job[t].step # "idle" => job[t].id \in Ids
    BY DEF IInv, JobHasPoint
  <2>3. QED
    BY <2>1, <2>2
       DEF Known, MirrorKnown, OffsiteKnown, MirrorMatches, OffsiteMatches,
           AfterMirror, AfterOffsite
<1>5. QED
  BY <1>1, <1>2, <1>3, <1>4 DEF IInv

-----------------------------------------------------------------------------
(* The steps of a job *)

\* What every step of a job starts from.  (The point and the manifest in memory are
\* named by constants, so that a prime on a fact about them leaves them alone.)
LEMMA BusyJob ==
  ASSUME IInv, NEW t \in Threads, job[t].step # "idle"
  PROVE  /\ \E i \in Ids, m \in Manifest :
              i = job[t].id /\ m = job[t].m /\ Known(job[t].step, i, m)
         /\ job \in [Threads -> Job] /\ WorldOK
  BY DEF IInv, TypeSplit, TypeOK, WorldOK, JobHasPoint, JobsKnow, Job

\* The gate starts from a trusted record, and gives up on any other.
LEMMA ReconcileGateKeeps ==
  ASSUME IInv, NEW t \in Threads, ReconcileGate(t)
  PROVE  IInv'
<1>1. job[t].step = "gate" /\ job \in [Threads -> Job] /\ WorldOK
  BY BusyJob DEF ReconcileGate, At
<1>2. PICK i \in Ids : i = job[t].id
  BY <1>1, BusyJob
<1>3. RecordTrue(i)
  <2>1. AtRest(i)
    BY <1>1, <1>2 DEF IInv, MutualExclusion, AtRest, RestSteps
  <2>2. QED
    BY <2>1 DEF IInv, RecordsTrue
<1>4. WorldOK'
  BY <1>1 DEF WorldOK, ReconcileGate, Return, disk, events
<1>5. OthersKept(i, {})
  BY <1>1, <1>2 DEF OthersKept, WorldOK, ReconcileGate, disk
<1>6. CASE Trusted(i)
  <2>1. PICK m \in Manifest : m = manifest[i]
    BY <1>1 DEF WorldOK
  <2>2. GoToWith(t, "mirrorCheck", m) /\ mu' = mu
    BY <1>2, <1>6, <2>1 DEF ReconcileGate
  <2>3. Known("mirrorCheck", i, m)'
    BY DEF Known, MirrorKnown, OffsiteKnown, AfterMirror, AfterOffsite
  <2>4. QED
    BY <1>1, <1>2, <1>4, <1>5, <2>2, <2>3, AdvanceKeepsIInv DEF Steps, RestSteps
<1>7. CASE ~Trusted(i)
  <2>1. Return(t)
    BY <1>2, <1>7 DEF ReconcileGate
  <2>2. RecordTrue(i)'
    BY <1>2, <1>3, <1>7
       DEF ReconcileGate, RecordTrue, MirrorMatches, OffsiteMatches, disk
  <2>3. QED
    BY <1>1, <1>2, <1>4, <1>5, <2>1, <2>2, ReturnKeepsIInv
<1>8. QED
  BY <1>6, <1>7

\* A mirror that passes the comparison is known; otherwise the rebuild begins.
LEMMA MirrorCheckKeeps ==
  ASSUME IInv, NEW t \in Threads, MirrorCheck(t)
  PROVE  IInv'
<1>1. job[t].step = "mirrorCheck" /\ job \in [Threads -> Job] /\ WorldOK
  BY BusyJob DEF MirrorCheck, At
<1>2. PICK i \in Ids, m \in Manifest : i = job[t].id /\ m = job[t].m
  BY <1>1, BusyJob
<1>3. OthersKept(i, {})
  BY <1>1, <1>2 DEF OthersKept, WorldOK, MirrorCheck
<1>4. CASE MirrorMatches(i, m)
  <2>1. GoToWith(t, "offsiteCheck", m) /\ mu' = mu
    BY <1>1, <1>2, <1>4, GoToIsGoToWith DEF MirrorCheck
  <2>2. WorldOK' /\ mirror' = mirror
    BY <1>1, <1>2, <1>4 DEF WorldOK, MirrorCheck, events
  <2>3. Known("offsiteCheck", i, m)'
    BY <1>4, <2>2 DEF Known, MirrorKnown, OffsiteKnown, AfterOffsite, MirrorMatches
  <2>4. QED
    BY <1>1, <1>2, <1>3, <2>1, <2>2, <2>3, AdvanceKeepsIInv DEF Steps, RestSteps
<1>5. CASE ~MirrorMatches(i, m)
  <2>1. GoToWith(t, "mirrorCopy", m) /\ mu' = mu
    BY <1>1, <1>2, <1>5, GoToIsGoToWith DEF MirrorCheck
  <2>2. mirror' \in [Ids -> Tree]
    <3>1. PICK d \in SHA : mirror' = [mirror EXCEPT ![i] = PartialTree(d)]
      BY <1>2, <1>5, FreshIsSHA DEF MirrorCheck
    <3>2. QED
      BY <1>1, <3>1 DEF WorldOK, PartialTree, Tree, SHA0
  <2>3. WorldOK'
    BY <1>1, <2>2 DEF WorldOK, MirrorCheck, events
  <2>4. Known("mirrorCopy", i, m)'
    BY DEF Known, MirrorKnown, OffsiteKnown, AfterMirror, AfterOffsite
  <2>5. QED
    BY <1>1, <1>2, <1>3, <2>1, <2>3, <2>4, AdvanceKeepsIInv DEF Steps, RestSteps
<1>6. QED
  BY <1>4, <1>5

\* Nothing is claimed of a mirror that has been copied and not sealed.
LEMMA MirrorCopyKeeps ==
  ASSUME IInv, NEW t \in Threads, MirrorCopy(t)
  PROVE  IInv'
<1>1. job[t].step = "mirrorCopy" /\ job \in [Threads -> Job] /\ WorldOK
  BY BusyJob DEF MirrorCopy, At
<1>2. PICK i \in Ids, m \in Manifest : i = job[t].id /\ m = job[t].m
  BY <1>1, BusyJob
<1>3. OthersKept(i, {})
  BY <1>1, <1>2 DEF OthersKept, WorldOK, MirrorCopy
<1>4. GoToWith(t, "mirrorSeal", m) /\ mu' = mu
  BY <1>1, <1>2, GoToIsGoToWith DEF MirrorCopy
<1>5. WorldOK'
  <2>1. mirror' \in [Ids -> Tree]
    BY <1>1, <1>2, FreshIsSHA DEF MirrorCopy, WorldOK, Tree, SHA0
  <2>2. QED
    BY <1>1, <2>1 DEF WorldOK, MirrorCopy, events
<1>6. Known("mirrorSeal", i, m)'
  BY DEF Known, MirrorKnown, OffsiteKnown, AfterMirror, AfterOffsite
<1>7. QED
  BY <1>1, <1>2, <1>3, <1>4, <1>5, <1>6, AdvanceKeepsIInv DEF Steps, RestSteps

\* A mirror that could not be made leaves the point suspect.
LEMMA MirrorFailKeeps ==
  ASSUME IInv, NEW t \in Threads, MirrorFail(t)
  PROVE  IInv'
<1>1. job[t].step = "mirrorCopy" /\ WorldOK
  BY BusyJob DEF MirrorFail, At
<1>2. PICK i \in Ids : i = job[t].id
  BY <1>1, BusyJob
<1>3. /\ mirror' \in [Ids -> Tree] /\ offsite' \in [Ids -> OffsiteTree]
      /\ \A j \in Ids \ {i} : mirror'[j] = mirror[j] /\ offsite'[j] = offsite[j]
  BY <1>1, <1>2 DEF MirrorFail, WorldOK, NoTree, Tree, SHA0
<1>4. faults' \in 0..MaxFaults /\ ErrorReturn(t, {})
  BY <1>1, ChainAssumption DEF MirrorFail, Fault, WorldOK
<1>5. QED
  BY <1>1, <1>2, <1>3, <1>4, ErrorReturnKeepsIInv

\* The digest that seals a mirror is the digest of that mirror.
LEMMA MirrorSealKeeps ==
  ASSUME IInv, NEW t \in Threads, MirrorSeal(t)
  PROVE  IInv'
<1>1. job[t].step = "mirrorSeal" /\ WorldOK
  BY BusyJob DEF MirrorSeal, At
<1>2. PICK i \in Ids, m \in Manifest : i = job[t].id /\ m = job[t].m
  BY <1>1, BusyJob
<1>3. PICK n \in Manifest :
        n = [m EXCEPT !.mirrorSHA = mirror[i].sha, !.mirrorVerified = TRUE]
  BY <1>1 DEF Manifest, WorldOK, Tree
<1>4. n.mirrorSHA = mirror[i].sha /\ n.mirrorVerified /\ mirror[i].sha # NoSHA
  BY <1>2, <1>3 DEF Manifest, MirrorSeal
<1>5. PICK next \in {"offsiteCopy", "mirrorRecheck"} :
        GoToWith(t, next, n) /\ mu' = mu /\ mirror' = mirror
  BY <1>2, <1>3 DEF MirrorSeal, disk
<1>6. OthersKept(i, {}) /\ WorldOK'
  BY <1>1 DEF OthersKept, WorldOK, MirrorSeal, disk, events
<1>7. Known(next, i, n)'
  BY <1>4, <1>5 DEF Known, MirrorKnown, OffsiteKnown, AfterMirror, AfterOffsite, MirrorMatches
<1>8. QED
  BY <1>1, <1>2, <1>5, <1>6, <1>7, AdvanceKeepsIInv DEF Steps, RestSteps

\* The second comparison makes it known to reconciliation.
LEMMA MirrorRecheckKeeps ==
  ASSUME IInv, NEW t \in Threads, MirrorRecheck(t)
  PROVE  IInv'
<1>1. job[t].step = "mirrorRecheck" /\ job \in [Threads -> Job] /\ WorldOK
  BY BusyJob DEF MirrorRecheck, At
<1>2. PICK i \in Ids, m \in Manifest :
        i = job[t].id /\ m = job[t].m /\ Known("mirrorRecheck", i, m)
  BY <1>1, BusyJob
<1>3. GoToWith(t, "offsiteCheck", m) /\ mu' = mu /\ mirror' = mirror
  BY <1>1, <1>2, GoToIsGoToWith DEF MirrorRecheck, disk
<1>4. OthersKept(i, {}) /\ WorldOK'
  BY <1>1 DEF OthersKept, WorldOK, MirrorRecheck, disk, events
<1>5. Known("offsiteCheck", i, m)'
  BY <1>2, <1>3
     DEF Known, MirrorKnown, OffsiteKnown, AfterOffsite, MirrorMatches, MirrorRecheck
<1>6. QED
  BY <1>1, <1>2, <1>3, <1>4, <1>5, AdvanceKeepsIInv DEF Steps, RestSteps

\* A mirror that went away meanwhile leaves the point suspect.
LEMMA MirrorLostKeeps ==
  ASSUME IInv, NEW t \in Threads, MirrorLost(t)
  PROVE  IInv'
<1>1. job[t].step # "idle" /\ WorldOK
  BY BusyJob DEF MirrorLost, At
<1>2. PICK i \in Ids : i = job[t].id
  BY <1>1, BusyJob
<1>3. /\ mirror' \in [Ids -> Tree] /\ offsite' \in [Ids -> OffsiteTree]
      /\ \A j \in Ids \ {i} : mirror'[j] = mirror[j] /\ offsite'[j] = offsite[j]
      /\ faults' \in 0..MaxFaults /\ ErrorReturn(t, {})
  BY <1>1, <1>2 DEF MirrorLost, WorldOK
<1>4. QED
  BY <1>1, <1>2, <1>3, ErrorReturnKeepsIInv

-----------------------------------------------------------------------------
(* The offsite copy *)

\* Without a verified copy Create goes on and records that, and reconciliation ends.
LEMMA OffsiteUnverifiedKeeps ==
  ASSUME IInv, NEW t \in Threads, NEW i \in Ids, i = job[t].id, job[t].step # "idle",
         Known("offsiteCopy", i, job[t].m),
         NEW purged \in SUBSET Ids, OffsiteUnverified(t, purged),
         mirror' = mirror, offsite' \in [Ids -> OffsiteTree], faults' \in 0..MaxFaults,
         \A j \in Ids \ {i} : j \notin purged => offsite'[j] = offsite[j]
  PROVE  IInv'
<1>1. PICK m \in Manifest : m = job[t].m
  BY BusyJob
<1>2. job \in [Threads -> Job] /\ WorldOK
  BY BusyJob
<1>3. CASE job[t].kind = "create"
  <2>1. PICK n \in Manifest : n = WithOffsite(m, NoSHA, FALSE)
    BY DEF WithOffsite, Manifest, SHA0
  <2>2. GoToWith(t, "persist", n) /\ mu' = mu
    BY <1>1, <1>3, <2>1 DEF OffsiteUnverified
  <2>3. OthersKept(i, purged) /\ WorldOK'
    BY <1>2, <1>3 DEF OffsiteUnverified, OthersKept, WorldOK, events
  <2>4. Known("persist", i, n)'
    BY <1>1, <1>3, <2>1
       DEF OffsiteUnverified, WithOffsite, Manifest, Known, MirrorKnown, OffsiteKnown,
           AfterMirror, MirrorMatches
  <2>5. QED
    BY <2>2, <2>3, <2>4, AdvanceKeepsIInv DEF Steps, RestSteps
<1>4. CASE job[t].kind # "create"
  <2>1. ErrorReturn(t, purged)
    BY <1>4 DEF OffsiteUnverified
  <2>2. mirror' \in [Ids -> Tree] /\ \A j \in Ids \ {i} : mirror'[j] = mirror[j]
    BY <1>2 DEF WorldOK
  <2>3. QED
    BY <2>1, <2>2, ErrorReturnKeepsIInv
<1>5. QED
  BY <1>3, <1>4

\* A copy that passes the comparison is known; otherwise it is removed.
LEMMA OffsiteCheckKeeps ==
  ASSUME IInv, NEW t \in Threads, OffsiteCheck(t)
  PROVE  IInv'
<1>1. job[t].step = "offsiteCheck" /\ job \in [Threads -> Job] /\ WorldOK
  BY BusyJob DEF OffsiteCheck, At
<1>2. PICK i \in Ids, m \in Manifest :
        i = job[t].id /\ m = job[t].m /\ Known("offsiteCheck", i, m)
  BY <1>1, BusyJob
<1>3. OthersKept(i, {}) /\ mu' = mu /\ mirror' = mirror /\ suspect' = suspect
  BY <1>1, <1>2 DEF OthersKept, WorldOK, OffsiteCheck
<1>4. MirrorKnown("persist", i, m)'
  BY <1>2, <1>3 DEF Known, MirrorKnown, AfterMirror, MirrorMatches
<1>5. CASE OffsiteMode # "filesystem"
  <2>1. PICK n \in Manifest : n = WithOffsite(m, NoSHA, FALSE)
    BY DEF WithOffsite, Manifest, SHA0
  <2>2. GoToWith(t, "persist", n)
    BY <1>2, <1>5, <2>1 DEF OffsiteCheck
  <2>3. WorldOK'
    BY <1>1, <1>5 DEF OffsiteCheck, WorldOK, events
  <2>4. Known("persist", i, n)'
    BY <1>4, <2>1
       DEF WithOffsite, Manifest, Known, MirrorKnown, OffsiteKnown, MirrorMatches
  <2>5. QED
    BY <1>1, <1>2, <1>3, <2>2, <2>3, <2>4, AdvanceKeepsIInv DEF Steps, RestSteps
<1>6. CASE OffsiteMode = "filesystem" /\ OffsiteMatches(i, m)
  <2>1. GoToWith(t, "persist", m) /\ offsite' = offsite
    BY <1>1, <1>2, <1>6, GoToIsGoToWith DEF OffsiteCheck
  <2>2. WorldOK'
    BY <1>1, <2>1 DEF OffsiteCheck, WorldOK, events
  <2>3. Known("persist", i, m)'
    BY <1>4, <1>6, <2>1 DEF Known, OffsiteKnown, OffsiteMatches
  <2>4. QED
    BY <1>1, <1>2, <1>3, <2>1, <2>2, <2>3, AdvanceKeepsIInv DEF Steps, RestSteps
<1>7. CASE OffsiteMode = "filesystem" /\ ~OffsiteMatches(i, m)
  <2>1. GoToWith(t, "offsiteCopy", m)
    BY <1>1, <1>2, <1>7, GoToIsGoToWith DEF OffsiteCheck
  <2>2. WorldOK'
    <3>1. offsite' = [offsite EXCEPT ![i] = NoOffsite] /\ NoOffsite \in OffsiteTree
      BY <1>2, <1>7 DEF OffsiteCheck, NoOffsite, OffsiteTree, SHA0
    <3>2. QED
      BY <1>1, <3>1 DEF OffsiteCheck, WorldOK, events
  <2>3. Known("offsiteCopy", i, m)'
    BY <1>4 DEF Known, MirrorKnown, OffsiteKnown, AfterMirror, AfterOffsite
  <2>4. QED
    BY <1>1, <1>2, <1>3, <2>1, <2>2, <2>3, AdvanceKeepsIInv DEF Steps, RestSteps
<1>8. QED
  BY <1>5, <1>6, <1>7

\* A stale copy that cannot be removed leaves the point suspect.
LEMMA OffsiteCleanupFailKeeps ==
  ASSUME IInv, NEW t \in Threads, OffsiteCleanupFail(t)
  PROVE  IInv'
<1>1. job[t].step = "offsiteCheck" /\ WorldOK
  BY BusyJob DEF OffsiteCleanupFail, At
<1>2. PICK i \in Ids : i = job[t].id
  BY <1>1, BusyJob
<1>3. /\ mirror' \in [Ids -> Tree] /\ offsite' \in [Ids -> OffsiteTree]
      /\ \A j \in Ids \ {i} : mirror'[j] = mirror[j] /\ offsite'[j] = offsite[j]
  BY <1>1 DEF OffsiteCleanupFail, WorldOK
<1>4. faults' \in 0..MaxFaults /\ ErrorReturn(t, {})
  BY <1>1, ChainAssumption DEF OffsiteCleanupFail, Fault, WorldOK
<1>5. QED
  BY <1>1, <1>2, <1>3, <1>4, ErrorReturnKeepsIInv

\* A copy that has nowhere to go, or nothing to copy, changes no tree.
LEMMA OffsiteSkipKeeps ==
  ASSUME IInv, NEW t \in Threads, OffsiteSkip(t)
  PROVE  IInv'
<1>1. job[t].step = "offsiteCopy" /\ WorldOK
  BY BusyJob DEF OffsiteSkip, At
<1>2. PICK i \in Ids : i = job[t].id /\ Known("offsiteCopy", i, job[t].m)
  BY <1>1, BusyJob
<1>3. offsite' \in [Ids -> OffsiteTree] /\ faults' \in 0..MaxFaults
  BY <1>1 DEF OffsiteSkip, WorldOK
<1>4. QED
  BY <1>1, <1>2, <1>3, OffsiteUnverifiedKeeps DEF OffsiteSkip

\* rclone check makes the copy known at once.
LEMMA RcloneCopyKeeps ==
  ASSUME IInv, NEW t \in Threads, RcloneCopy(t)
  PROVE  IInv'
<1>1. job[t].step = "offsiteCopy" /\ job \in [Threads -> Job] /\ WorldOK
  BY BusyJob DEF RcloneCopy, At
<1>2. PICK i \in Ids, m \in Manifest :
        i = job[t].id /\ m = job[t].m /\ Known("offsiteCopy", i, m)
  BY <1>1, BusyJob
<1>3. PICK n \in Manifest : n = WithOffsite(m, mirror[i].sha, TRUE)
  BY <1>1 DEF WithOffsite, Manifest, WorldOK, Tree
<1>4. GoToWith(t, "persist", n) /\ mu' = mu /\ mirror' = mirror /\ suspect' = suspect
  BY <1>2, <1>3 DEF RcloneCopy
<1>5. WorldOK' /\ OthersKept(i, {}) /\ offsite'[i].sha = mirror[i].sha
  <2>1. offsite' \in [Ids -> OffsiteTree] /\ offsite'[i].sha = mirror[i].sha
    BY <1>1, <1>2 DEF RcloneCopy, WorldOK, Tree, OffsiteTree
  <2>2. QED
    BY <1>1, <1>2, <2>1 DEF RcloneCopy, WorldOK, OthersKept, events
<1>6. Known("persist", i, n)'
  BY <1>2, <1>3, <1>4, <1>5
     DEF RcloneCopy, WithOffsite, Manifest, Known, MirrorKnown, OffsiteKnown, AfterMirror,
         MirrorMatches, OffsiteMatches
<1>7. QED
  BY <1>1, <1>2, <1>4, <1>5, <1>6, AdvanceKeepsIInv DEF Steps, RestSteps

\* A failed rclone copy leaves at most the remote tree of its own point altered.
LEMMA RcloneFailKeeps ==
  ASSUME IInv, NEW t \in Threads, RcloneFail(t)
  PROVE  IInv'
<1>1. job[t].step = "offsiteCopy" /\ WorldOK
  BY BusyJob DEF RcloneFail, At
<1>2. PICK i \in Ids : i = job[t].id /\ Known("offsiteCopy", i, job[t].m)
  BY <1>1, BusyJob
<1>3. /\ offsite' \in [Ids -> OffsiteTree]
      /\ \A j \in Ids \ {i} : offsite'[j] = offsite[j]
  <2>1. CASE offsite' = offsite
    BY <1>1, <2>1 DEF WorldOK
  <2>2. CASE offsite' # offsite
    <3>1. PICK d \in SHA :
            offsite' = [offsite EXCEPT ![i].sha = d, ![i].genuine = FALSE]
      BY <1>2, <2>2, FreshIsSHA DEF RcloneFail
    <3>2. QED
      BY <1>1, <3>1 DEF WorldOK, OffsiteTree, SHA0
  <2>3. QED
    BY <2>1, <2>2
<1>4. faults' \in 0..MaxFaults
  BY <1>1, ChainAssumption DEF RcloneFail, Fault, WorldOK
<1>5. QED
  BY <1>1, <1>2, <1>3, <1>4, OffsiteUnverifiedKeeps DEF RcloneFail

\* Retention leaves the points whose copies it removed suspect, whether or not the
\* copy of this point begins.
LEMMA OffsiteCopyKeeps ==
  ASSUME IInv, NEW t \in Threads, OffsiteCopy(t)
  PROVE  IInv'
<1>1. job[t].step = "offsiteCopy" /\ job \in [Threads -> Job] /\ WorldOK
  BY BusyJob DEF OffsiteCopy, At
<1>2. PICK i \in Ids, m \in Manifest :
        i = job[t].id /\ m = job[t].m /\ Known("offsiteCopy", i, m)
  BY <1>1, BusyJob
<1>3. PICK purged \in SUBSET Ids : purged = Purged
  BY DEF Purged, OffsiteDirs
<1>4. PICK kept \in [Ids -> OffsiteTree] :
        kept = [j \in Ids |-> IF j \in purged THEN NoOffsite ELSE offsite[j]]
  <2>1. NoOffsite \in OffsiteTree
    BY DEF NoOffsite, OffsiteTree, SHA0
  <2>2. QED
    BY <1>1, <2>1 DEF WorldOK
<1>5. mirror' = mirror /\ faults' = faults
  BY DEF OffsiteCopy
<1>6. CASE i \in OffsiteDirs \ purged
  <2>1. offsite' = kept /\ OffsiteUnverified(t, purged)
    BY <1>2, <1>3, <1>4, <1>6 DEF OffsiteCopy
  <2>2. \A j \in Ids \ {i} : j \notin purged => offsite'[j] = offsite[j]
    BY <1>4, <2>1
  <2>3. QED
    BY <1>1, <1>2, <1>5, <2>1, <2>2, OffsiteUnverifiedKeeps DEF WorldOK
<1>7. CASE ~(i \in OffsiteDirs \ purged)
  <2>1. PICK d \in SHA : offsite' = [kept EXCEPT ![i] = [NoOffsite EXCEPT !.sha = d]]
    BY <1>2, <1>3, <1>4, <1>7, FreshIsSHA DEF OffsiteCopy
  <2>2. /\ GoTo(t, "offsiteFill") /\ suspect' = suspect \cup purged
        /\ UNCHANGED <<mu, nextId, core, manifest, reconEvent, guardianEvent>>
    BY <1>2, <1>3, <1>7 DEF OffsiteCopy, events
  <2>3. offsite' \in [Ids -> OffsiteTree]
    BY <2>1 DEF NoOffsite, OffsiteTree, SHA0
  <2>4. WorldOK' /\ OthersKept(i, purged)
    BY <1>1, <1>4, <1>5, <2>1, <2>2, <2>3 DEF WorldOK, OthersKept
  <2>5. Known("offsiteFill", i, m)'
    BY <1>2, <1>5, <2>2
       DEF Known, MirrorKnown, OffsiteKnown, AfterMirror, AfterOffsite, MirrorMatches
  <2>6. GoToWith(t, "offsiteFill", m)
    BY <1>1, <1>2, <2>2, GoToIsGoToWith
  <2>7. QED
    BY <1>1, <1>2, <2>2, <2>4, <2>5, <2>6, AdvanceKeepsIInv DEF Steps, RestSteps
<1>8. QED
  BY <1>6, <1>7

\* The copy is not recorded as verified before it was read back.
LEMMA OffsiteFillKeeps ==
  ASSUME IInv, NEW t \in Threads, OffsiteFill(t)
  PROVE  IInv'
<1>1. job[t].step = "offsiteFill" /\ job \in [Threads -> Job] /\ WorldOK
  BY BusyJob DEF OffsiteFill, At
<1>2. PICK i \in Ids, m \in Manifest :
        i = job[t].id /\ m = job[t].m /\ Known("offsiteFill", i, m)
  BY <1>1, BusyJob
<1>3. PICK n \in Manifest : n = WithOffsite(m, mirror[i].sha, FALSE)
  BY <1>1 DEF WithOffsite, Manifest, WorldOK, Tree
<1>4. GoToWith(t, "offsiteSeal", n) /\ mu' = mu /\ mirror' = mirror /\ suspect' = suspect
  BY <1>2, <1>3 DEF OffsiteFill
<1>5. WorldOK' /\ OthersKept(i, {})
  <2>1. offsite' \in [Ids -> OffsiteTree]
    BY <1>1, <1>2 DEF OffsiteFill, WorldOK, Tree, OffsiteTree
  <2>2. QED
    BY <1>1, <1>2, <2>1 DEF OffsiteFill, WorldOK, OthersKept, events
<1>6. Known("offsiteSeal", i, n)'
  BY <1>2, <1>3, <1>4
     DEF OffsiteFill, WithOffsite, Manifest, Known, MirrorKnown, OffsiteKnown, AfterMirror,
         AfterOffsite, MirrorMatches
<1>7. QED
  BY <1>1, <1>2, <1>4, <1>5, <1>6, AdvanceKeepsIInv DEF Steps, RestSteps

\* A failed copy touches the offsite tree of its own point only.
LEMMA OffsiteFillFailKeeps ==
  ASSUME IInv, NEW t \in Threads, OffsiteFillFail(t)
  PROVE  IInv'
<1>1. job[t].step = "offsiteFill" /\ WorldOK
  BY BusyJob DEF OffsiteFillFail, At
<1>2. PICK i \in Ids : i = job[t].id /\ Known("offsiteFill", i, job[t].m)
  BY <1>1, BusyJob
<1>3. Known("offsiteCopy", i, job[t].m)
  BY <1>2 DEF Known, MirrorKnown, OffsiteKnown, AfterMirror, AfterOffsite
<1>4. offsite' = offsite \/ offsite' = [offsite EXCEPT ![i] = NoOffsite]
  BY <1>2 DEF OffsiteFillFail
<1>5. offsite' \in [Ids -> OffsiteTree] /\ \A j \in Ids \ {i} : offsite'[j] = offsite[j]
  <2>1. CASE offsite' = offsite
    BY <1>1, <2>1 DEF WorldOK
  <2>2. CASE offsite' = [offsite EXCEPT ![i] = NoOffsite]
    BY <1>1, <1>2, <2>2 DEF WorldOK, NoOffsite, OffsiteTree, SHA0
  <2>3. QED  BY <1>4, <2>1, <2>2
<1>6. faults' \in 0..MaxFaults
  BY <1>1, ChainAssumption DEF OffsiteFillFail, Fault, WorldOK
<1>7. QED
  BY <1>1, <1>2, <1>3, <1>5, <1>6, OffsiteUnverifiedKeeps DEF OffsiteFillFail

\* A copy whose digest is the recorded one is verified; any other is removed again.
LEMMA OffsiteSealKeeps ==
  ASSUME IInv, NEW t \in Threads, OffsiteSeal(t)
  PROVE  IInv'
<1>1. job[t].step = "offsiteSeal" /\ job \in [Threads -> Job] /\ WorldOK
  BY BusyJob DEF OffsiteSeal, At
<1>2. PICK i \in Ids, m \in Manifest :
        i = job[t].id /\ m = job[t].m /\ Known("offsiteSeal", i, m)
  BY <1>1, BusyJob
<1>3. mirror' = mirror /\ faults' = faults
  BY DEF OffsiteSeal
<1>4. CASE offsite[i].sha = m.offsiteSHA
  <2>1. PICK n \in Manifest : n = WithOffsite(m, m.offsiteSHA, TRUE)
    BY DEF WithOffsite, Manifest
  <2>2. PICK next \in {"persist", "offsiteRecheck"} : GoToWith(t, next, n)
    BY <1>2, <1>4, <2>1 DEF OffsiteSeal
  <2>3. UNCHANGED <<mu, nextId, core, manifest, offsite, reconEvent, guardianEvent, suspect>>
    BY <1>2, <1>4 DEF OffsiteSeal, events
  <2>4. WorldOK' /\ OthersKept(i, {})
    BY <1>1, <1>3, <2>3 DEF WorldOK, OthersKept
  <2>5. Known(next, i, n)'
    BY <1>2, <1>3, <1>4, <2>1, <2>3
       DEF WithOffsite, Manifest, Known, MirrorKnown, OffsiteKnown, AfterMirror,
           AfterOffsite, MirrorMatches, OffsiteMatches
  <2>6. QED
    BY <1>1, <1>2, <2>2, <2>3, <2>4, <2>5, AdvanceKeepsIInv DEF Steps, RestSteps
<1>5. CASE offsite[i].sha # m.offsiteSHA
  <2>1. offsite' = [offsite EXCEPT ![i] = NoOffsite] /\ OffsiteUnverified(t, {})
    BY <1>2, <1>5 DEF OffsiteSeal
  <2>2. offsite' \in [Ids -> OffsiteTree] /\ \A j \in Ids \ {i} : offsite'[j] = offsite[j]
    BY <1>1, <2>1 DEF WorldOK, NoOffsite, OffsiteTree, SHA0
  <2>3. Known("offsiteCopy", i, m)
    BY <1>2 DEF Known, MirrorKnown, OffsiteKnown, AfterMirror, AfterOffsite
  <2>4. faults' \in 0..MaxFaults
    BY <1>1, <1>3 DEF WorldOK
  <2>5. QED
    BY <1>1, <1>2, <1>3, <2>1, <2>2, <2>3, <2>4, OffsiteUnverifiedKeeps
<1>6. QED
  BY <1>4, <1>5

\* The second digest of a rebuilt copy decides between the manifest and an error.
LEMMA OffsiteRecheckKeeps ==
  ASSUME IInv, NEW t \in Threads, OffsiteRecheck(t)
  PROVE  IInv'
<1>1. job[t].step = "offsiteRecheck" /\ job \in [Threads -> Job] /\ WorldOK
  BY BusyJob DEF OffsiteRecheck, At
<1>2. PICK i \in Ids, m \in Manifest :
        i = job[t].id /\ m = job[t].m /\ Known("offsiteRecheck", i, m)
  BY <1>1, BusyJob
<1>3. mirror' = mirror /\ offsite' = offsite /\ faults' = faults
  BY DEF OffsiteRecheck
<1>4. CASE offsite[i].sha = m.offsiteSHA
  <2>1. /\ GoTo(t, "persist")
        /\ UNCHANGED <<mu, nextId, core, manifest, reconEvent, guardianEvent, suspect>>
    BY <1>2, <1>4 DEF OffsiteRecheck, events
  <2>2. GoToWith(t, "persist", m)
    BY <1>1, <1>2, <2>1, GoToIsGoToWith
  <2>3. WorldOK' /\ OthersKept(i, {})
    BY <1>1, <1>3, <2>1 DEF WorldOK, OthersKept
  <2>4. Known("persist", i, m)'
    BY <1>2, <1>3, <1>4, <2>1
       DEF Known, MirrorKnown, OffsiteKnown, AfterMirror, AfterOffsite, MirrorMatches,
           OffsiteMatches
  <2>5. QED
    BY <1>1, <1>2, <2>1, <2>2, <2>3, <2>4, AdvanceKeepsIInv DEF Steps, RestSteps
<1>5. CASE offsite[i].sha # m.offsiteSHA
  <2>1. ErrorReturn(t, {})
    BY <1>2, <1>5 DEF OffsiteRecheck
  <2>2. QED
    BY <1>1, <1>2, <1>3, <2>1, ErrorReturnKeepsIInv DEF WorldOK
<1>6. QED
  BY <1>4, <1>5

-----------------------------------------------------------------------------
(* The manifest *)

\* What the job knows is what it writes.
LEMMA PersistKeeps ==
  ASSUME IInv, NEW t \in Threads, Persist(t)
  PROVE  IInv'
<1>1. job[t].step = "persist" /\ job \in [Threads -> Job] /\ WorldOK
  BY BusyJob DEF Persist, At
<1>2. PICK i \in Ids, m \in Manifest :
        i = job[t].id /\ m = job[t].m /\ Known("persist", i, m)
  BY <1>1, BusyJob
<1>3. GoToWith(t, "write", m)
  BY <1>1, <1>2, GoToIsGoToWith DEF Persist
<1>4. manifest' \in [Ids -> Manifest] /\ \A j \in Ids \ {i} : manifest'[j] = manifest[j]
  BY <1>1, <1>2 DEF Persist, WorldOK, Manifest
<1>5. WorldOK' /\ OthersKept(i, {}) /\ mu' = mu
  BY <1>1, <1>4 DEF Persist, WorldOK, OthersKept, events
<1>6. Known("write", i, m)'
  BY <1>2
     DEF Persist, Known, MirrorKnown, OffsiteKnown, AfterMirror, AfterOffsite,
         MirrorMatches, OffsiteMatches
<1>7. QED
  BY <1>1, <1>2, <1>3, <1>5, <1>6, AdvanceKeepsIInv DEF Steps, RestSteps

\* A manifest that is written is true, because the job knew it.
LEMMA WriteKeeps ==
  ASSUME IInv, NEW t \in Threads, Write(t)
  PROVE  IInv'
<1>1. job[t].step = "write" /\ job \in [Threads -> Job] /\ WorldOK
  BY BusyJob DEF Write, At
<1>2. PICK i \in Ids, m \in Manifest :
        i = job[t].id /\ m = job[t].m /\ Known("write", i, m)
  BY <1>1, BusyJob
<1>3. manifest' = [manifest EXCEPT ![i] = [m EXCEPT !.file = "whole"]]
  BY <1>2 DEF Write
<1>4. mirror' = mirror /\ offsite' = offsite /\ suspect' = suspect
  BY DEF Write
<1>5. manifest' \in [Ids -> Manifest] /\ \A j \in Ids \ {i} : manifest'[j] = manifest[j]
  BY <1>1, <1>3 DEF WorldOK, Manifest
<1>6. RecordTrue(i)'
  BY <1>1, <1>2, <1>3, <1>4
     DEF WorldOK, Known, MirrorKnown, OffsiteKnown, AfterMirror, AfterOffsite, RecordTrue,
         MirrorMatches, OffsiteMatches, Manifest
<1>7. reconEvent' \in [Ids -> {"none", "started", "success"}] /\ faults' \in 0..MaxFaults
  BY <1>1, ChainAssumption DEF Write, RecordRecon, EventLost, Fault, WorldOK
<1>8. WorldOK' /\ OthersKept(i, {})
  BY <1>1, <1>4, <1>5, <1>7 DEF Write, WorldOK, OthersKept
<1>9. CASE job[t].kind = "create"
  <2>1. Return(t)
    BY <1>9 DEF Write
  <2>2. QED
    BY <1>1, <1>2, <1>6, <1>8, <2>1, ReturnKeepsIInv
<1>10. CASE job[t].kind # "create"
  <2>1. GoToWith(t, "finalGate", m) /\ mu' = mu
    BY <1>1, <1>2, <1>10, GoToIsGoToWith DEF Write
  <2>2. Known("finalGate", i, m)'
    BY <1>2, <1>4
       DEF Known, MirrorKnown, OffsiteKnown, AfterMirror, AfterOffsite, MirrorMatches,
           OffsiteMatches
  <2>3. QED
    BY <1>1, <1>2, <1>6, <1>8, <2>1, <2>2, AdvanceKeepsIInv DEF Steps
<1>11. QED
  BY <1>9, <1>10

\* A failed write of the manifest makes the point suspect.
LEMMA WriteFailKeeps ==
  ASSUME IInv, NEW t \in Threads, WriteFail(t)
  PROVE  IInv'
<1>1. job[t].step = "write" /\ WorldOK
  BY BusyJob DEF WriteFail, At
<1>2. PICK i \in Ids : i = job[t].id
  BY <1>1, BusyJob
<1>3. /\ mirror' \in [Ids -> Tree] /\ offsite' \in [Ids -> OffsiteTree]
      /\ \A j \in Ids \ {i} : mirror'[j] = mirror[j] /\ offsite'[j] = offsite[j]
  BY <1>1 DEF WriteFail, WorldOK
<1>4. faults' \in 0..MaxFaults /\ ErrorReturn(t, {})
  BY <1>1, ChainAssumption DEF WriteFail, Fault, WorldOK
<1>5. QED
  BY <1>1, <1>2, <1>3, <1>4, ErrorReturnKeepsIInv

\* The record was true when the final gate read it, and nothing changes it.
LEMMA FinalGateKeeps ==
  ASSUME IInv, NEW t \in Threads, FinalGate(t)
  PROVE  IInv'
<1>1. job[t].step = "finalGate" /\ job \in [Threads -> Job] /\ WorldOK
  BY BusyJob DEF FinalGate, At
<1>2. PICK i \in Ids : i = job[t].id
  BY <1>1, BusyJob
<1>3. RecordTrue(i)'
  <2>1. AtRest(i)
    BY <1>1, <1>2 DEF IInv, MutualExclusion, AtRest, RestSteps
  <2>2. RecordTrue(i)
    BY <2>1 DEF IInv, RecordsTrue
  <2>3. QED
    BY <2>2 DEF FinalGate, RecordTrue, MirrorMatches, OffsiteMatches, disk
<1>4. /\ reconEvent' \in [Ids -> {"none", "started", "success"}]
      /\ guardianEvent' \in BOOLEAN /\ faults' \in 0..MaxFaults
  <2>1. \/ reconEvent' = reconEvent
        \/ reconEvent' = [reconEvent EXCEPT ![job[t].id] = "success"]
    BY DEF FinalGate, events
  <2>2. guardianEvent' = guardianEvent \/ guardianEvent' = TRUE
    BY DEF FinalGate, events
  <2>3. faults' = faults \/ (faults < MaxFaults /\ faults' = faults + 1)
    BY DEF FinalGate, EventLost, Fault
  <2>4. reconEvent' \in [Ids -> {"none", "started", "success"}]
    BY <1>1, <1>2, <2>1 DEF WorldOK
  <2>5. guardianEvent' \in BOOLEAN
    BY <1>1, <2>2 DEF WorldOK
  <2>6. faults' \in 0..MaxFaults
    BY <1>1, <2>3, ChainAssumption DEF WorldOK
  <2>7. QED
    BY <2>4, <2>5, <2>6
<1>5. WorldOK' /\ OthersKept(i, {}) /\ Return(t)
  BY <1>1, <1>4 DEF FinalGate, WorldOK, OthersKept, disk
<1>6. QED
  BY <1>1, <1>2, <1>3, <1>5, ReturnKeepsIInv

\* A final gate that fails makes the point suspect and writes nothing.
LEMMA FinalGateFailKeeps ==
  ASSUME IInv, NEW t \in Threads, FinalGateFail(t)
  PROVE  IInv'
<1>1. job[t].step = "finalGate" /\ WorldOK
  BY BusyJob DEF FinalGateFail, At
<1>2. PICK i \in Ids : i = job[t].id
  BY <1>1, BusyJob
<1>3. /\ mirror' \in [Ids -> Tree] /\ offsite' \in [Ids -> OffsiteTree]
      /\ \A j \in Ids \ {i} : mirror'[j] = mirror[j] /\ offsite'[j] = offsite[j]
      /\ faults' \in 0..MaxFaults /\ ErrorReturn(t, {})
  BY <1>1 DEF FinalGateFail, WorldOK
<1>4. QED
  BY <1>1, <1>2, <1>3, ErrorReturnKeepsIInv

-----------------------------------------------------------------------------
(* The beginning of a job, and the environment *)

\* A new point takes the free mutex and an id that nothing refers to.
LEMMA CreateBeginKeeps ==
  ASSUME IInv, NEW t \in Clients, CreateBegin(t)
  PROVE  IInv'
<1>1. t \in Threads /\ WorldOK /\ mu = Nobody /\ mu' = t /\ nextId <= MaxId
  BY TypeSplit DEF IInv, Threads, CreateBegin, CreateBeginUnlocked
<1>2. nextId \in Ids
  BY <1>1, ChainAssumption DEF WorldOK, Ids
<1>3. PICK j0 \in Job :
        j0 = [step |-> "mirrorCopy", kind |-> "create", id |-> nextId, m |-> NoManifest]
  <2>1. nextId \in 0..MaxId /\ NoManifest \in Manifest
    BY <1>2, ChainAssumption DEF Ids, NoManifest, Manifest, SHA0
  <2>2. QED
    BY <2>1 DEF Job, Steps
<1>4. PICK d \in SHA : mirror' = [mirror EXCEPT ![nextId] = PartialTree(d)]
  BY FreshIsSHA DEF CreateBegin, CreateBeginUnlocked
<1>5. mirror' \in [Ids -> Tree]
  BY <1>1, <1>4 DEF WorldOK, PartialTree, Tree, SHA0
<1>6. WorldOK'
  BY <1>1, <1>2, <1>5, ChainAssumption
     DEF CreateBegin, CreateBeginUnlocked, WorldOK, Ids, events
<1>7. job' = [job EXCEPT ![t] = j0]
  BY <1>3 DEF CreateBegin, CreateBeginUnlocked
<1>8. \A j \in Ids : mirror'[j] = mirror[j] \/ j = nextId
  BY <1>1, <1>4 DEF WorldOK
<1>9. j0.id = nextId /\ j0.step = "mirrorCopy"
  BY <1>3
<1>10. manifest' = manifest /\ offsite' = offsite /\ suspect' = suspect
  BY DEF CreateBegin, CreateBeginUnlocked
<1>11. QED
  BY <1>1, <1>2, <1>6, <1>7, <1>8, <1>9, <1>10, BeginKeepsIInv

\* A reconciliation takes the free mutex and an existing point.
LEMMA ReconcileBeginKeeps ==
  ASSUME IInv, ReconcileBegin(Guardian)
  PROVE  IInv'
<1>1. Guardian \in Threads /\ WorldOK /\ mu = Nobody /\ mu' = Guardian
  BY TypeSplit DEF IInv, Threads, ReconcileBegin
<1>2. PICK i \in TrustedIds :
        /\ job' = [job EXCEPT ![Guardian] =
                     [step |-> "gate", kind |-> "reconcile", id |-> i, m |-> NoManifest]]
        /\ RecordRecon(i, "started")
  BY DEF ReconcileBegin
<1>3. i \in Ids
  BY DEF TrustedIds
<1>4. PICK j0 \in Job :
        j0 = [step |-> "gate", kind |-> "reconcile", id |-> i, m |-> NoManifest]
  <2>1. i \in 0..MaxId /\ NoManifest \in Manifest
    BY <1>3, ChainAssumption DEF Ids, NoManifest, Manifest, SHA0
  <2>2. QED
    BY <2>1 DEF Job, Steps
<1>5. reconEvent' \in [Ids -> {"none", "started", "success"}] /\ faults' \in 0..MaxFaults
  BY <1>1, <1>2, ChainAssumption DEF RecordRecon, EventLost, Fault, WorldOK
<1>6. WorldOK' /\ manifest' = manifest /\ mirror' = mirror /\ offsite' = offsite
      /\ suspect' = suspect
  BY <1>1, <1>5 DEF ReconcileBegin, WorldOK, disk
<1>7. QED
  BY <1>1, <1>2, <1>3, <1>4, <1>6, BeginKeepsIInv

\* Damage and expiry.
LEMMA DamageKeeps ==
  ASSUME IInv, NEW i \in Ids,
         DamageCore(i) \/ DamageMirror(i) \/ DamageOffsite(i) \/ Expire(i)
  PROVE  IInv'
<1>1. WorldOK
  BY TypeSplit DEF IInv
<1>2. CASE DamageCore(i)
  <2>1. WorldOK'
    BY <1>1, <1>2, ChainAssumption DEF DamageCore, Fault, WorldOK, events
  <2>2. QED
    BY <1>2, <2>1, EnvironmentKeepsIInv DEF DamageCore
<1>3. CASE DamageMirror(i)
  <2>1. PICK d \in SHA0 : mirror' = [mirror EXCEPT ![i] = [sha |-> d, genuine |-> FALSE]]
    BY <1>3, FreshIsSHA DEF DamageMirror, SHA0
  <2>2. mirror' \in [Ids -> Tree] /\ \A j \in Ids \ {i} : mirror'[j] = mirror[j]
    BY <1>1, <2>1 DEF WorldOK, Tree
  <2>3. WorldOK'
    BY <1>1, <1>3, <2>2, ChainAssumption DEF DamageMirror, Fault, WorldOK, events
  <2>4. QED
    BY <1>3, <2>2, <2>3, EnvironmentKeepsIInv DEF DamageMirror
<1>4. CASE DamageOffsite(i)
  <2>1. /\ offsite' \in [Ids -> OffsiteTree]
        /\ \A j \in Ids \ {i} : offsite'[j] = offsite[j]
    <3>1. CASE offsite' = [offsite EXCEPT ![i] = NoOffsite]
      BY <1>1, <3>1 DEF WorldOK, NoOffsite, OffsiteTree, SHA0
    <3>2. CASE offsite' # [offsite EXCEPT ![i] = NoOffsite]
      <4>1. PICK d \in SHA :
              offsite' = [offsite EXCEPT ![i].sha = d, ![i].genuine = FALSE]
        BY <1>4, <3>2, FreshIsSHA DEF DamageOffsite
      <4>2. QED
        BY <1>1, <4>1 DEF WorldOK, OffsiteTree, SHA0
    <3>3. QED
      BY <3>1, <3>2
  <2>2. WorldOK'
    BY <1>1, <1>4, <2>1, ChainAssumption DEF DamageOffsite, Fault, WorldOK, events
  <2>3. QED
    BY <1>4, <2>1, <2>2, EnvironmentKeepsIInv DEF DamageOffsite
<1>5. CASE Expire(i)
  <2>1. offsite' \in [Ids -> OffsiteTree] /\ \A j \in Ids : offsite'[j].sha = offsite[j].sha
    BY <1>1, <1>5 DEF Expire, WorldOK, OffsiteTree
  <2>2. WorldOK'
    BY <1>1, <1>5, <2>1 DEF Expire, WorldOK, events
  <2>3. QED
    BY <1>5, <2>1, <2>2, EnvironmentKeepsIInv DEF Expire
<1>6. QED
  BY <1>2, <1>3, <1>4, <1>5

\* A crash makes the point of the job suspect; the other records were true.
LEMMA CrashKeeps ==
  ASSUME IInv, Crash
  PROVE  IInv'
<1>1. WorldOK
  BY TypeSplit DEF IInv
<1>2. WorldOK'
  BY <1>1, ChainAssumption DEF Crash, Fault, WorldOK, disk, events
<1>3. \A t \in Threads : job'[t] = Idle
  BY DEF Crash
<1>4. TypeOK'
  <2>1. Idle \in Job
    BY ChainAssumption DEF Idle, Job, Steps, NoManifest, Manifest, SHA0
  <2>2. QED
    BY <1>2, <2>1 DEF Crash, TypeOK, WorldOK
<1>5. JobHasPoint' /\ MutualExclusion'
  BY <1>3, ChainAssumption DEF JobHasPoint, MutualExclusion, Idle, Crash
<1>6. RecordsTrue'
  <2> SUFFICES ASSUME NEW i \in Ids, i \notin suspect' PROVE RecordTrue(i)'
    BY DEF RecordsTrue, RecordTrue
  <2>1. ~Busy(i)
    BY DEF Crash
  <2>2. RecordTrue(i)
    BY <2>1 DEF IInv, RecordsTrue, AtRest, RestSteps, Busy
  <2>3. QED
    BY <2>2 DEF Crash, RecordTrue, MirrorMatches, OffsiteMatches, disk
<1>7. JobsKnow'
  BY <1>3 DEF JobsKnow, Known, MirrorKnown, OffsiteKnown, AfterMirror, AfterOffsite, Idle
<1>8. QED
  BY <1>4, <1>5, <1>6, <1>7 DEF IInv

-----------------------------------------------------------------------------
(* The theorems *)

\* Initially there is nothing to be wrong about.
THEOREM InitIInv == Init => IInv
<1> SUFFICES ASSUME Init PROVE IInv
  OBVIOUS
<1>1. TypeOK
  <2>1. /\ Idle \in Job /\ NoManifest \in Manifest /\ NoTree \in Tree
        /\ NoOffsite \in OffsiteTree
    BY ChainAssumption
       DEF Idle, Job, Steps, NoManifest, Manifest, SHA0, NoTree, Tree, NoOffsite, OffsiteTree
  <2>2. job \in [Threads -> Job] /\ manifest \in [Ids -> Manifest]
        /\ mirror \in [Ids -> Tree] /\ offsite \in [Ids -> OffsiteTree]
    BY <2>1 DEF Init
  <2>3. core \in [Ids -> {"absent", "intact", "damaged"}]
        /\ reconEvent \in [Ids -> {"none", "started", "success"}]
    BY DEF Init
  <2>4. mu \in Threads \cup {Nobody} /\ guardianEvent \in BOOLEAN /\ suspect \in SUBSET Ids
    BY DEF Init
  <2>5. nextId \in 1..(MaxId + 1) /\ faults \in 0..MaxFaults
    BY ChainAssumption DEF Init
  <2>6. QED
    BY <2>2, <2>3, <2>4, <2>5 DEF TypeOK
<1>2. JobHasPoint /\ MutualExclusion
  BY ChainAssumption DEF Init, JobHasPoint, MutualExclusion, Idle
<1>3. RecordsTrue
  BY DEF Init, RecordsTrue, RecordTrue, NoManifest
<1>4. JobsKnow
  BY DEF Init, JobsKnow, Known, MirrorKnown, OffsiteKnown, AfterMirror, AfterOffsite, Idle
<1>5. QED
  BY <1>1, <1>2, <1>3, <1>4 DEF IInv

\* Every step keeps the invariant: one lemma for each action.
THEOREM NextIInv == IInv /\ [Next]_vars => IInv'
<1> SUFFICES ASSUME IInv, [Next]_vars PROVE IInv'
  OBVIOUS
<1>1. ASSUME NEW t \in Clients, CreateBegin(t) PROVE IInv'
  BY <1>1, CreateBeginKeeps
<1>2. CASE ReconcileBegin(Guardian)
  BY <1>2, ReconcileBeginKeeps
<1>3. ASSUME NEW t \in Threads, JobStep(t) PROVE IInv'
  BY <1>3, ReconcileGateKeeps, MirrorCheckKeeps, MirrorCopyKeeps, MirrorFailKeeps,
     MirrorSealKeeps, MirrorRecheckKeeps, MirrorLostKeeps, OffsiteCheckKeeps,
     OffsiteCleanupFailKeeps, OffsiteSkipKeeps, RcloneCopyKeeps, RcloneFailKeeps,
     OffsiteCopyKeeps, OffsiteFillKeeps, OffsiteFillFailKeeps, OffsiteSealKeeps,
     OffsiteRecheckKeeps, PersistKeeps, WriteKeeps, WriteFailKeeps, FinalGateKeeps,
     FinalGateFailKeeps
     DEF JobStep
<1>4. CASE Environment
  BY <1>4, DamageKeeps, CrashKeeps DEF Environment
<1>5. CASE UNCHANGED vars
  <2>1. TypeOK' /\ JobHasPoint' /\ MutualExclusion'
    BY <1>5
       DEF IInv, TypeOK, JobHasPoint, MutualExclusion, vars, disk, events
  <2>2. RecordsTrue'
    BY <1>5
       DEF IInv, RecordsTrue, AtRest, RecordTrue, MirrorMatches, OffsiteMatches, vars, disk
  <2>3. JobsKnow'
    BY <1>5
       DEF IInv, JobsKnow, Known, MirrorKnown, OffsiteKnown, MirrorMatches, OffsiteMatches,
           vars, disk
  <2>4. QED
    BY <2>1, <2>2, <2>3 DEF IInv
<1>6. QED
  BY <1>1, <1>2, <1>3, <1>4, <1>5 DEF Next

\* The inductive invariant holds in every reachable state of the recovery chain.
THEOREM InvariantHolds == Spec => []IInv
  BY InitIInv, NextIInv, PTL DEF Spec

\* The state of the chain always has its type.
THEOREM TypeCorrect == Spec => []TypeOK
<1>1. IInv => TypeOK
  BY DEF IInv
<1>2. QED
  BY <1>1, InvariantHolds, PTL

\* No two of Create and the Guardian's reconciliations ever run at once, and the mutex
\* is released on every return and error path.
THEOREM JobsExcludeEachOther == Spec => []MutualExclusion
<1>1. IInv => MutualExclusion
  BY DEF IInv
<1>2. QED
  BY <1>1, InvariantHolds, PTL

\* A manifest that nobody is rewriting tells the truth about its mirror, whatever
\* failures and crashes came before, unless the point is suspect.
THEOREM MirrorRecorded == Spec => []MirrorRecordTrue
<1>1. IInv => MirrorRecordTrue
  BY DEF IInv, RecordsTrue, RecordTrue, AtRest, RestSteps, MirrorRecordTrue, Busy
<1>2. QED
  BY <1>1, InvariantHolds, PTL

\* And about its offsite copy, in every offsite mode.
THEOREM OffsiteRecorded == Spec => []OffsiteRecordTrue
<1>1. IInv => OffsiteRecordTrue
  BY DEF IInv, RecordsTrue, RecordTrue, AtRest, RestSteps, OffsiteRecordTrue, Busy
<1>2. QED
  BY <1>1, InvariantHolds, PTL

-----------------------------------------------------------------------------
(* Only genuine copies pass: files that nobody touches while a job works on them *)

\* Whatever of the trees of i matches the manifest m is a copy of the verified core.
Genuine(i, m) ==
  /\ MirrorMatches(i, m) => mirror[i].genuine
  /\ OffsiteMatches(i, m) => offsite[i].genuine

\* What a job at this step has made sure of: its core artefacts are the verified ones,
\* the mirror is copied from them, and the copy from the mirror.
JobGenuine(step, i, m) ==
  /\ core[i] = "intact"
  /\ Genuine(i, m)
  /\ step \in {"mirrorSeal", "mirrorRecheck"} \cup AfterMirror => mirror[i].genuine
  /\ step = "offsiteSeal" => offsite[i].genuine

JobsGenuine ==
  \A t \in Threads :
    job[t].step # "idle" => JobGenuine(job[t].step, job[t].id, job[t].m)

GenuineInv == VerifiedIsGenuine /\ JobsGenuine

\* A tree of i that has changed is genuine, gone, or has a digest no record of i mentions.
Honest(old, new, i) ==
  \/ new.sha = old.sha /\ new.genuine = old.genuine
  \/ new.genuine
  \/ new.sha = NoSHA
  \/ new.sha \notin UsedSHA(i)

TreesHonest ==
  \A i \in Ids : Honest(mirror[i], mirror'[i], i) /\ Honest(offsite[i], offsite'[i], i)

\* No record of the point mentions a fresh digest.
LEMMA FreshIsUnused == \A i : \A d \in FreshSHA(i) : d \in SHA /\ d \notin UsedSHA(i)
  BY DEF FreshSHA

\* Honest changes make no altered tree match a manifest whose digests are in use.
LEMMA GenuineStays ==
  ASSUME NEW i \in Ids, NEW m, {m.mirrorSHA, m.offsiteSHA} \subseteq UsedSHA(i),
         TreesHonest, Genuine(i, m)
  PROVE  Genuine(i, m)'
  BY DEF TreesHonest, Honest, Genuine, MirrorMatches, OffsiteMatches

\* The records on disk stay genuine, if those that are written anew are.
LEMMA RecordsStayGenuine ==
  ASSUME VerifiedIsGenuine, TreesHonest,
         \A i \in Ids : \/ manifest'[i] = manifest[i]
                        \/ manifest'[i].file # "whole"
                        \/ Genuine(i, manifest[i])'
  PROVE  VerifiedIsGenuine'
<1> SUFFICES ASSUME NEW i \in Ids, manifest'[i].file = "whole", manifest'[i] = manifest[i]
             PROVE  Genuine(i, manifest[i])'
  BY DEF VerifiedIsGenuine, Genuine
<1>1. PICK m : m = manifest[i]
  OBVIOUS
<1>2. Genuine(i, m) /\ {m.mirrorSHA, m.offsiteSHA} \subseteq UsedSHA(i)
  BY <1>1 DEF VerifiedIsGenuine, Genuine, UsedSHA
<1>3. Genuine(i, m)'
  BY <1>2, GenuineStays
<1>4. QED
  BY <1>1, <1>3

\* What every step of a job starts from.
LEMMA BusyGenuine ==
  ASSUME IInv, GenuineInv, NEW t \in Threads, job[t].step # "idle"
  PROVE  \E i \in Ids, m \in Manifest :
           /\ i = job[t].id /\ m = job[t].m /\ JobGenuine(job[t].step, i, m)
           /\ {m.mirrorSHA, m.offsiteSHA} \subseteq UsedSHA(i)
  BY BusyJob DEF GenuineInv, JobsGenuine, UsedSHA

\* A job that moves on leaves its core artefacts alone, and makes sure of what its next
\* step requires.
LEMMA AdvanceKeepsGenuine ==
  ASSUME IInv, GenuineInv, NEW t \in Threads, NEW i \in Ids, job[t].id = i,
         job[t].step # "idle", NEW step, NEW m, GoToWith(t, step, m),
         TreesHonest,
         \A j \in Ids : \/ manifest'[j] = manifest[j]
                        \/ manifest'[j].file # "whole"
                        \/ Genuine(j, manifest[j])',
         JobGenuine(step, i, m)'
  PROVE  GenuineInv'
<1>0. job \in [Threads -> Job]
  BY DEF IInv, TypeOK
<1>1. /\ job'[t].step = step /\ job'[t].id = i /\ job'[t].m = m
      /\ \A u \in Threads \ {t} : job'[u] = job[u] /\ job[u].step = "idle"
  BY <1>0 DEF GoToWith, Job, IInv, MutualExclusion
<1>2. VerifiedIsGenuine'
  BY RecordsStayGenuine DEF GenuineInv
<1>3. JobsGenuine'
  <2> SUFFICES ASSUME NEW u \in Threads, job'[u].step # "idle"
               PROVE  JobGenuine(job[u].step, job[u].id, job[u].m)'
    BY DEF JobsGenuine
  <2>1. u = t
    BY <1>1
  <2>2. QED
    BY <2>1, <1>1 DEF JobGenuine, Genuine, MirrorMatches, OffsiteMatches
<1>4. QED
  BY <1>2, <1>3 DEF GenuineInv

\* A job that ends has only the records on disk to answer for.
LEMMA ReturnKeepsGenuine ==
  ASSUME IInv, GenuineInv, NEW t \in Threads, job[t].step # "idle", Return(t),
         TreesHonest,
         \A j \in Ids : \/ manifest'[j] = manifest[j]
                        \/ manifest'[j].file # "whole"
                        \/ Genuine(j, manifest[j])'
  PROVE  GenuineInv'
<1>1. VerifiedIsGenuine'
  BY RecordsStayGenuine DEF GenuineInv
<1>2. \A u \in Threads : job'[u].step = "idle"
  BY DEF IInv, TypeOK, MutualExclusion, Return, Idle
<1>3. QED
  BY <1>1, <1>2 DEF GenuineInv, JobsGenuine

\* An error return keeps the manifests, or removes one.
LEMMA ErrorReturnKeepsGenuine ==
  ASSUME IInv, GenuineInv, NEW t \in Threads, job[t].step # "idle", NEW purged,
         ErrorReturn(t, purged), TreesHonest
  PROVE  GenuineInv'
<1>1. \A j \in Ids : manifest'[j] = manifest[j] \/ manifest'[j].file # "whole"
  BY DEF IInv, TypeOK, ErrorReturn, NoManifest
<1>2. QED
  BY <1>1, ReturnKeepsGenuine DEF ErrorReturn

\* Trees that stay as they are, are honest.
LEMMA SameTreesHonest == UNCHANGED <<mirror, offsite>> => TreesHonest
  BY DEF TreesHonest, Honest

\* One tree of one point changes honestly.
LEMMA MirrorChangesHonestly ==
  ASSUME WorldOK, offsite' = offsite, NEW i \in Ids, NEW d, NEW g,
         mirror' = [mirror EXCEPT ![i] = [sha |-> d, genuine |-> g]],
         g \/ d = NoSHA \/ d \notin UsedSHA(i)
  PROVE  TreesHonest
  BY DEF WorldOK, TreesHonest, Honest

\* The same of the offsite copy of one point.
LEMMA OffsiteChangesHonestly ==
  ASSUME mirror' = mirror, NEW i \in Ids,
         \A j \in Ids \ {i} : offsite'[j] = offsite[j] \/ offsite'[j] = NoOffsite,
         Honest(offsite[i], offsite'[i], i)
  PROVE  TreesHonest
  BY DEF TreesHonest, Honest, NoOffsite

\* The gate reads a manifest whose matching trees are genuine.
LEMMA ReconcileGateGenuine ==
  ASSUME IInv, GenuineInv, NEW t \in Threads, ReconcileGate(t)
  PROVE  GenuineInv'
<1>1. job[t].step = "gate" /\ WorldOK /\ job \in [Threads -> Job]
  BY BusyJob DEF ReconcileGate, At
<1>2. PICK i \in Ids, m0 \in Manifest : i = job[t].id /\ JobGenuine(job[t].step, i, m0)
  BY <1>1, BusyGenuine
<1>3. UNCHANGED <<core, manifest, mirror, offsite>> /\ TreesHonest
  BY SameTreesHonest DEF ReconcileGate, disk
<1>4. CASE Trusted(i)
  <2>1. PICK m \in Manifest : m = manifest[i]
    BY <1>1 DEF WorldOK
  <2>2. GoToWith(t, "mirrorCheck", m)
    BY <1>2, <1>4, <2>1 DEF ReconcileGate
  <2>3. Genuine(i, m)
    BY <1>4, <2>1 DEF GenuineInv, VerifiedIsGenuine, Genuine, Trusted
  <2>4. JobGenuine("mirrorCheck", i, m)'
    BY <1>2, <1>3, <2>3
       DEF JobGenuine, Genuine, MirrorMatches, OffsiteMatches, AfterMirror
  <2>5. QED
    BY <1>1, <1>2, <1>3, <2>2, <2>4, AdvanceKeepsGenuine
<1>5. CASE ~Trusted(i)
  <2>1. Return(t)
    BY <1>2, <1>5 DEF ReconcileGate
  <2>2. QED
    BY <1>1, <1>3, <2>1, ReturnKeepsGenuine
<1>6. QED
  BY <1>4, <1>5

\* A mirror that passes the comparison is genuine; the rebuild begins with a digest that
\* nothing mentions.
LEMMA MirrorCheckGenuine ==
  ASSUME IInv, GenuineInv, NEW t \in Threads, MirrorCheck(t)
  PROVE  GenuineInv'
<1>1. job[t].step = "mirrorCheck" /\ WorldOK /\ job \in [Threads -> Job]
  BY BusyJob DEF MirrorCheck, At
<1>2. PICK i \in Ids, m \in Manifest :
        /\ i = job[t].id /\ m = job[t].m /\ JobGenuine("mirrorCheck", i, m)
        /\ {m.mirrorSHA, m.offsiteSHA} \subseteq UsedSHA(i)
  BY <1>1, BusyGenuine
<1>3. UNCHANGED <<core, manifest, offsite>>
  BY DEF MirrorCheck
<1>4. CASE MirrorMatches(i, m)
  <2>1. GoToWith(t, "offsiteCheck", m) /\ mirror' = mirror
    BY <1>1, <1>2, <1>4, GoToIsGoToWith DEF MirrorCheck
  <2>2. JobGenuine("offsiteCheck", i, m)'
    BY <1>2, <1>3, <1>4, <2>1 DEF JobGenuine, Genuine, MirrorMatches, OffsiteMatches
  <2>3. QED
    BY <1>1, <1>2, <1>3, <2>1, <2>2, SameTreesHonest, AdvanceKeepsGenuine
<1>5. CASE ~MirrorMatches(i, m)
  <2>1. GoToWith(t, "mirrorCopy", m)
    BY <1>1, <1>2, <1>5, GoToIsGoToWith DEF MirrorCheck
  <2>2. PICK d : /\ d \notin UsedSHA(i)
                 /\ mirror' = [mirror EXCEPT ![i] = [sha |-> d, genuine |-> FALSE]]
    BY <1>2, <1>5, FreshIsUnused DEF MirrorCheck, PartialTree
  <2>3. TreesHonest
    BY <1>1, <1>3, <2>2, MirrorChangesHonestly
  <2>4. Genuine(i, m)'
    BY <1>2, <2>3, GenuineStays DEF JobGenuine
  <2>5. JobGenuine("mirrorCopy", i, m)'
    BY <1>2, <1>3, <2>4 DEF JobGenuine, AfterMirror
  <2>6. QED
    BY <1>1, <1>2, <1>3, <2>1, <2>3, <2>5, AdvanceKeepsGenuine
<1>6. QED
  BY <1>4, <1>5

\* A mirror is copied from core artefacts that are still the verified ones.
LEMMA MirrorCopyGenuine ==
  ASSUME IInv, GenuineInv, NEW t \in Threads, MirrorCopy(t)
  PROVE  GenuineInv'
<1>1. job[t].step = "mirrorCopy" /\ WorldOK /\ job \in [Threads -> Job]
  BY BusyJob DEF MirrorCopy, At
<1>2. PICK i \in Ids, m \in Manifest :
        /\ i = job[t].id /\ m = job[t].m /\ JobGenuine("mirrorCopy", i, m)
        /\ {m.mirrorSHA, m.offsiteSHA} \subseteq UsedSHA(i)
  BY <1>1, BusyGenuine
<1>3. GoToWith(t, "mirrorSeal", m) /\ UNCHANGED <<core, manifest, offsite>>
  BY <1>1, <1>2, GoToIsGoToWith DEF MirrorCopy
<1>4. PICK d : mirror' = [mirror EXCEPT ![i] = [sha |-> d, genuine |-> TRUE]]
  BY <1>2 DEF MirrorCopy, JobGenuine
<1>5. TreesHonest
  BY <1>1, <1>3, <1>4, MirrorChangesHonestly
<1>6. Genuine(i, m)' /\ mirror'[i].genuine
  BY <1>1, <1>2, <1>4, <1>5, GenuineStays DEF JobGenuine, WorldOK
<1>7. JobGenuine("mirrorSeal", i, m)'
  BY <1>2, <1>3, <1>6 DEF JobGenuine
<1>8. QED
  BY <1>1, <1>2, <1>3, <1>5, <1>7, AdvanceKeepsGenuine

\* A mirror that could not be made is removed.
LEMMA MirrorFailGenuine ==
  ASSUME IInv, GenuineInv, NEW t \in Threads, MirrorFail(t)
  PROVE  GenuineInv'
<1>1. job[t].step = "mirrorCopy" /\ WorldOK
  BY BusyJob DEF MirrorFail, At
<1>2. PICK i \in Ids : i = job[t].id
  BY <1>1, BusyJob
<1>3. TreesHonest
  BY <1>1, <1>2, MirrorChangesHonestly DEF MirrorFail, NoTree
<1>4. QED
  BY <1>1, <1>3, ErrorReturnKeepsGenuine DEF MirrorFail

\* The digest that seals a mirror is that of a genuine one.
LEMMA MirrorSealGenuine ==
  ASSUME IInv, GenuineInv, NEW t \in Threads, MirrorSeal(t)
  PROVE  GenuineInv'
<1>1. job[t].step = "mirrorSeal" /\ WorldOK
  BY BusyJob DEF MirrorSeal, At
<1>2. PICK i \in Ids, m \in Manifest :
        i = job[t].id /\ m = job[t].m /\ JobGenuine("mirrorSeal", i, m)
  BY <1>1, BusyGenuine
<1>3. PICK n \in Manifest :
        n = [m EXCEPT !.mirrorSHA = mirror[i].sha, !.mirrorVerified = TRUE]
  BY <1>1 DEF Manifest, WorldOK, Tree
<1>4. PICK next \in {"offsiteCopy", "mirrorRecheck"} : GoToWith(t, next, n)
  BY <1>2, <1>3 DEF MirrorSeal
<1>5. UNCHANGED <<core, manifest, mirror, offsite>>
  BY DEF MirrorSeal, disk
<1>6. JobGenuine(next, i, n)'
  BY <1>2, <1>3, <1>5 DEF JobGenuine, Genuine, OffsiteMatches, Manifest
<1>7. QED
  BY <1>1, <1>2, <1>4, <1>5, <1>6, SameTreesHonest, AdvanceKeepsGenuine

\* The second comparison changes no tree.
LEMMA MirrorRecheckGenuine ==
  ASSUME IInv, GenuineInv, NEW t \in Threads, MirrorRecheck(t)
  PROVE  GenuineInv'
<1>1. job[t].step = "mirrorRecheck" /\ job \in [Threads -> Job]
  BY BusyJob DEF MirrorRecheck, At
<1>2. PICK i \in Ids, m \in Manifest :
        i = job[t].id /\ m = job[t].m /\ JobGenuine("mirrorRecheck", i, m)
  BY <1>1, BusyGenuine
<1>3. GoToWith(t, "offsiteCheck", m) /\ UNCHANGED <<core, manifest, mirror, offsite>>
  BY <1>1, <1>2, GoToIsGoToWith DEF MirrorRecheck, disk
<1>4. JobGenuine("offsiteCheck", i, m)'
  BY <1>2, <1>3 DEF JobGenuine, Genuine, MirrorMatches, OffsiteMatches
<1>5. QED
  BY <1>1, <1>2, <1>3, <1>4, SameTreesHonest, AdvanceKeepsGenuine

\* Nor does a mirror that went away.
LEMMA MirrorLostGenuine ==
  ASSUME IInv, GenuineInv, NEW t \in Threads, MirrorLost(t)
  PROVE  GenuineInv'
  BY SameTreesHonest, ErrorReturnKeepsGenuine DEF MirrorLost, At

\* Without a verified copy Create goes on with the genuine mirror.
LEMMA OffsiteUnverifiedGenuine ==
  ASSUME IInv, GenuineInv, NEW t \in Threads, job[t].step \in AfterMirror,
         NEW purged, OffsiteUnverified(t, purged), mirror' = mirror, TreesHonest
  PROVE  GenuineInv'
<1>1. job[t].step # "idle"
  BY DEF AfterMirror
<1>2. CASE job[t].kind = "create"
  <2>1. PICK i \in Ids, m \in Manifest :
          i = job[t].id /\ m = job[t].m /\ JobGenuine(job[t].step, i, m)
    BY <1>1, BusyGenuine
  <2>2. PICK n \in Manifest : n = WithOffsite(m, NoSHA, FALSE)
    BY DEF WithOffsite, Manifest, SHA0
  <2>3. GoToWith(t, "persist", n) /\ core' = core /\ manifest' = manifest
    BY <1>2, <2>1, <2>2 DEF OffsiteUnverified
  <2>4. JobGenuine("persist", i, n)'
    BY <2>1, <2>2, <2>3
       DEF JobGenuine, Genuine, MirrorMatches, OffsiteMatches, WithOffsite, Manifest
  <2>5. QED
    BY <1>1, <2>1, <2>3, <2>4, AdvanceKeepsGenuine
<1>3. CASE job[t].kind # "create"
  BY <1>1, <1>3, ErrorReturnKeepsGenuine DEF OffsiteUnverified
<1>4. QED
  BY <1>2, <1>3

\* The copy is kept, or removed, or not looked at.
LEMMA OffsiteCheckGenuine ==
  ASSUME IInv, GenuineInv, NEW t \in Threads, OffsiteCheck(t)
  PROVE  GenuineInv'
<1>1. job[t].step = "offsiteCheck" /\ WorldOK /\ job \in [Threads -> Job]
  BY BusyJob DEF OffsiteCheck, At
<1>2. PICK i \in Ids, m \in Manifest :
        /\ i = job[t].id /\ m = job[t].m /\ JobGenuine("offsiteCheck", i, m)
        /\ {m.mirrorSHA, m.offsiteSHA} \subseteq UsedSHA(i)
  BY <1>1, BusyGenuine
<1>3. UNCHANGED <<core, manifest, mirror>>
  BY DEF OffsiteCheck
<1>4. offsite' = offsite \/ offsite' = [offsite EXCEPT ![i] = NoOffsite]
  BY <1>2 DEF OffsiteCheck
<1>5. TreesHonest
  <2>1. CASE offsite' = offsite
    BY <1>3, <2>1, SameTreesHonest
  <2>2. CASE offsite' = [offsite EXCEPT ![i] = NoOffsite]
    BY <1>1, <1>3, <2>2, OffsiteChangesHonestly DEF WorldOK, Honest, NoOffsite
  <2>3. QED
    BY <1>4, <2>1, <2>2
<1>6. PICK next \in {"persist", "offsiteCopy"}, n \in {m, WithOffsite(m, NoSHA, FALSE)} :
        GoToWith(t, next, n)
  BY <1>1, <1>2, GoToIsGoToWith DEF OffsiteCheck
<1>7. JobGenuine(next, i, n)'
  <2>1. Genuine(i, m)'
    BY <1>2, <1>5, GenuineStays DEF JobGenuine
  <2>2. Genuine(i, n)'
    BY <1>2, <1>3, <2>1
       DEF JobGenuine, Genuine, MirrorMatches, OffsiteMatches, WithOffsite, Manifest, AfterMirror
  <2>3. QED
    BY <1>2, <1>3, <2>2 DEF JobGenuine, AfterMirror
<1>8. QED
  BY <1>1, <1>2, <1>3, <1>5, <1>6, <1>7, AdvanceKeepsGenuine

\* Failing to remove it changes nothing.
LEMMA OffsiteCleanupFailGenuine ==
  ASSUME IInv, GenuineInv, NEW t \in Threads, OffsiteCleanupFail(t)
  PROVE  GenuineInv'
  BY SameTreesHonest, ErrorReturnKeepsGenuine DEF OffsiteCleanupFail, At

\* Nor does a copy that has nowhere to go.
LEMMA OffsiteSkipGenuine ==
  ASSUME IInv, GenuineInv, NEW t \in Threads, OffsiteSkip(t)
  PROVE  GenuineInv'
  BY SameTreesHonest, OffsiteUnverifiedGenuine DEF OffsiteSkip, At, AfterMirror

\* rclone copies the genuine mirror.
LEMMA RcloneCopyGenuine ==
  ASSUME IInv, GenuineInv, NEW t \in Threads, RcloneCopy(t)
  PROVE  GenuineInv'
<1>1. job[t].step = "offsiteCopy" /\ WorldOK
  BY BusyJob DEF RcloneCopy, At
<1>2. PICK i \in Ids, m \in Manifest :
        i = job[t].id /\ m = job[t].m /\ JobGenuine("offsiteCopy", i, m)
  BY <1>1, BusyGenuine
<1>3. PICK n \in Manifest : n = WithOffsite(m, mirror[i].sha, TRUE)
  BY <1>1 DEF WithOffsite, Manifest, WorldOK, Tree
<1>4. GoToWith(t, "persist", n) /\ UNCHANGED <<core, manifest, mirror>>
  BY <1>2, <1>3 DEF RcloneCopy
<1>5. /\ offsite'[i].genuine
      /\ \A j \in Ids \ {i} : offsite'[j] = offsite[j]
  BY <1>1, <1>2 DEF RcloneCopy, WorldOK, JobGenuine, AfterMirror
<1>6. TreesHonest
  BY <1>4, <1>5, OffsiteChangesHonestly DEF Honest
<1>7. JobGenuine("persist", i, n)'
  BY <1>2, <1>4, <1>5 DEF JobGenuine, Genuine, AfterMirror
<1>8. QED
  BY <1>1, <1>2, <1>4, <1>6, <1>7, AdvanceKeepsGenuine

\* A copy that failed half way has a digest that nothing mentions.
LEMMA RcloneFailGenuine ==
  ASSUME IInv, GenuineInv, NEW t \in Threads, RcloneFail(t)
  PROVE  GenuineInv'
<1>1. job[t].step = "offsiteCopy" /\ WorldOK
  BY BusyJob DEF RcloneFail, At
<1>2. PICK i \in Ids : i = job[t].id
  BY <1>1, BusyJob
<1>3. TreesHonest
  <2>1. CASE offsite' = offsite
    BY <2>1, SameTreesHonest DEF RcloneFail
  <2>2. CASE offsite' # offsite
    <3>1. PICK d : /\ d \notin UsedSHA(i)
                   /\ offsite' = [offsite EXCEPT ![i].sha = d, ![i].genuine = FALSE]
      BY <1>2, <2>2, FreshIsUnused DEF RcloneFail
    <3>2. offsite'[i].sha = d /\ \A j \in Ids \ {i} : offsite'[j] = offsite[j]
      BY <1>1, <3>1 DEF WorldOK, OffsiteTree
    <3>3. QED
      BY <3>1, <3>2, OffsiteChangesHonestly DEF RcloneFail, Honest
  <2>3. QED
    BY <2>1, <2>2
<1>4. QED
  BY <1>1, <1>3, OffsiteUnverifiedGenuine DEF RcloneFail, AfterMirror

\* Retention removes copies whole, and the new copy begins with a digest that nothing
\* mentions.
LEMMA OffsiteCopyGenuine ==
  ASSUME IInv, GenuineInv, NEW t \in Threads, OffsiteCopy(t)
  PROVE  GenuineInv'
<1>1. job[t].step = "offsiteCopy" /\ WorldOK /\ job \in [Threads -> Job]
  BY BusyJob DEF OffsiteCopy, At
<1>2. PICK i \in Ids, m \in Manifest :
        /\ i = job[t].id /\ m = job[t].m /\ JobGenuine("offsiteCopy", i, m)
        /\ {m.mirrorSHA, m.offsiteSHA} \subseteq UsedSHA(i)
  BY <1>1, BusyGenuine
<1>3. PICK kept \in [Ids -> OffsiteTree] :
        kept = [j \in Ids |-> IF j \in Purged THEN NoOffsite ELSE offsite[j]]
  <2>1. NoOffsite \in OffsiteTree
    BY DEF NoOffsite, OffsiteTree, SHA0
  <2>2. QED
    BY <1>1, <2>1 DEF WorldOK
<1>4. mirror' = mirror /\ \A j \in Ids : kept[j] = offsite[j] \/ kept[j] = NoOffsite
  BY <1>3 DEF OffsiteCopy
<1>5. CASE i \in OffsiteDirs \ Purged
  <2>1. offsite' = kept /\ OffsiteUnverified(t, Purged)
    BY <1>2, <1>3, <1>5 DEF OffsiteCopy
  <2>2. TreesHonest
    BY <1>2, <1>4, <2>1, OffsiteChangesHonestly DEF Honest, NoOffsite
  <2>3. QED
    BY <1>1, <1>4, <2>1, <2>2, OffsiteUnverifiedGenuine DEF AfterMirror
<1>6. CASE ~(i \in OffsiteDirs \ Purged)
  <2>1. PICK d : d \notin UsedSHA(i) /\ offsite' = [kept EXCEPT ![i] = [NoOffsite EXCEPT !.sha = d]]
    BY <1>2, <1>3, <1>6, FreshIsUnused DEF OffsiteCopy
  <2>2. GoTo(t, "offsiteFill") /\ core' = core /\ manifest' = manifest
    BY <1>2, <1>6 DEF OffsiteCopy
  <2>3. TreesHonest
    <3>1. offsite'[i].sha = d /\ \A j \in Ids \ {i} : offsite'[j] = kept[j]
      BY <2>1 DEF NoOffsite
    <3>2. QED
      BY <1>4, <2>1, <3>1, OffsiteChangesHonestly DEF Honest
  <2>4. JobGenuine("offsiteFill", i, m)'
    BY <1>2, <1>4, <2>2, <2>3, GenuineStays DEF JobGenuine, AfterMirror
  <2>5. GoToWith(t, "offsiteFill", m)
    BY <1>1, <1>2, <2>2, GoToIsGoToWith
  <2>6. QED
    BY <1>1, <1>2, <2>2, <2>3, <2>4, <2>5, AdvanceKeepsGenuine
<1>7. QED
  BY <1>5, <1>6

\* The copy of a genuine mirror is genuine.
LEMMA OffsiteFillGenuine ==
  ASSUME IInv, GenuineInv, NEW t \in Threads, OffsiteFill(t)
  PROVE  GenuineInv'
<1>1. job[t].step = "offsiteFill" /\ WorldOK
  BY BusyJob DEF OffsiteFill, At
<1>2. PICK i \in Ids, m \in Manifest :
        i = job[t].id /\ m = job[t].m /\ JobGenuine("offsiteFill", i, m)
  BY <1>1, BusyGenuine
<1>3. PICK n \in Manifest : n = WithOffsite(m, mirror[i].sha, FALSE)
  BY <1>1 DEF WithOffsite, Manifest, WorldOK, Tree
<1>4. GoToWith(t, "offsiteSeal", n) /\ UNCHANGED <<core, manifest, mirror>>
  BY <1>2, <1>3 DEF OffsiteFill
<1>5. /\ offsite'[i].genuine
      /\ \A j \in Ids \ {i} : offsite'[j] = offsite[j]
  BY <1>1, <1>2 DEF OffsiteFill, WorldOK, JobGenuine, AfterMirror
<1>6. TreesHonest
  BY <1>4, <1>5, OffsiteChangesHonestly DEF Honest
<1>7. JobGenuine("offsiteSeal", i, n)'
  BY <1>2, <1>4, <1>5 DEF JobGenuine, Genuine, AfterMirror
<1>8. QED
  BY <1>1, <1>2, <1>4, <1>6, <1>7, AdvanceKeepsGenuine

\* A copy that could not be finished is removed, or stays as it was.
LEMMA OffsiteFillFailGenuine ==
  ASSUME IInv, GenuineInv, NEW t \in Threads, OffsiteFillFail(t)
  PROVE  GenuineInv'
<1>1. job[t].step = "offsiteFill" /\ WorldOK
  BY BusyJob DEF OffsiteFillFail, At
<1>2. PICK i \in Ids : i = job[t].id
  BY <1>1, BusyJob
<1>3. TreesHonest
  <2>1. CASE offsite' = offsite
    BY <2>1, SameTreesHonest DEF OffsiteFillFail
  <2>2. CASE offsite' = [offsite EXCEPT ![i] = NoOffsite]
    BY <1>1, <2>2, OffsiteChangesHonestly DEF OffsiteFillFail, WorldOK, Honest, NoOffsite
  <2>3. QED
    BY <1>2, <2>1, <2>2 DEF OffsiteFillFail
<1>4. QED
  BY <1>1, <1>3, OffsiteUnverifiedGenuine DEF OffsiteFillFail, AfterMirror

\* The copy that is sealed is a genuine one.
LEMMA OffsiteSealGenuine ==
  ASSUME IInv, GenuineInv, NEW t \in Threads, OffsiteSeal(t)
  PROVE  GenuineInv'
<1>1. job[t].step = "offsiteSeal" /\ WorldOK /\ mirror' = mirror
  BY BusyJob DEF OffsiteSeal, At
<1>2. PICK i \in Ids, m \in Manifest :
        i = job[t].id /\ m = job[t].m /\ JobGenuine("offsiteSeal", i, m)
  BY <1>1, BusyGenuine
<1>3. CASE offsite[i].sha = m.offsiteSHA
  <2>1. PICK n \in Manifest : n = WithOffsite(m, m.offsiteSHA, TRUE)
    BY DEF WithOffsite, Manifest
  <2>2. PICK next \in {"persist", "offsiteRecheck"} : GoToWith(t, next, n)
    BY <1>2, <1>3, <2>1 DEF OffsiteSeal
  <2>3. UNCHANGED <<core, manifest, offsite>>
    BY <1>2, <1>3 DEF OffsiteSeal
  <2>4. JobGenuine(next, i, n)'
    BY <1>1, <1>2, <2>3 DEF JobGenuine, Genuine, AfterMirror
  <2>5. QED
    BY <1>1, <1>2, <2>2, <2>3, <2>4, SameTreesHonest, AdvanceKeepsGenuine
<1>4. CASE offsite[i].sha # m.offsiteSHA
  <2>1. offsite' = [offsite EXCEPT ![i] = NoOffsite] /\ OffsiteUnverified(t, {})
    BY <1>2, <1>4 DEF OffsiteSeal
  <2>2. TreesHonest
    BY <1>1, <2>1, OffsiteChangesHonestly DEF WorldOK, Honest, NoOffsite
  <2>3. QED
    BY <1>1, <2>1, <2>2, OffsiteUnverifiedGenuine DEF AfterMirror
<1>5. QED
  BY <1>3, <1>4

\* The second digest of the copy changes no tree.
LEMMA OffsiteRecheckGenuine ==
  ASSUME IInv, GenuineInv, NEW t \in Threads, OffsiteRecheck(t)
  PROVE  GenuineInv'
<1>1. job[t].step = "offsiteRecheck" /\ job \in [Threads -> Job]
  BY BusyJob DEF OffsiteRecheck, At
<1>2. PICK i \in Ids, m \in Manifest :
        i = job[t].id /\ m = job[t].m /\ JobGenuine("offsiteRecheck", i, m)
  BY <1>1, BusyGenuine
<1>3. TreesHonest
  BY SameTreesHonest DEF OffsiteRecheck
<1>4. CASE offsite[i].sha = m.offsiteSHA
  <2>1. GoToWith(t, "persist", m) /\ UNCHANGED <<core, manifest, mirror, offsite>>
    BY <1>1, <1>2, <1>4, GoToIsGoToWith DEF OffsiteRecheck
  <2>2. JobGenuine("persist", i, m)'
    BY <1>2, <2>1 DEF JobGenuine, Genuine, MirrorMatches, OffsiteMatches, AfterMirror
  <2>3. QED
    BY <1>1, <1>2, <1>3, <2>1, <2>2, AdvanceKeepsGenuine
<1>5. CASE offsite[i].sha # m.offsiteSHA
  BY <1>1, <1>2, <1>3, <1>5, ErrorReturnKeepsGenuine DEF OffsiteRecheck
<1>6. QED
  BY <1>4, <1>5

\* A truncated manifest vouches for nothing.
LEMMA PersistGenuine ==
  ASSUME IInv, GenuineInv, NEW t \in Threads, Persist(t)
  PROVE  GenuineInv'
<1>1. job[t].step = "persist" /\ WorldOK /\ job \in [Threads -> Job]
  BY BusyJob DEF Persist, At
<1>2. PICK i \in Ids, m \in Manifest :
        i = job[t].id /\ m = job[t].m /\ JobGenuine("persist", i, m)
  BY <1>1, BusyGenuine
<1>3. GoToWith(t, "write", m) /\ UNCHANGED <<core, mirror, offsite>>
  BY <1>1, <1>2, GoToIsGoToWith DEF Persist
<1>4. \A j \in Ids : manifest'[j] = manifest[j] \/ manifest'[j].file # "whole"
  BY <1>1, <1>2 DEF Persist, WorldOK, Manifest
<1>5. JobGenuine("write", i, m)'
  BY <1>2, <1>3 DEF JobGenuine, Genuine, MirrorMatches, OffsiteMatches, AfterMirror
<1>6. QED
  BY <1>1, <1>2, <1>3, <1>4, <1>5, SameTreesHonest, AdvanceKeepsGenuine

\* The manifest that is written vouches for what the job has made sure of.
LEMMA WriteGenuine ==
  ASSUME IInv, GenuineInv, NEW t \in Threads, Write(t)
  PROVE  GenuineInv'
<1>1. job[t].step = "write" /\ WorldOK /\ job \in [Threads -> Job]
  BY BusyJob DEF Write, At
<1>2. PICK i \in Ids, m \in Manifest :
        i = job[t].id /\ m = job[t].m /\ JobGenuine("write", i, m)
  BY <1>1, BusyGenuine
<1>3. UNCHANGED <<core, mirror, offsite>>
  BY DEF Write
<1>4. manifest' = [manifest EXCEPT ![i] = [m EXCEPT !.file = "whole"]]
  BY <1>2 DEF Write
<1>5. Genuine(i, manifest[i])'
  BY <1>1, <1>2, <1>3, <1>4
     DEF JobGenuine, Genuine, MirrorMatches, OffsiteMatches, WorldOK, Manifest
<1>6. \A j \in Ids : manifest'[j] = manifest[j] \/ Genuine(j, manifest[j])'
  <2> SUFFICES ASSUME NEW j \in Ids, j # i PROVE manifest'[j] = manifest[j]
    BY <1>5
  <2>1. QED
    BY <1>1, <1>4 DEF WorldOK
<1>7. CASE job[t].kind = "create"
  <2>1. Return(t)
    BY <1>7 DEF Write
  <2>2. QED
    BY <1>1, <1>3, <1>6, <2>1, SameTreesHonest, ReturnKeepsGenuine
<1>8. CASE job[t].kind # "create"
  <2>1. GoToWith(t, "finalGate", m)
    BY <1>1, <1>2, <1>8, GoToIsGoToWith DEF Write
  <2>2. JobGenuine("finalGate", i, m)'
    BY <1>2, <1>3 DEF JobGenuine, Genuine, MirrorMatches, OffsiteMatches, AfterMirror
  <2>3. QED
    BY <1>1, <1>2, <1>3, <1>6, <2>1, <2>2, SameTreesHonest, AdvanceKeepsGenuine
<1>9. QED
  BY <1>7, <1>8

\* A failed write, and the final gate, change no tree and write no manifest.
LEMMA LastStepsGenuine ==
  ASSUME IInv, GenuineInv, NEW t \in Threads,
         WriteFail(t) \/ FinalGate(t) \/ FinalGateFail(t)
  PROVE  GenuineInv'
<1>1. CASE WriteFail(t)
  BY <1>1, SameTreesHonest, ErrorReturnKeepsGenuine DEF WriteFail, At
<1>2. CASE FinalGate(t)
  <2>1. job[t].step # "idle" /\ Return(t) /\ UNCHANGED <<manifest, mirror, offsite>>
    BY <1>2 DEF FinalGate, At, disk
  <2>2. QED
    BY <2>1, SameTreesHonest, ReturnKeepsGenuine
<1>3. CASE FinalGateFail(t)
  BY <1>3, SameTreesHonest, ErrorReturnKeepsGenuine DEF FinalGateFail, At
<1>4. QED
  BY <1>1, <1>2, <1>3

\* A job that begins has verified core artefacts, and has read no manifest yet.
LEMMA BeginKeepsGenuine ==
  ASSUME IInv, GenuineInv, NEW t \in Threads, mu = Nobody, NEW i \in Ids,
         NEW step \in {"gate", "mirrorCopy"}, NEW kind,
         job' = [job EXCEPT ![t] =
                   [step |-> step, kind |-> kind, id |-> i, m |-> NoManifest]],
         manifest' = manifest, TreesHonest, core'[i] = "intact"
  PROVE  GenuineInv'
<1>0. job \in [Threads -> Job] /\ \A u \in Threads : job[u].step = "idle"
  BY ChainAssumption DEF IInv, TypeOK, MutualExclusion
<1>1. VerifiedIsGenuine'
  BY RecordsStayGenuine DEF GenuineInv
<1>2. Genuine(i, NoManifest)'
  BY DEF Genuine, MirrorMatches, OffsiteMatches, NoManifest
<1>3. JobGenuine(step, i, NoManifest)'
  BY <1>2 DEF JobGenuine, AfterMirror
<1>4. JobsGenuine'
  <2> SUFFICES ASSUME NEW u \in Threads, job'[u].step # "idle"
               PROVE  JobGenuine(job[u].step, job[u].id, job[u].m)'
    BY DEF JobsGenuine
  <2>1. u = t
    BY <1>0
  <2>2. job'[t].step = step /\ job'[t].id = i /\ job'[t].m = NoManifest
    BY <1>0
  <2>3. QED
    BY <1>3, <2>1, <2>2 DEF JobGenuine, Genuine, MirrorMatches, OffsiteMatches
<1>5. QED
  BY <1>1, <1>4 DEF GenuineInv

\* A new point is made of what was just dumped.
LEMMA CreateBeginGenuine ==
  ASSUME IInv, GenuineInv, NEW t \in Clients, CreateBegin(t)
  PROVE  GenuineInv'
<1>1. t \in Threads /\ WorldOK /\ mu = Nobody /\ nextId <= MaxId
  BY TypeSplit DEF IInv, Threads, CreateBegin, CreateBeginUnlocked
<1>2. nextId \in Ids
  BY <1>1, ChainAssumption DEF WorldOK, Ids
<1>3. PICK d : /\ d \notin UsedSHA(nextId)
               /\ mirror' = [mirror EXCEPT ![nextId] = [sha |-> d, genuine |-> FALSE]]
  BY FreshIsUnused DEF CreateBegin, CreateBeginUnlocked, PartialTree
<1>4. TreesHonest
  BY <1>1, <1>2, <1>3, MirrorChangesHonestly DEF CreateBegin, CreateBeginUnlocked
<1>5. core'[nextId] = "intact" /\ manifest' = manifest
  BY <1>1, <1>2 DEF WorldOK, CreateBegin, CreateBeginUnlocked
<1>6. job' = [job EXCEPT ![t] = [step |-> "mirrorCopy", kind |-> "create",
                                 id |-> nextId, m |-> NoManifest]]
  BY DEF CreateBegin, CreateBeginUnlocked
<1>7. QED
  BY <1>1, <1>2, <1>4, <1>5, <1>6, BeginKeepsGenuine

\* A reconciliation begins with a trusted point.
LEMMA ReconcileBeginGenuine ==
  ASSUME IInv, GenuineInv, ReconcileBegin(Guardian)
  PROVE  GenuineInv'
<1>1. Guardian \in Threads /\ mu = Nobody
  BY DEF Threads, ReconcileBegin
<1>2. PICK i \in TrustedIds :
        job' = [job EXCEPT ![Guardian] =
                  [step |-> "gate", kind |-> "reconcile", id |-> i, m |-> NoManifest]]
  BY DEF ReconcileBegin
<1>3. i \in Ids /\ core[i] = "intact" /\ UNCHANGED <<core, manifest, mirror, offsite>>
  BY DEF TrustedIds, Trusted, ReconcileBegin, disk
<1>4. QED
  BY <1>1, <1>2, <1>3, SameTreesHonest, BeginKeepsGenuine

\* As long as nobody touches the files of a point that a job works on, damage elsewhere
\* leaves every digest that a record mentions behind.
LEMMA EnvironmentGenuine ==
  ASSUME TamperBusy = FALSE, IInv, GenuineInv, NEW i \in Ids,
         DamageCore(i) \/ DamageMirror(i) \/ DamageOffsite(i) \/ Expire(i)
  PROVE  GenuineInv'
<1>1. WorldOK /\ job' = job /\ manifest' = manifest
  BY TypeSplit DEF IInv, DamageCore, DamageMirror, DamageOffsite, Expire
<1>2. TreesHonest
  <2>1. CASE DamageCore(i)
    BY <2>1, SameTreesHonest DEF DamageCore
  <2>2. CASE DamageMirror(i)
    <3>1. PICK d : /\ d = NoSHA \/ d \notin UsedSHA(i)
                   /\ mirror' = [mirror EXCEPT ![i] = [sha |-> d, genuine |-> FALSE]]
      BY <2>2, FreshIsUnused DEF DamageMirror
    <3>2. QED
      BY <1>1, <2>2, <3>1, MirrorChangesHonestly DEF DamageMirror
  <2>3. CASE DamageOffsite(i)
    <3>1. CASE offsite' = [offsite EXCEPT ![i] = NoOffsite]
      BY <1>1, <2>3, <3>1, OffsiteChangesHonestly
         DEF DamageOffsite, WorldOK, Honest, NoOffsite
    <3>2. CASE offsite' # [offsite EXCEPT ![i] = NoOffsite]
      <4>1. PICK d : /\ d \notin UsedSHA(i)
                     /\ offsite' = [offsite EXCEPT ![i].sha = d, ![i].genuine = FALSE]
        BY <2>3, <3>2, FreshIsUnused DEF DamageOffsite
      <4>2. offsite'[i].sha = d /\ \A j \in Ids \ {i} : offsite'[j] = offsite[j]
        BY <1>1, <4>1 DEF WorldOK, OffsiteTree
      <4>3. QED
        BY <2>3, <4>1, <4>2, OffsiteChangesHonestly DEF DamageOffsite, Honest
    <3>3. QED
      BY <3>1, <3>2
  <2>4. CASE Expire(i)
    <3>1. /\ offsite'[i].sha = offsite[i].sha /\ offsite'[i].genuine = offsite[i].genuine
          /\ \A j \in Ids \ {i} : offsite'[j] = offsite[j]
      BY <1>1, <2>4 DEF Expire, WorldOK, OffsiteTree
    <3>2. QED
      BY <2>4, <3>1, OffsiteChangesHonestly DEF Expire, Honest
  <2>5. QED
    BY <2>1, <2>2, <2>3, <2>4
<1>3. VerifiedIsGenuine'
  BY <1>1, <1>2, RecordsStayGenuine DEF GenuineInv
<1>4. JobsGenuine'
  <2> SUFFICES ASSUME NEW t \in Threads, job[t].step # "idle"
               PROVE  JobGenuine(job[t].step, job[t].id, job[t].m)'
    BY <1>1 DEF JobsGenuine
  <2>1. PICK k \in Ids, m \in Manifest :
          /\ k = job[t].id /\ m = job[t].m /\ JobGenuine(job[t].step, k, m)
    BY BusyGenuine
  <2>2. Busy(k)
    BY <2>1 DEF Busy
  <2>3. core'[k] = core[k] /\ mirror'[k] = mirror[k]
    BY <1>1, <2>1, <2>2
       DEF DamageCore, DamageMirror, DamageOffsite, Expire, MayTamper, WorldOK
  <2>4. offsite'[k].sha = offsite[k].sha /\ offsite'[k].genuine = offsite[k].genuine
    <3>1. CASE Expire(i)
      BY <1>1, <3>1 DEF Expire, WorldOK, OffsiteTree
    <3>2. CASE DamageOffsite(i)
      <4>1. i # k /\ offsite'[k] = offsite[k]
        BY <1>1, <2>2, <3>2 DEF DamageOffsite, MayTamper, WorldOK
      <4>2. QED
        BY <4>1
    <3>3. QED
      BY <3>1, <3>2 DEF DamageCore, DamageMirror
  <2>5. QED
    BY <1>1, <2>1, <2>3, <2>4 DEF JobGenuine, Genuine, MirrorMatches, OffsiteMatches
<1>5. QED
  BY <1>3, <1>4 DEF GenuineInv

\* A crash ends every job and leaves the disk as it is.
LEMMA CrashGenuine ==
  ASSUME GenuineInv, Crash
  PROVE  GenuineInv'
<1>1. VerifiedIsGenuine'
  BY DEF GenuineInv, Crash, disk, VerifiedIsGenuine, MirrorMatches, OffsiteMatches
<1>2. JobsGenuine'
  BY DEF Crash, Idle, JobsGenuine
<1>3. QED
  BY <1>1, <1>2 DEF GenuineInv

\* Every step keeps what the jobs have made sure of.
LEMMA NextGenuine ==
  ASSUME TamperBusy = FALSE, IInv, GenuineInv, [Next]_vars
  PROVE  GenuineInv'
<1>1. ASSUME NEW t \in Clients, CreateBegin(t) PROVE GenuineInv'
  BY <1>1, CreateBeginGenuine
<1>2. CASE ReconcileBegin(Guardian)
  BY <1>2, ReconcileBeginGenuine
<1>3. ASSUME NEW t \in Threads, JobStep(t) PROVE GenuineInv'
  BY <1>3, ReconcileGateGenuine, MirrorCheckGenuine, MirrorCopyGenuine, MirrorFailGenuine,
     MirrorSealGenuine, MirrorRecheckGenuine, MirrorLostGenuine, OffsiteCheckGenuine,
     OffsiteCleanupFailGenuine, OffsiteSkipGenuine, RcloneCopyGenuine, RcloneFailGenuine,
     OffsiteCopyGenuine, OffsiteFillGenuine, OffsiteFillFailGenuine, OffsiteSealGenuine,
     OffsiteRecheckGenuine, PersistGenuine, WriteGenuine, LastStepsGenuine
     DEF JobStep
<1>4. CASE Environment
  BY <1>4, EnvironmentGenuine, CrashGenuine DEF Environment
<1>5. CASE UNCHANGED vars
  BY <1>5
     DEF GenuineInv, VerifiedIsGenuine, JobsGenuine, JobGenuine, Genuine, MirrorMatches,
         OffsiteMatches, vars, disk
<1>6. QED
  BY <1>1, <1>2, <1>3, <1>4, <1>5 DEF Next

\* A mirror or offsite copy that passes its digest comparison is a copy of the verified
\* core artefacts, after any number of crashes, failures and repairs, if the files of a
\* point stay as they are while a job works on it.
THEOREM PassingTreesAreGenuine ==
  ASSUME TamperBusy = FALSE
  PROVE  Spec => []VerifiedIsGenuine
<1>1. Init => GenuineInv
  BY DEF Init, GenuineInv, VerifiedIsGenuine, JobsGenuine, NoManifest, Idle
<1>2. IInv /\ GenuineInv /\ [Next]_vars => GenuineInv'
  BY NextGenuine
<1>3. GenuineInv => VerifiedIsGenuine
  BY DEF GenuineInv
<1>4. QED
  BY <1>1, <1>2, <1>3, InvariantHolds, PTL DEF Spec

-----------------------------------------------------------------------------
(* A verified offsite copy stays recorded, unless it is on an rclone remote *)

\* What a job of this kind knows of its point at this step: Create has recorded no copy
\* yet, and reconciliation gets as far as the manifest only with a verified one.
JobKept(step, kind, i, m) ==
  /\ i < nextId
  /\ kind = "create" => ~manifest[i].offsiteVerified /\ step # "finalGate"
  /\ step = "offsiteFill" => OffsiteMode = "filesystem"
  /\ (kind = "reconcile" /\ OffsiteMode = "filesystem" /\ step \in {"persist", "write"})
       => m.offsiteVerified

Unborn == \A i \in Ids : i >= nextId => manifest[i] = NoManifest

NoCopies == OffsiteMode = "none" => \A i \in Ids : offsite[i].sha = NoSHA

JobsKept ==
  \A t \in Threads :
    job[t].step # "idle" => JobKept(job[t].step, job[t].kind, job[t].id, job[t].m)

KeptInv == Unborn /\ NoCopies /\ JobsKept

\* Without a destination no copy appears.
CopiesStay ==
  OffsiteMode = "none" =>
    \A i \in Ids : offsite'[i].sha = offsite[i].sha \/ offsite'[i].sha = NoSHA

\* What every step of a job starts from.
LEMMA BusyKept ==
  ASSUME IInv, KeptInv, NEW t \in Threads, job[t].step # "idle"
  PROVE  \E i \in Ids, m \in Manifest, kind \in {"create", "reconcile"} :
           /\ i = job[t].id /\ m = job[t].m /\ kind = job[t].kind
           /\ JobKept(job[t].step, kind, i, m)
           /\ Known(job[t].step, i, m)
<1>1. job[t] \in Job
  BY DEF IInv, TypeOK
<1>2. JobKept(job[t].step, job[t].kind, job[t].id, job[t].m)
  BY DEF KeptInv, JobsKept
<1>3. QED
  BY <1>1, <1>2, BusyJob DEF Job

\* A job that moves on writes no manifest but that of its point, and Create none that
\* records a copy.
LEMMA AdvanceKeepsKept ==
  ASSUME IInv, KeptInv, NEW t \in Threads, NEW i \in Ids, job[t].id = i,
         job[t].step # "idle", NEW step, NEW m, GoToWith(t, step, m),
         nextId' = nextId, CopiesStay,
         \A j \in Ids \ {i} : manifest'[j] = manifest[j],
         manifest'[i].offsiteVerified = manifest[i].offsiteVerified
           \/ job[t].kind = "reconcile",
         JobKept(step, job[t].kind, i, m)
  PROVE  KeptInv'
<1>0. job \in [Threads -> Job] /\ nextId \in Nat
  BY ChainAssumption DEF IInv, TypeOK
<1>1. /\ job'[t].step = step /\ job'[t].id = i /\ job'[t].m = m
      /\ job'[t].kind = job[t].kind
      /\ \A u \in Threads \ {t} : job'[u] = job[u] /\ job[u].step = "idle"
  BY <1>0 DEF GoToWith, Job, IInv, MutualExclusion
<1>2. job[t].kind \in {"create", "reconcile"}
  BY <1>0 DEF Job
<1>3. Unborn'
  BY <1>0 DEF KeptInv, Unborn, JobKept, Ids
<1>4. NoCopies'
  BY DEF KeptInv, NoCopies, CopiesStay
<1>5. JobsKept'
  <2> SUFFICES ASSUME NEW u \in Threads, job'[u].step # "idle"
               PROVE  JobKept(job[u].step, job[u].kind, job[u].id, job[u].m)'
    BY DEF JobsKept
  <2>1. u = t
    BY <1>1
  <2>2. QED
    BY <2>1, <1>1, <1>2 DEF JobKept
<1>6. QED
  BY <1>3, <1>4, <1>5 DEF KeptInv

\* A job that ends writes no manifest but that of its point.
LEMMA ReturnKeepsKept ==
  ASSUME IInv, KeptInv, NEW t \in Threads, NEW i \in Ids, job[t].id = i,
         job[t].step # "idle", Return(t), nextId' = nextId, CopiesStay,
         \A j \in Ids \ {i} : manifest'[j] = manifest[j]
  PROVE  KeptInv'
<1>0. nextId \in Nat /\ i < nextId
  BY ChainAssumption DEF IInv, TypeOK, KeptInv, JobsKept, JobKept
<1>1. Unborn'
  BY <1>0 DEF KeptInv, Unborn, Ids
<1>2. NoCopies'
  BY DEF KeptInv, NoCopies, CopiesStay
<1>3. \A u \in Threads : job'[u].step = "idle"
  BY DEF IInv, TypeOK, MutualExclusion, Return, Idle
<1>4. QED
  BY <1>1, <1>2, <1>3 DEF KeptInv, JobsKept

\* An error return removes the manifest of its point, at most.
LEMMA ErrorReturnKeepsKept ==
  ASSUME IInv, KeptInv, NEW t \in Threads, job[t].step # "idle", NEW purged,
         ErrorReturn(t, purged), CopiesStay
  PROVE  KeptInv'
<1>1. PICK i \in Ids : i = job[t].id
  BY BusyJob
<1>2. \A j \in Ids \ {i} : manifest'[j] = manifest[j]
  BY <1>1 DEF IInv, TypeOK, ErrorReturn
<1>3. Return(t) /\ nextId' = nextId
  BY DEF ErrorReturn
<1>4. QED
  BY <1>1, <1>2, <1>3, ReturnKeepsKept

\* Create goes on without a copy; reconciliation does not.
LEMMA OffsiteUnverifiedKept ==
  ASSUME IInv, KeptInv, NEW t \in Threads, job[t].step # "idle", NEW purged,
         OffsiteUnverified(t, purged), CopiesStay
  PROVE  KeptInv'
<1>1. CASE job[t].kind = "create"
  <2>1. PICK i \in Ids, m \in Manifest :
          /\ i = job[t].id /\ m = job[t].m /\ JobKept(job[t].step, "create", i, m)
    BY <1>1, BusyKept
  <2>2. PICK n : n = WithOffsite(m, NoSHA, FALSE)
    OBVIOUS
  <2>3. GoToWith(t, "persist", n) /\ nextId' = nextId /\ manifest' = manifest
    BY <1>1, <2>1, <2>2 DEF OffsiteUnverified
  <2>4. JobKept("persist", job[t].kind, i, n)
    BY <1>1, <2>1 DEF JobKept
  <2>5. QED
    BY <2>1, <2>3, <2>4, AdvanceKeepsKept
<1>2. CASE job[t].kind # "create"
  BY <1>2, ErrorReturnKeepsKept DEF OffsiteUnverified
<1>3. QED
  BY <1>1, <1>2

\* The steps on the mirror: nothing is claimed of the offsite copy.
LEMMA MirrorStepsKept ==
  ASSUME IInv, KeptInv, NEW t \in Threads,
         \/ ReconcileGate(t) \/ MirrorCheck(t) \/ MirrorCopy(t) \/ MirrorFail(t)
         \/ MirrorSeal(t) \/ MirrorRecheck(t) \/ MirrorLost(t)
  PROVE  KeptInv'
<1>1. job[t].step # "idle" /\ job \in [Threads -> Job] /\ offsite' = offsite
  <2>1. job[t].step # "idle" /\ offsite' = offsite
    BY DEF ReconcileGate, MirrorCheck, MirrorCopy, MirrorFail, MirrorSeal, MirrorRecheck,
           MirrorLost, At, disk
  <2>2. QED
    BY <2>1 DEF IInv, TypeOK
<1>2. PICK i \in Ids, m \in Manifest, kind \in {"create", "reconcile"} :
        /\ i = job[t].id /\ m = job[t].m /\ kind = job[t].kind
        /\ JobKept(job[t].step, kind, i, m)
  BY <1>1, BusyKept
<1>3. CopiesStay
  BY <1>1 DEF CopiesStay
<1>4. CASE MirrorFail(t) \/ MirrorLost(t)
  BY <1>1, <1>3, <1>4, ErrorReturnKeepsKept DEF MirrorFail, MirrorLost
<1>5. CASE ReconcileGate(t) /\ ~Trusted(i)
  <2>1. Return(t) /\ nextId' = nextId /\ manifest' = manifest
    BY <1>2, <1>5 DEF ReconcileGate, disk
  <2>2. QED
    BY <1>1, <1>2, <1>3, <2>1, ReturnKeepsKept
<1>6. CASE \/ ReconcileGate(t) /\ Trusted(i)
           \/ MirrorCheck(t) \/ MirrorCopy(t) \/ MirrorSeal(t) \/ MirrorRecheck(t)
  <2>1. nextId' = nextId /\ manifest' = manifest
    BY <1>6
       DEF ReconcileGate, MirrorCheck, MirrorCopy, MirrorSeal, MirrorRecheck, disk
  <2>2. PICK step \in {"mirrorCheck", "mirrorCopy", "mirrorSeal", "mirrorRecheck",
                       "offsiteCheck", "offsiteCopy"} :
          \E n : GoToWith(t, step, n)
    <3>1. CASE ReconcileGate(t) /\ Trusted(i)
      BY <1>2, <3>1 DEF ReconcileGate
    <3>2. CASE MirrorCheck(t)
      BY <1>1, <3>2, GoToIsGoToWith DEF MirrorCheck
    <3>3. CASE MirrorCopy(t)
      BY <1>1, <3>3, GoToIsGoToWith DEF MirrorCopy
    <3>4. CASE MirrorSeal(t)
      BY <3>4 DEF MirrorSeal
    <3>5. CASE MirrorRecheck(t)
      BY <1>1, <3>5, GoToIsGoToWith DEF MirrorRecheck
    <3>6. QED
      BY <1>6, <3>1, <3>2, <3>3, <3>4, <3>5
  <2>3. PICK n : GoToWith(t, step, n)
    BY <2>2
  <2>4. JobKept(step, job[t].kind, i, n)
    BY <1>2 DEF JobKept
  <2>5. QED
    BY <1>1, <1>2, <1>3, <2>1, <2>3, <2>4, AdvanceKeepsKept
<1>7. QED
  BY <1>4, <1>5, <1>6

\* Reconciliation passes over the copy only when it is verified, or without a root.
LEMMA OffsiteCheckKept ==
  ASSUME IInv, KeptInv, NEW t \in Threads, OffsiteCheck(t)
  PROVE  KeptInv'
<1>1. job[t].step = "offsiteCheck" /\ WorldOK /\ job \in [Threads -> Job]
  BY BusyJob DEF OffsiteCheck, At
<1>2. PICK i \in Ids, m \in Manifest, kind \in {"create", "reconcile"} :
        /\ i = job[t].id /\ m = job[t].m /\ kind = job[t].kind
        /\ JobKept(job[t].step, kind, i, m)
  BY <1>1, BusyKept
<1>3. nextId' = nextId /\ manifest' = manifest
  BY DEF OffsiteCheck
<1>4. CASE OffsiteMode # "filesystem"
  <2>1. PICK n : n = WithOffsite(m, NoSHA, FALSE) /\ GoToWith(t, "persist", n)
    BY <1>2, <1>4 DEF OffsiteCheck
  <2>2. JobKept("persist", job[t].kind, i, n)
    BY <1>2, <1>4 DEF JobKept
  <2>3. CopiesStay
    BY <1>4 DEF OffsiteCheck, CopiesStay
  <2>4. QED
    BY <1>1, <1>2, <1>3, <2>1, <2>2, <2>3, AdvanceKeepsKept
<1>5. CASE OffsiteMode = "filesystem"
  <2>1. PICK step \in {"persist", "offsiteCopy"} :
          GoToWith(t, step, m) /\ (step = "persist" => OffsiteMatches(i, m))
    BY <1>1, <1>2, <1>5, GoToIsGoToWith DEF OffsiteCheck
  <2>2. JobKept(step, job[t].kind, i, m)
    BY <1>2, <2>1 DEF JobKept, OffsiteMatches
  <2>3. CopiesStay
    BY <1>5 DEF CopiesStay
  <2>4. QED
    BY <1>1, <1>2, <1>3, <2>1, <2>2, <2>3, AdvanceKeepsKept
<1>6. QED
  BY <1>4, <1>5

\* The failures on the way to a copy.
LEMMA OffsiteFailuresKept ==
  ASSUME IInv, KeptInv, NEW t \in Threads,
         OffsiteCleanupFail(t) \/ OffsiteSkip(t) \/ RcloneFail(t) \/ OffsiteFillFail(t)
  PROVE  KeptInv'
<1>1. CASE OffsiteCleanupFail(t)
  BY <1>1, ErrorReturnKeepsKept DEF OffsiteCleanupFail, At, CopiesStay
<1>2. CASE OffsiteSkip(t)
  BY <1>2, OffsiteUnverifiedKept DEF OffsiteSkip, At, CopiesStay
<1>3. CASE RcloneFail(t)
  BY <1>3, OffsiteUnverifiedKept DEF RcloneFail, At, CopiesStay
<1>4. CASE OffsiteFillFail(t)
  <2>1. job[t].step = "offsiteFill"
    BY <1>4 DEF OffsiteFillFail, At
  <2>2. CopiesStay
    BY <2>1, BusyKept DEF JobKept, CopiesStay
  <2>3. QED
    BY <1>4, <2>1, <2>2, OffsiteUnverifiedKept DEF OffsiteFillFail
<1>5. QED
  BY <1>1, <1>2, <1>3, <1>4

\* rclone is used by Create only: reconciliation gets to a copy with a root configured.
LEMMA RcloneCopyKept ==
  ASSUME IInv, KeptInv, NEW t \in Threads, RcloneCopy(t)
  PROVE  KeptInv'
<1>1. job[t].step = "offsiteCopy" /\ OffsiteMode = "rclone"
  BY DEF RcloneCopy, At
<1>2. PICK i \in Ids, m \in Manifest, kind \in {"create", "reconcile"} :
        /\ i = job[t].id /\ m = job[t].m /\ kind = job[t].kind
        /\ JobKept(job[t].step, kind, i, m)
  BY <1>1, BusyKept
<1>3. PICK n : GoToWith(t, "persist", n)
  BY DEF RcloneCopy
<1>4. nextId' = nextId /\ manifest' = manifest /\ CopiesStay
  BY <1>1 DEF RcloneCopy, CopiesStay
<1>5. JobKept("persist", job[t].kind, i, n)
  BY <1>1, <1>2 DEF JobKept
<1>6. QED
  BY <1>1, <1>2, <1>3, <1>4, <1>5, AdvanceKeepsKept

\* A copy below the root begins.
LEMMA OffsiteCopyKept ==
  ASSUME IInv, KeptInv, NEW t \in Threads, OffsiteCopy(t)
  PROVE  KeptInv'
<1>1. /\ job[t].step = "offsiteCopy" /\ OffsiteMode = "filesystem"
      /\ job \in [Threads -> Job]
  BY BusyJob DEF OffsiteCopy, At
<1>2. PICK i \in Ids, m \in Manifest, kind \in {"create", "reconcile"} :
        /\ i = job[t].id /\ m = job[t].m /\ kind = job[t].kind
        /\ JobKept(job[t].step, kind, i, m)
  BY <1>1, BusyKept
<1>3. CopiesStay
  BY <1>1 DEF CopiesStay
<1>4. CASE i \in OffsiteDirs \ Purged
  <2>1. OffsiteUnverified(t, Purged)
    BY <1>2, <1>4 DEF OffsiteCopy
  <2>2. QED
    BY <1>1, <1>3, <2>1, OffsiteUnverifiedKept
<1>5. CASE ~(i \in OffsiteDirs \ Purged)
  <2>1. GoTo(t, "offsiteFill") /\ nextId' = nextId /\ manifest' = manifest
    BY <1>2, <1>5 DEF OffsiteCopy
  <2>2. GoToWith(t, "offsiteFill", m)
    BY <1>1, <1>2, <2>1, GoToIsGoToWith
  <2>3. JobKept("offsiteFill", job[t].kind, i, m)
    BY <1>1, <1>2 DEF JobKept
  <2>4. QED
    BY <1>1, <1>2, <1>3, <2>1, <2>2, <2>3, AdvanceKeepsKept
<1>6. QED
  BY <1>4, <1>5

\* The copy is made, read back and read again; only a verified one leads to the manifest.
LEMMA OffsiteBuildKept ==
  ASSUME IInv, KeptInv, NEW t \in Threads,
         OffsiteFill(t) \/ OffsiteSeal(t) \/ OffsiteRecheck(t)
  PROVE  KeptInv'
<1>1. job[t].step # "idle" /\ job \in [Threads -> Job]
  <2>1. job[t].step # "idle"
    BY DEF OffsiteFill, OffsiteSeal, OffsiteRecheck, At
  <2>2. QED
    BY <2>1 DEF IInv, TypeOK
<1>2. PICK i \in Ids, m \in Manifest, kind \in {"create", "reconcile"} :
        /\ i = job[t].id /\ m = job[t].m /\ kind = job[t].kind
        /\ JobKept(job[t].step, kind, i, m) /\ Known(job[t].step, i, m)
  BY <1>1, BusyKept
<1>3. CASE OffsiteFill(t)
  <2>1. PICK n : GoToWith(t, "offsiteSeal", n)
    BY <1>3 DEF OffsiteFill
  <2>2. nextId' = nextId /\ manifest' = manifest
    BY <1>3 DEF OffsiteFill
  <2>3. CopiesStay /\ JobKept("offsiteSeal", job[t].kind, i, n)
    BY <1>2, <1>3 DEF OffsiteFill, At, JobKept, CopiesStay
  <2>4. QED
    BY <1>1, <1>2, <2>1, <2>2, <2>3, AdvanceKeepsKept
<1>4. CASE OffsiteSeal(t) /\ offsite[i].sha = m.offsiteSHA
  <2>1. PICK n \in Manifest : n = WithOffsite(m, m.offsiteSHA, TRUE)
    BY DEF WithOffsite, Manifest
  <2>2. GoToWith(t, IF kind = "create" THEN "persist" ELSE "offsiteRecheck", n)
    BY <1>2, <1>4, <2>1 DEF OffsiteSeal
  <2>3. nextId' = nextId /\ manifest' = manifest /\ CopiesStay
    BY <1>2, <1>4 DEF OffsiteSeal, CopiesStay
  <2>4. JobKept(IF kind = "create" THEN "persist" ELSE "offsiteRecheck", job[t].kind, i, n)
    BY <1>2 DEF JobKept
  <2>5. QED
    BY <1>1, <1>2, <2>2, <2>3, <2>4, AdvanceKeepsKept
<1>5. CASE OffsiteSeal(t) /\ offsite[i].sha # m.offsiteSHA
  <2>1. offsite' = [offsite EXCEPT ![i] = NoOffsite] /\ OffsiteUnverified(t, {})
    BY <1>2, <1>5 DEF OffsiteSeal
  <2>2. CopiesStay
    BY <2>1 DEF CopiesStay, IInv, TypeOK, NoOffsite
  <2>3. QED
    BY <1>1, <2>1, <2>2, OffsiteUnverifiedKept
<1>6. CASE OffsiteRecheck(t) /\ offsite[i].sha = m.offsiteSHA
  <2>1. GoToWith(t, "persist", m)
    BY <1>1, <1>2, <1>6, GoToIsGoToWith DEF OffsiteRecheck
  <2>2. nextId' = nextId /\ manifest' = manifest /\ CopiesStay
    BY <1>2, <1>6 DEF OffsiteRecheck, CopiesStay
  <2>3. JobKept("persist", job[t].kind, i, m)
    BY <1>2, <1>6 DEF OffsiteRecheck, At, JobKept, Known, OffsiteKnown
  <2>4. QED
    BY <1>1, <1>2, <2>1, <2>2, <2>3, AdvanceKeepsKept
<1>7. CASE OffsiteRecheck(t) /\ offsite[i].sha # m.offsiteSHA
  BY <1>1, <1>2, <1>7, ErrorReturnKeepsKept DEF OffsiteRecheck, CopiesStay
<1>8. QED
  BY <1>3, <1>4, <1>5, <1>6, <1>7

\* The truncation says nothing new, and what is written is the job's.
LEMMA ManifestStepsKept ==
  ASSUME IInv, KeptInv, NEW t \in Threads,
         Persist(t) \/ Write(t) \/ WriteFail(t) \/ FinalGate(t) \/ FinalGateFail(t)
  PROVE  KeptInv'
<1>1. job[t].step # "idle" /\ job \in [Threads -> Job] /\ manifest \in [Ids -> Manifest]
  <2>1. job[t].step # "idle"
    BY DEF Persist, Write, WriteFail, FinalGate, FinalGateFail, At
  <2>2. QED
    BY <2>1 DEF IInv, TypeOK
<1>2. PICK i \in Ids, m \in Manifest, kind \in {"create", "reconcile"} :
        /\ i = job[t].id /\ m = job[t].m /\ kind = job[t].kind
        /\ JobKept(job[t].step, kind, i, m)
  BY <1>1, BusyKept
<1>3. CASE Persist(t)
  <2>1. GoToWith(t, "write", m)
    BY <1>1, <1>2, <1>3, GoToIsGoToWith DEF Persist
  <2>2. nextId' = nextId /\ CopiesStay
    BY <1>3 DEF Persist, CopiesStay
  <2>3. /\ \A j \in Ids \ {i} : manifest'[j] = manifest[j]
        /\ manifest'[i].offsiteVerified = manifest[i].offsiteVerified
    BY <1>1, <1>2, <1>3 DEF Persist, Manifest
  <2>4. JobKept("write", job[t].kind, i, m)
    BY <1>2, <1>3 DEF Persist, At, JobKept
  <2>5. QED
    BY <1>1, <1>2, <2>1, <2>2, <2>3, <2>4, AdvanceKeepsKept
<1>4. CASE Write(t)
  <2>1. nextId' = nextId /\ CopiesStay
    BY <1>4 DEF Write, CopiesStay
  <2>2. \A j \in Ids \ {i} : manifest'[j] = manifest[j]
    BY <1>1, <1>2, <1>4 DEF Write
  <2>3. CASE kind = "create"
    BY <1>1, <1>2, <1>4, <2>1, <2>2, <2>3, ReturnKeepsKept DEF Write
  <2>4. CASE kind = "reconcile"
    <3>1. GoToWith(t, "finalGate", m)
      BY <1>1, <1>2, <1>4, <2>4, GoToIsGoToWith DEF Write
    <3>2. JobKept("finalGate", job[t].kind, i, m)
      BY <1>2, <2>4 DEF JobKept
    <3>3. QED
      BY <1>1, <1>2, <2>1, <2>2, <2>4, <3>1, <3>2, AdvanceKeepsKept
  <2>5. QED
    BY <2>3, <2>4
<1>5. CASE WriteFail(t) \/ FinalGateFail(t)
  <2>1. CopiesStay
    BY <1>5 DEF WriteFail, FinalGateFail, CopiesStay
  <2>2. QED
    BY <1>1, <1>5, <2>1, ErrorReturnKeepsKept DEF WriteFail, FinalGateFail
<1>6. CASE FinalGate(t)
  <2>1. Return(t) /\ nextId' = nextId /\ CopiesStay /\ manifest' = manifest
    BY <1>6 DEF FinalGate, CopiesStay, disk
  <2>2. QED
    BY <1>1, <1>2, <2>1, ReturnKeepsKept
<1>7. QED
  BY <1>3, <1>4, <1>5, <1>6

\* A new point has no manifest, and its id is behind nextId from then on.
LEMMA CreateBeginKept ==
  ASSUME IInv, KeptInv, NEW t \in Clients, CreateBegin(t)
  PROVE  KeptInv'
<1>1. t \in Threads /\ job \in [Threads -> Job] /\ nextId \in Nat /\ nextId <= MaxId
  BY ChainAssumption DEF IInv, TypeOK, Threads, CreateBegin, CreateBeginUnlocked
<1>2. nextId \in Ids /\ \A u \in Threads : job[u].step = "idle"
  BY <1>1, ChainAssumption
     DEF IInv, TypeOK, MutualExclusion, Ids, CreateBegin
<1>3. /\ nextId' = nextId + 1 /\ manifest' = manifest /\ offsite' = offsite
      /\ job' = [job EXCEPT ![t] = [step |-> "mirrorCopy", kind |-> "create",
                                    id |-> nextId, m |-> NoManifest]]
  BY DEF CreateBegin, CreateBeginUnlocked
<1>4. Unborn' /\ NoCopies'
  BY <1>1, <1>3 DEF KeptInv, Unborn, NoCopies, Ids
<1>5. manifest[nextId].offsiteVerified = FALSE
  BY <1>1, <1>2 DEF KeptInv, Unborn, NoManifest
<1>6. JobsKept'
  <2> SUFFICES ASSUME NEW u \in Threads, job'[u].step # "idle"
               PROVE  JobKept(job[u].step, job[u].kind, job[u].id, job[u].m)'
    BY DEF JobsKept
  <2>1. u = t
    BY <1>1, <1>2, <1>3
  <2>2. job'[t].step = "mirrorCopy" /\ job'[t].kind = "create" /\ job'[t].id = nextId
    BY <1>1, <1>3
  <2>3. QED
    BY <1>1, <1>3, <1>5, <2>1, <2>2 DEF JobKept
<1>7. QED
  BY <1>4, <1>6 DEF KeptInv

\* A reconciliation begins with a point that has a manifest.
LEMMA ReconcileBeginKept ==
  ASSUME IInv, KeptInv, ReconcileBegin(Guardian)
  PROVE  KeptInv'
<1>1. Guardian \in Threads /\ job \in [Threads -> Job] /\ nextId \in Nat
  BY ChainAssumption DEF IInv, TypeOK, Threads
<1>2. \A u \in Threads : job[u].step = "idle"
  BY ChainAssumption DEF IInv, MutualExclusion, ReconcileBegin
<1>3. PICK i \in TrustedIds :
        job' = [job EXCEPT ![Guardian] =
                  [step |-> "gate", kind |-> "reconcile", id |-> i, m |-> NoManifest]]
  BY DEF ReconcileBegin
<1>4. UNCHANGED <<nextId, manifest, offsite>>
  BY DEF ReconcileBegin, disk
<1>5. i < nextId
  BY <1>1 DEF KeptInv, Unborn, TrustedIds, Trusted, NoManifest, Ids
<1>6. Unborn' /\ NoCopies'
  BY <1>4 DEF KeptInv, Unborn, NoCopies
<1>7. JobsKept'
  <2> SUFFICES ASSUME NEW u \in Threads, job'[u].step # "idle"
               PROVE  JobKept(job[u].step, job[u].kind, job[u].id, job[u].m)'
    BY DEF JobsKept
  <2>1. u = Guardian
    BY <1>1, <1>2, <1>3
  <2>2. job'[u].step = "gate" /\ job'[u].kind = "reconcile" /\ job'[u].id = i
    BY <1>1, <1>3, <2>1
  <2>3. QED
    BY <1>4, <1>5, <2>2 DEF JobKept
<1>8. QED
  BY <1>6, <1>7 DEF KeptInv

\* Damage removes copies and makes none; a crash ends the jobs.
LEMMA EnvironmentKept ==
  ASSUME IInv, KeptInv, Environment
  PROVE  KeptInv'
<1>1. nextId' = nextId /\ manifest' = manifest
  BY DEF Environment, DamageCore, DamageMirror, DamageOffsite, Expire, Crash, disk
<1>2. CopiesStay
  <2> SUFFICES ASSUME KeptInv, OffsiteMode = "none", NEW j \in Ids
               PROVE  offsite'[j].sha = NoSHA
    BY DEF CopiesStay
  <2>1. \A i \in Ids : offsite[i].sha = NoSHA
    BY DEF KeptInv, NoCopies
  <2>2. offsite' = offsite \/ \E i \in Ids : Expire(i)
    BY <2>1 DEF Environment, DamageCore, DamageMirror, DamageOffsite, Crash, disk
  <2>3. CASE offsite' = offsite
    BY <2>1, <2>3
  <2>4. ASSUME NEW i \in Ids, Expire(i) PROVE offsite'[j].sha = NoSHA
    BY <2>1, <2>4 DEF Expire, IInv, TypeOK, OffsiteTree
  <2>5. QED
    BY <2>2, <2>3, <2>4
<1>3. Unborn' /\ NoCopies'
  BY <1>1, <1>2 DEF KeptInv, Unborn, NoCopies, CopiesStay
<1>4. JobsKept'
  <2>1. CASE job' = job
    BY <1>1, <2>1 DEF KeptInv, JobsKept, JobKept
  <2>2. CASE Crash
    BY <2>2 DEF Crash, Idle, JobsKept
  <2>3. QED
    BY <2>1, <2>2 DEF Environment, DamageCore, DamageMirror, DamageOffsite, Expire
<1>5. QED
  BY <1>3, <1>4 DEF KeptInv

\* Every step keeps it.
LEMMA NextKept ==
  ASSUME IInv, KeptInv, [Next]_vars
  PROVE  KeptInv'
<1>1. ASSUME NEW t \in Clients, CreateBegin(t) PROVE KeptInv'
  BY <1>1, CreateBeginKept
<1>2. CASE ReconcileBegin(Guardian)
  BY <1>2, ReconcileBeginKept
<1>3. ASSUME NEW t \in Threads, JobStep(t) PROVE KeptInv'
  BY <1>3, MirrorStepsKept, OffsiteCheckKept, OffsiteFailuresKept, RcloneCopyKept,
     OffsiteCopyKept, OffsiteBuildKept, ManifestStepsKept
     DEF JobStep
<1>4. CASE Environment
  BY <1>4, EnvironmentKept
<1>5. CASE UNCHANGED vars
  BY <1>5 DEF KeptInv, Unborn, NoCopies, JobsKept, JobKept, vars, disk
<1>6. QED
  BY <1>1, <1>2, <1>3, <1>4, <1>5 DEF Next

\* It holds in every reachable state, in every offsite mode.
LEMMA KeptHolds == Spec => []KeptInv
<1>1. Init => KeptInv
  BY DEF Init, KeptInv, Unborn, NoCopies, JobsKept, NoOffsite, Idle
<1>2. IInv /\ KeptInv /\ [Next]_vars => KeptInv'
  BY NextKept
<1>3. QED
  BY <1>1, <1>2, InvariantHolds, PTL DEF Spec

\* The only steps that change a manifest.
LEMMA ManifestChanges ==
  ASSUME NEW t \in Threads, JobStep(t), manifest' # manifest
  PROVE  \/ Persist(t) \/ Write(t)
         \/ job[t].step # "idle" /\ \E purged : ErrorReturn(t, purged)
<1>1. CASE \/ ReconcileGate(t) \/ MirrorCheck(t) \/ MirrorCopy(t) \/ MirrorSeal(t)
           \/ MirrorRecheck(t) \/ OffsiteCheck(t) \/ RcloneCopy(t) \/ OffsiteFill(t)
           \/ FinalGate(t)
  BY <1>1
     DEF ReconcileGate, MirrorCheck, MirrorCopy, MirrorSeal, MirrorRecheck, OffsiteCheck,
         RcloneCopy, OffsiteFill, FinalGate, disk
<1>2. CASE MirrorFail(t) \/ MirrorLost(t) \/ OffsiteCleanupFail(t) \/ WriteFail(t)
           \/ FinalGateFail(t)
  BY <1>2 DEF MirrorFail, MirrorLost, OffsiteCleanupFail, WriteFail, FinalGateFail, At
<1>3. ASSUME NEW purged, OffsiteUnverified(t, purged)
      PROVE  ErrorReturn(t, purged)
  BY <1>3 DEF OffsiteUnverified
<1>4. CASE \/ OffsiteSkip(t) \/ RcloneFail(t) \/ OffsiteCopy(t) \/ OffsiteFillFail(t)
           \/ OffsiteSeal(t)
  <2>1. job[t].step # "idle"
    BY <1>4 DEF OffsiteSkip, RcloneFail, OffsiteCopy, OffsiteFillFail, OffsiteSeal, At
  <2>2. \E purged : OffsiteUnverified(t, purged)
    BY <1>4 DEF OffsiteSkip, RcloneFail, OffsiteCopy, OffsiteFillFail, OffsiteSeal
  <2>3. QED
    BY <1>3, <2>1, <2>2
<1>5. CASE OffsiteRecheck(t)
  BY <1>5 DEF OffsiteRecheck, At
<1>6. QED
  BY <1>1, <1>2, <1>4, <1>5 DEF JobStep

\* A step of a job takes no record of a matching copy away.
LEMMA JobStepKeepsCopy ==
  ASSUME OffsiteMode # "rclone", IInv, KeptInv, NEW t \in Threads, JobStep(t),
         NEW i \in Ids, OffsiteMatches(i, manifest[i])
  PROVE  manifest'[i].offsiteVerified
<1>1. manifest[i].offsiteVerified /\ OffsiteMode = "filesystem"
  BY ChainAssumption DEF OffsiteMatches, KeptInv, NoCopies
<1>2. manifest \in [Ids -> Manifest]
  BY DEF IInv, TypeOK
<1>3. CASE manifest' = manifest
  BY <1>1, <1>3
<1>4. CASE Persist(t)
  BY <1>1, <1>2, <1>4 DEF Persist, Manifest
<1>5. CASE Write(t)
  <2>1. PICK k \in Ids, m \in Manifest, kind \in {"create", "reconcile"} :
          /\ k = job[t].id /\ m = job[t].m /\ kind = job[t].kind
          /\ JobKept("write", kind, k, m)
    BY <1>5, BusyKept DEF Write, At
  <2>2. manifest' = [manifest EXCEPT ![k] = [m EXCEPT !.file = "whole"]]
    BY <1>5, <2>1 DEF Write
  <2>3. CASE i = k
    BY <1>1, <1>2, <2>1, <2>2, <2>3 DEF JobKept, Manifest
  <2>4. CASE i # k
    BY <1>1, <1>2, <2>2, <2>4
  <2>5. QED
    BY <2>3, <2>4
<1>6. ASSUME NEW purged, ErrorReturn(t, purged), job[t].step # "idle"
      PROVE  manifest'[i].offsiteVerified
  <2>1. PICK k \in Ids : k = job[t].id /\ JobKept(job[t].step, job[t].kind, k, job[t].m)
    BY <1>6, BusyKept
  <2>2. CASE job[t].kind = "create"
    <3>1. i # k
      BY <1>1, <2>1, <2>2 DEF JobKept
    <3>2. manifest' = [manifest EXCEPT ![k] = NoManifest]
      BY <1>6, <2>1, <2>2 DEF ErrorReturn
    <3>3. QED
      BY <1>1, <1>2, <3>1, <3>2
  <2>3. CASE job[t].kind # "create"
    BY <1>1, <1>6, <2>3 DEF ErrorReturn
  <2>4. QED
    BY <2>2, <2>3
<1>7. QED
  BY <1>3, <1>4, <1>5, <1>6, ManifestChanges

\* No reconciliation, backup, failure or crash takes the record of an intact offsite copy
\* away, unless the copy is on an rclone remote (which reconciliation overlooks).
THEOREM VerifiedCopyStaysRecorded ==
  ASSUME OffsiteMode # "rclone"
  PROVE  Spec => VerifiedOffsiteKept
<1>1. ASSUME IInv, KeptInv, [Next]_vars, NEW i \in Ids, OffsiteMatches(i, manifest[i])
      PROVE  manifest'[i].offsiteVerified
  <2>1. CASE manifest' = manifest
    BY <1>1, <2>1 DEF OffsiteMatches
  <2>2. ASSUME NEW t \in Threads, JobStep(t)
        PROVE  manifest'[i].offsiteVerified
    BY <1>1, <2>2, JobStepKeepsCopy
  <2>3. manifest' = manifest \/ \E t \in Threads : JobStep(t)
    BY <1>1
       DEF Next, Environment, CreateBegin, CreateBeginUnlocked, ReconcileBegin, DamageCore,
           DamageMirror, DamageOffsite, Expire, Crash, vars, disk
  <2>4. QED
    BY <2>1, <2>2, <2>3
<1>2. IInv /\ KeptInv /\ [Next]_vars =>
        [\A i \in Ids : OffsiteMatches(i, manifest[i]) /\ core[i] = "intact"
                          => manifest'[i].offsiteVerified]_vars
  BY <1>1
<1>3. QED
  BY <1>2, InvariantHolds, KeptHolds, PTL DEF Spec, VerifiedOffsiteKept

-----------------------------------------------------------------------------
(* Retention *)

\* A set of naturals that is not empty has a least element.
LEMMA Least ==
  ASSUME NEW T \in SUBSET Nat, T # {}
  PROVE  \E n \in T : \A k \in T : n <= k
<1> DEFINE Less == OpToRel(<, Nat)
<1>1. IsWellFoundedOn(Less, Nat)
  BY NatLessThanWellFounded
<1>2. \A x, y \in Nat : <<x, y>> \in Less <=> x < y
  BY DEF OpToRel
<1> HIDE DEF Less
<1>3. PICK n \in T : \A k \in T : ~(<<k, n>> \in Less)
  BY <1>1, WFMin
<1>4. \A k \in T : ~(k < n)
  BY <1>2, <1>3
<1>5. QED
  BY <1>4

\* A set of points that is not empty has a newest one.
LEMMA Newest ==
  ASSUME NEW S \in SUBSET Ids, S # {}
  PROVE  \E m \in S : \A k \in S : k <= m
<1> DEFINE T == {n \in Nat : \E k \in S : n = MaxId - k}
<1>1. T \in SUBSET Nat /\ T # {}
  <2>1. PICK k \in S : TRUE
    OBVIOUS
  <2>2. MaxId - k \in T
    BY ChainAssumption DEF Ids
  <2>3. QED
    BY <2>2
<1>2. PICK n \in T : \A k \in T : n <= k
  BY <1>1, Least
<1>3. PICK m \in S : n = MaxId - m
  BY <1>2
<1>4. \A k \in S : MaxId - m <= MaxId - k
  BY <1>2, <1>3, ChainAssumption DEF Ids
<1>5. QED
  BY <1>3, <1>4, ChainAssumption DEF Ids

\* The steps of a job that change the offsite tree of another point.
LEMMA OtherCopiesStay ==
  ASSUME IInv, NEW t \in Threads, JobStep(t), ~OffsiteCopy(t),
         NEW i \in Ids, i # job[t].id
  PROVE  offsite'[i] = offsite[i]
<1>1. CASE \/ ReconcileGate(t) \/ MirrorCheck(t) \/ MirrorCopy(t) \/ MirrorFail(t)
           \/ MirrorSeal(t) \/ MirrorRecheck(t) \/ MirrorLost(t) \/ OffsiteCleanupFail(t)
           \/ OffsiteSkip(t) \/ OffsiteRecheck(t) \/ Persist(t) \/ Write(t) \/ WriteFail(t)
           \/ FinalGate(t) \/ FinalGateFail(t)
  BY <1>1
     DEF ReconcileGate, MirrorCheck, MirrorCopy, MirrorFail, MirrorSeal, MirrorRecheck,
         MirrorLost, OffsiteCleanupFail, OffsiteSkip, OffsiteRecheck, Persist, Write,
         WriteFail, FinalGate, FinalGateFail, disk
<1>2. CASE \/ OffsiteCheck(t) \/ RcloneCopy(t) \/ RcloneFail(t) \/ OffsiteFill(t)
           \/ OffsiteFillFail(t) \/ OffsiteSeal(t)
  BY <1>2
     DEF OffsiteCheck, RcloneCopy, RcloneFail, OffsiteFill, OffsiteFillFail, OffsiteSeal,
         IInv, TypeOK
<1>3. QED
  BY <1>1, <1>2 DEF JobStep

\* Whatever retention removes on behalf of one point was expired, and a newer directory
\* stays behind: the newest directory under the root survives every clean-up.
THEOREM NewestCopySurvives == Spec => RetentionSparesNewest
<1>1. ASSUME IInv, [Next]_vars, job' # job, NEW i \in Ids, ~Busy(i),
             i \in OffsiteDirs, i \notin OffsiteDirs'
      PROVE  /\ offsite[i].retention = "expired"
             /\ \E j \in OffsiteDirs \cap OffsiteDirs' : j > i
  <2>1. \E t \in Threads : JobStep(t)
    BY <1>1
       DEF Next, Environment, CreateBegin, CreateBeginUnlocked, ReconcileBegin, DamageCore,
           DamageMirror, DamageOffsite, Expire, Crash, vars, disk, OffsiteDirs
  <2>2. PICK t \in Threads : JobStep(t)
    BY <2>1
  <2>3. job[t].step # "idle"
    BY <2>2
       DEF JobStep, ReconcileGate, MirrorCheck, MirrorCopy, MirrorFail, MirrorSeal,
           MirrorRecheck, MirrorLost, OffsiteCheck, OffsiteCleanupFail, OffsiteSkip,
           RcloneCopy, RcloneFail, OffsiteCopy, OffsiteFill, OffsiteFillFail, OffsiteSeal,
           OffsiteRecheck, Persist, Write, WriteFail, FinalGate, FinalGateFail, At
  <2>4. i # job[t].id
    BY <1>1, <2>3 DEF Busy
  <2>5. OffsiteCopy(t)
    BY <1>1, <2>2, <2>4, OtherCopiesStay DEF OffsiteDirs
  <2>6. PICK k \in Ids : k = job[t].id
    BY <1>1, <2>3, BusyJob
  <2>7. PICK kept : kept = [j \in Ids |-> IF j \in Purged THEN NoOffsite ELSE offsite[j]]
    OBVIOUS
  <2>8. \/ offsite' = kept
        \/ \E d \in SHA : offsite' = [kept EXCEPT ![k] = [NoOffsite EXCEPT !.sha = d]]
    BY <2>5, <2>6, <2>7, FreshIsSHA DEF OffsiteCopy
  <2>9. \A j \in Ids : \/ offsite'[j] = kept[j]
                       \/ j = k /\ offsite'[j].sha # NoSHA
    BY <2>7, <2>8, ChainAssumption DEF NoOffsite
  <2>10. i \in Purged
    BY <1>1, <2>4, <2>6, <2>7, <2>9 DEF OffsiteDirs
  <2>11. PICK j \in OffsiteDirs : \A l \in OffsiteDirs : l <= j
    BY <1>1, Newest DEF OffsiteDirs
  <2>12. j > i
    BY <2>10, <2>11 DEF Purged, OffsiteDirs, Ids
  <2>13. j \notin Purged
    BY <2>11 DEF Purged, OffsiteDirs, Ids
  <2>14. j \in OffsiteDirs'
    BY <2>7, <2>9, <2>11, <2>13 DEF OffsiteDirs
  <2>15. QED
    BY <2>10, <2>11, <2>12, <2>14 DEF Purged
<1>2. IInv /\ [Next]_vars =>
        [\A i \in Ids :
           job' # job /\ ~Busy(i) /\ i \in OffsiteDirs /\ i \notin OffsiteDirs'
             => /\ offsite[i].retention = "expired"
                /\ \E j \in OffsiteDirs \cap OffsiteDirs' : j > i]_vars
  BY <1>1
<1>3. QED
  BY <1>2, InvariantHolds, PTL DEF Spec, RetentionSparesNewest

-----------------------------------------------------------------------------
(* The status request *)

\* What the event store has to do with the reconciliations that ran.
ReconInv ==
  /\ \A i \in Ids : reconEvent[i] = "success" => i \in reconciled
  /\ \A t \in Threads :
       job[t].step = "finalGate" => job[t].kind = "reconcile" /\ job[t].id \in reconciled

\* How a step of a job leaves that job: ended, or at a later step, of which the final
\* gate is reached by writing the manifest.
LEMMA JobStepMoves ==
  ASSUME IInv, NEW t \in Threads, JobStep(t)
  PROVE  /\ job[t].step # "idle"
         /\ \A u \in Threads \ {t} : job'[u] = job[u] /\ job[u].step = "idle"
         /\ \/ job'[t].step = "idle" /\ ~(Write(t) /\ job[t].kind = "reconcile")
            \/ /\ job'[t].id = job[t].id /\ job'[t].kind = job[t].kind
               /\ job'[t].step # "idle" /\ job[t].step # "finalGate"
               /\ job'[t].step = "finalGate" => Write(t) /\ job[t].kind = "reconcile"
<1>0. job \in [Threads -> Job]
  BY DEF IInv, TypeOK
<1>1. job[t].step # "idle"
  BY DEF JobStep, ReconcileGate, MirrorCheck, MirrorCopy, MirrorFail, MirrorSeal,
         MirrorRecheck, MirrorLost, OffsiteCheck, OffsiteCleanupFail, OffsiteSkip,
         RcloneCopy, RcloneFail, OffsiteCopy, OffsiteFill, OffsiteFillFail, OffsiteSeal,
         OffsiteRecheck, Persist, Write, WriteFail, FinalGate, FinalGateFail, At
<1> DEFINE Onward(step) == \E m : GoToWith(t, step, m)
           Middle == {"mirrorCheck", "mirrorCopy", "mirrorSeal", "mirrorRecheck",
                      "offsiteCheck", "offsiteCopy", "offsiteFill", "offsiteSeal",
                      "offsiteRecheck", "persist", "write"}
<1>2. ASSUME NEW step, GoTo(t, step) PROVE Onward(step)
  BY <1>0, <1>2, GoToIsGoToWith
<1>3. ASSUME NEW purged, OffsiteUnverified(t, purged)
      PROVE  Return(t) \/ Onward("persist")
  BY <1>3 DEF OffsiteUnverified, ErrorReturn
<1>4. \/ Return(t) /\ ~(Write(t) /\ job[t].kind = "reconcile")
      \/ job[t].step # "finalGate" /\ \E step \in Middle : Onward(step)
      \/ Write(t) /\ job[t].kind = "reconcile" /\ Onward("finalGate")
  <2>1. CASE \/ ReconcileGate(t) \/ MirrorCheck(t) \/ MirrorCopy(t) \/ MirrorSeal(t)
             \/ MirrorRecheck(t)
    BY <1>2, <2>1
       DEF ReconcileGate, MirrorCheck, MirrorCopy, MirrorSeal, MirrorRecheck, At, Write
  <2>2. CASE OffsiteCheck(t) \/ RcloneCopy(t) \/ OffsiteFill(t) \/ Persist(t)
    BY <1>2, <2>2 DEF OffsiteCheck, RcloneCopy, OffsiteFill, Persist, At
  <2>3. CASE \/ OffsiteSkip(t) \/ RcloneFail(t) \/ OffsiteCopy(t) \/ OffsiteFillFail(t)
             \/ OffsiteSeal(t)
    <3>1. job[t].step \in {"offsiteCopy", "offsiteFill", "offsiteSeal"}
      BY <2>3 DEF OffsiteSkip, RcloneFail, OffsiteCopy, OffsiteFillFail, OffsiteSeal, At
    <3>2. Return(t) \/ \E step \in Middle : Onward(step)
      <4>1. CASE \E purged : OffsiteUnverified(t, purged)
        BY <1>3, <4>1
      <4>2. CASE OffsiteCopy(t) /\ GoTo(t, "offsiteFill")
        BY <1>2, <4>2
      <4>3. CASE OffsiteSeal(t) /\ ~\E purged : OffsiteUnverified(t, purged)
        BY <4>3 DEF OffsiteSeal
      <4>4. QED
        BY <2>3, <4>1, <4>2, <4>3
           DEF OffsiteSkip, RcloneFail, OffsiteCopy, OffsiteFillFail
    <3>3. QED
      BY <3>1, <3>2 DEF Write, At
  <2>4. CASE OffsiteRecheck(t)
    BY <1>2, <2>4 DEF OffsiteRecheck, ErrorReturn, At, Write
  <2>5. CASE \/ MirrorFail(t) \/ MirrorLost(t) \/ OffsiteCleanupFail(t)
             \/ FinalGate(t) \/ FinalGateFail(t)
    BY <2>5
       DEF MirrorFail, MirrorLost, OffsiteCleanupFail, FinalGate, FinalGateFail,
           ErrorReturn, At, Write
  <2>6. CASE Write(t)
    <3>1. job[t].kind \in {"create", "reconcile"}
      BY <1>0 DEF Job
    <3>2. QED
      BY <1>2, <2>6, <3>1 DEF Write
  <2>7. CASE WriteFail(t)
    <3>1. Return(t) /\ job'[t].step = "idle"
      BY <1>0, <2>7 DEF WriteFail, ErrorReturn, Return, Idle
    <3>2. ~(Write(t) /\ job[t].kind = "reconcile")
      <4> SUFFICES ASSUME Write(t), job[t].kind = "reconcile" PROVE FALSE
        OBVIOUS
      <4>1. job'[t].step = "finalGate"
        BY <1>0 DEF Write, GoTo, Job
      <4>2. QED
        BY <3>1, <4>1
    <3>3. QED
      BY <3>1, <3>2
  <2>8. QED
    BY <2>1, <2>2, <2>3, <2>4, <2>5, <2>6, <2>7 DEF JobStep
<1>5. \A u \in Threads \ {t} : job[u].step = "idle"
  BY <1>1 DEF IInv, MutualExclusion
<1>6. CASE Return(t) /\ ~(Write(t) /\ job[t].kind = "reconcile")
  BY <1>0, <1>1, <1>5, <1>6 DEF Return, Idle
<1>7. ASSUME NEW step, Onward(step)
      PROVE  /\ job'[t].step = step /\ job'[t].id = job[t].id /\ job'[t].kind = job[t].kind
             /\ \A u \in Threads \ {t} : job'[u] = job[u]
  BY <1>0, <1>7 DEF GoToWith, Job
<1>8. CASE job[t].step # "finalGate" /\ \E step \in Middle : Onward(step)
  BY <1>1, <1>5, <1>7, <1>8
<1>9. CASE Write(t) /\ job[t].kind = "reconcile" /\ Onward("finalGate")
  BY <1>1, <1>5, <1>7, <1>9 DEF Write, At
<1>10. QED
  BY <1>4, <1>6, <1>8, <1>9

\* The two steps of a job that record an event: success, of the job's point.
LEMMA JobStepEvents ==
  ASSUME NEW t \in Threads, JobStep(t)
  PROVE  \/ reconEvent' = reconEvent
         \/ /\ reconEvent' = [reconEvent EXCEPT ![job[t].id] = "success"]
            /\ (Write(t) /\ job[t].kind # "create") \/ FinalGate(t)
<1>1. CASE \/ ReconcileGate(t) \/ MirrorCheck(t) \/ MirrorCopy(t) \/ MirrorSeal(t)
           \/ MirrorRecheck(t) \/ OffsiteCheck(t) \/ RcloneCopy(t) \/ OffsiteFill(t)
           \/ Persist(t)
  BY <1>1
     DEF ReconcileGate, MirrorCheck, MirrorCopy, MirrorSeal, MirrorRecheck, OffsiteCheck,
         RcloneCopy, OffsiteFill, Persist, events
<1>2. CASE \/ MirrorFail(t) \/ MirrorLost(t) \/ OffsiteCleanupFail(t) \/ WriteFail(t)
           \/ FinalGateFail(t)
  BY <1>2
     DEF MirrorFail, MirrorLost, OffsiteCleanupFail, WriteFail, FinalGateFail, ErrorReturn,
         events
<1>3. ASSUME NEW purged, OffsiteUnverified(t, purged) PROVE reconEvent' = reconEvent
  BY <1>3 DEF OffsiteUnverified, ErrorReturn, events
<1>4. CASE \/ OffsiteSkip(t) \/ RcloneFail(t) \/ OffsiteCopy(t) \/ OffsiteFillFail(t)
           \/ OffsiteSeal(t) \/ OffsiteRecheck(t)
  BY <1>3, <1>4
     DEF OffsiteSkip, RcloneFail, OffsiteCopy, OffsiteFillFail, OffsiteSeal, OffsiteRecheck,
         ErrorReturn, events
<1>5. CASE Write(t)
  BY <1>5 DEF Write, RecordRecon
<1>6. CASE FinalGate(t)
  BY <1>6 DEF FinalGate, events
<1>7. QED
  BY <1>1, <1>2, <1>4, <1>5, <1>6 DEF JobStep

\* What a step of the chain may be, as far as jobs and events are concerned.
LEMMA ChainMoves ==
  ASSUME [Next]_vars
  PROVE  \/ job' = job /\ reconEvent' = reconEvent
         \/ Crash
         \/ /\ mu = Nobody
            /\ \E t \in Clients :
                 CreateBegin(t) /\ reconEvent' = reconEvent
         \/ mu = Nobody /\ ReconcileBegin(Guardian)
         \/ \E t \in Threads : JobStep(t)
  BY DEF Next, Environment, CreateBegin, CreateBeginUnlocked, ReconcileBegin, DamageCore,
         DamageMirror, DamageOffsite, Expire, vars, events

\* The request changes nothing in the chain: the chain beside it behaves as it does alone.
THEOREM StatusLeavesChainAlone == StatusSpec => Spec
<1>1. StatusInit => Init
  BY DEF StatusInit
<1>2. [StatusNext]_statusVars => [Next]_vars
  BY DEF StatusNext, ChainStep, StatusList, StatusAnswer, statusVars
<1>3. QED
  BY <1>1, <1>2, PTL DEF StatusSpec, Spec

\* A job that takes the free mutex is not at its final gate.
LEMMA BeginMoves ==
  ASSUME IInv, mu = Nobody,
         (\E t \in Clients : CreateBegin(t)) \/ ReconcileBegin(Guardian)
  PROVE  \A u \in Threads :
           /\ job[u].step = "idle"
           /\ job'[u].step \in {"idle", "gate", "mirrorCopy"}
           /\ job'[u].step = "mirrorCopy" => job'[u].kind = "create"
<1>1. job \in [Threads -> Job] /\ \A u \in Threads : job[u].step = "idle"
  BY ChainAssumption DEF IInv, TypeOK, MutualExclusion
<1>2. ASSUME NEW t \in Clients, CreateBegin(t)
      PROVE  /\ \A u \in Threads \ {t} : job'[u] = job[u]
             /\ job'[t].step = "mirrorCopy" /\ job'[t].kind = "create"
  BY <1>1, <1>2 DEF Threads, CreateBegin, CreateBeginUnlocked
<1>3. ASSUME ReconcileBegin(Guardian)
      PROVE  /\ \A u \in Threads \ {Guardian} : job'[u] = job[u]
             /\ job'[Guardian].step = "gate"
  BY <1>1, <1>3 DEF Threads, ReconcileBegin
<1>4. QED
  BY <1>1, <1>2, <1>3 DEF Threads

\* The manifest that precedes the final gate is the one the history records.
LEMMA WritePersists ==
  ASSUME IInv, NEW t \in Threads, Write(t), job[t].kind = "reconcile", job[t].id \in Ids
  PROVE  Persisted(job[t].id) /\ job'[t].step = "finalGate"
<1>1. job'[t].step = "finalGate"
  BY DEF Write, GoTo, IInv, TypeOK, Job
<1>2. QED
  BY <1>1 DEF Write, At, Persisted

\* A success is recorded of reconciled points only.
LEMMA ReconInvKept ==
  ASSUME IInv, ReconInv, [StatusNext]_statusVars
  PROVE  ReconInv'
<1>1. [Next]_vars /\ reconciled \subseteq reconciled'
  BY DEF StatusNext, ChainStep, StatusList, StatusAnswer, statusVars, historyVars
<1>2. CASE job' = job /\ reconEvent' = reconEvent
  BY <1>1, <1>2 DEF ReconInv
<1>3. CASE Crash
  BY <1>1, <1>3 DEF ReconInv, Crash, Idle, events
<1>4. CASE mu = Nobody /\ \E t \in Clients : CreateBegin(t) /\ reconEvent' = reconEvent
  BY <1>1, <1>4, BeginMoves DEF ReconInv
<1>5. CASE mu = Nobody /\ ReconcileBegin(Guardian)
  <2>1. \A u \in Threads : job'[u].step # "finalGate"
    BY <1>5, BeginMoves
  <2>2. \A i \in Ids : reconEvent'[i] = "success" => reconEvent[i] = "success"
    BY <1>5 DEF ReconcileBegin, RecordRecon, IInv, TypeOK
  <2>3. QED
    BY <1>1, <2>1, <2>2 DEF ReconInv
<1>6. ASSUME NEW t \in Threads, JobStep(t)
      PROVE  ReconInv'
  <2>1. PICK k \in Ids : k = job[t].id
    BY <1>6, JobStepMoves, BusyJob
  <2>2. Write(t) /\ job[t].kind = "reconcile" => k \in reconciled'
    <3> SUFFICES ASSUME Write(t), job[t].kind = "reconcile" PROVE k \in reconciled'
      OBVIOUS
    <3>1. Persisted(k) /\ job'[t].step = "finalGate"
      BY <2>1, WritePersists
    <3>2. job' # job
      BY <3>1 DEF Write, At
    <3>3. ChainStep
      BY <3>2 DEF StatusNext, StatusList, StatusAnswer, statusVars, vars
    <3>4. QED
      BY <3>1, <3>3 DEF ChainStep
  <2>3. job[t].step = "finalGate" => k \in reconciled'
    BY <1>1, <2>1 DEF ReconInv
  <2>4. \A u \in Threads : job'[u].step = "finalGate"
                             => job'[u].kind = "reconcile" /\ job'[u].id \in reconciled'
    BY <1>6, <2>1, <2>2, JobStepMoves
  <2>5. \A i \in Ids : reconEvent'[i] = "success" => i \in reconciled'
    <3>1. CASE reconEvent' = reconEvent
      BY <1>1, <3>1 DEF ReconInv
    <3>2. CASE reconEvent' # reconEvent
      <4>1. reconEvent' = [reconEvent EXCEPT ![k] = "success"]
        BY <1>6, <2>1, <3>2, JobStepEvents
      <4>2. job[t].kind \in {"create", "reconcile"}
        BY DEF IInv, TypeOK, Job
      <4>3. k \in reconciled'
        BY <1>6, <2>2, <2>3, <3>2, <4>2, JobStepEvents DEF FinalGate, At
      <4>4. QED
        BY <1>1, <4>1, <4>3 DEF ReconInv, IInv, TypeOK
    <3>3. QED
      BY <3>1, <3>2
  <2>6. QED
    BY <2>4, <2>5 DEF ReconInv
<1>7. QED
  BY <1>1, <1>2, <1>3, <1>4, <1>5, <1>6, ChainMoves

\* A full score takes all five layers.
LEMMA FullScore ==
  ASSUME NEW latest, NEW m, NEW readable, Score(latest, m, readable) = 100
  PROVE  ReconciliationLayer(latest) /\ readable
<1> DEFINE L == Layers(latest, m, readable)
<1>1. L \subseteq 1..5
  BY DEF Layers
<1>2. IsFiniteSet(1..5) /\ Cardinality(1..5) = 5
  <2>1. 1 \in Int /\ 5 \in Int
    OBVIOUS
  <2>2. IsFiniteSet(1..5) /\ Cardinality(1..5) = IF 1 > 5 THEN 0 ELSE 5 - 1 + 1
    BY <2>1, FS_Interval, Zenon
  <2>3. QED
    BY <2>2
<1>3. IsFiniteSet(L) /\ (Cardinality(1..5) = Cardinality(L) => 1..5 = L)
  BY <1>1, <1>2, FS_Subset
<1>4. Cardinality(L) \in Nat
  BY <1>3, FS_CardinalityType
<1>5. 20 * Cardinality(L) = 100
  BY DEF Score
<1>6. Cardinality(L) = 5
  <2> HIDE DEF L
  <2> QED
    BY <1>4, <1>5
<1>7. 4 \in L
  BY <1>2, <1>3, <1>6
<1>8. QED
  BY <1>7 DEF Layers

\* PROTECTED is the answer to a full score only.
LEMMA ProtectedAnswer ==
  ASSUME StatusAnswer, report'.status = "PROTECTED"
  PROVE  /\ report'.id = reader.latest /\ reader.latest # NoPoint
         /\ reconEvent[reader.latest] = "success"
<1>1. PICK readable \in {TRUE, ~EventLoss} :
        report' = [id |-> reader.latest,
                   status |->
                     LET score == Score(reader.latest, reader.m, readable) IN
                     CASE reader.latest = NoPoint -> "UNKNOWN"
                       [] reader.latest # NoPoint /\ score = 100 -> "PROTECTED"
                       [] reader.latest # NoPoint /\ score \in 1..99 -> "DEGRADED"
                       [] OTHER -> "FAILED"]
  BY DEF StatusAnswer
<1>2. reader.latest # NoPoint /\ Score(reader.latest, reader.m, readable) = 100
  BY <1>1
<1>3. QED
  BY <1>1, <1>2, FullScore DEF ReconciliationLayer

\* What the request has listed is a point, or none.
ReaderOK == reader.latest \in Ids \cup {NoPoint}

\* The newest of a set of points is one of them.
LEMMA MaxIsOne == ASSUME NEW S \in SUBSET Ids, S # {} PROVE Max(S) \in S
  BY Newest DEF Max

\* It stays so.
LEMMA ReaderOKKept == ReaderOK /\ [StatusNext]_statusVars => ReaderOK'
<1> SUFFICES ASSUME ReaderOK, [StatusNext]_statusVars PROVE ReaderOK'
  OBVIOUS
<1>1. CASE StatusList
  BY <1>1, MaxIsOne DEF StatusList, ReaderOK, TrustedIds
<1>2. CASE reader' = reader \/ reader' = IdleReader
  BY <1>2 DEF ReaderOK, IdleReader
<1>3. QED
  BY <1>1, <1>2 DEF StatusNext, ChainStep, StatusAnswer, statusVars, requestVars

\* PROTECTED is only ever said of a point that a reconciliation has verified and
\* rewritten, whatever the request read before and after the chain's steps.
THEOREM ProtectedIsReconciled == StatusSpec => []ProtectedMeansReconciled
<1>1. StatusInit => ReconInv /\ ReaderOK /\ ProtectedMeansReconciled
  BY DEF StatusInit, Init, ReconInv, ReaderOK, IdleReader, Idle, ProtectedMeansReconciled
<1>2. IInv /\ ReconInv /\ [StatusNext]_statusVars => ReconInv'
  BY ReconInvKept
<1>3. ReconInv /\ ReaderOK /\ ProtectedMeansReconciled /\ [StatusNext]_statusVars
        => ProtectedMeansReconciled'
  <2> SUFFICES ASSUME ReconInv, ReaderOK, ProtectedMeansReconciled, [StatusNext]_statusVars,
                      report'.status = "PROTECTED"
               PROVE  report'.id \in reconciled'
    BY DEF ProtectedMeansReconciled
  <2>1. reconciled \subseteq reconciled'
    BY DEF StatusNext, ChainStep, StatusList, StatusAnswer, statusVars, historyVars
  <2>2. CASE StatusAnswer
    BY <2>1, <2>2, ProtectedAnswer DEF ReconInv, ReaderOK
  <2>3. CASE report' = report
    BY <2>1, <2>3 DEF ProtectedMeansReconciled
  <2>4. QED
    BY <2>2, <2>3 DEF StatusNext, ChainStep, StatusList, statusVars, requestVars
<1>4. QED
  BY <1>1, <1>2, <1>3, ReaderOKKept, StatusLeavesChainAlone, InvariantHolds, PTL
     DEF StatusSpec

-----------------------------------------------------------------------------
(* Repairs that failed *)

\* As long as every event is recorded: a repair that was cut short leaves no success
\* behind, and until the manifest is written the store says that one has started.
BrokenInv ==
  /\ broken \subseteq Ids
  /\ \A i \in broken : reconEvent[i] # "success"
  /\ \A t \in Threads :
       /\ job[t].kind = "reconcile" /\ job[t].step \notin {"idle", "finalGate"}
            => reconEvent[job[t].id] = "started"
       /\ job[t].step = "finalGate" => job[t].id \notin broken

\* Only a job that ends is cut short, and only a job that writes has persisted.
LEMMA NothingEnds ==
  ASSUME \A u \in Threads : job[u].step = "idle" \/ job'[u].step = job[u].step, NEW i \in Ids
  PROVE  ~CutShort(i) /\ ~Persisted(i)
  BY DEF CutShort, Persisted, At

\* A step of a job.
LEMMA JobStepBroken ==
  ASSUME IInv, BrokenInv, ReconInv, ChainStep, NEW t \in Threads, JobStep(t)
  PROVE  BrokenInv'
<1>1. PICK k \in Ids : k = job[t].id
  BY JobStepMoves, BusyJob
<1>2. /\ job[t].kind \in {"create", "reconcile"}
      /\ reconEvent \in [Ids -> {"none", "started", "success"}]
  BY DEF IInv, TypeOK, Job
<1>3. /\ job[t].step # "idle"
      /\ \A u \in Threads \ {t} : job'[u] = job[u] /\ job[u].step = "idle"
  BY JobStepMoves
<1>4. \A i \in Ids : CutShort(i) => /\ i = k /\ job[t].kind = "reconcile"
                                    /\ job[t].step \notin {"idle", "finalGate"}
                                    /\ job'[t].step = "idle"
  BY <1>1, <1>3 DEF CutShort
<1>5. broken' = (broken \ {i \in Ids : Persisted(i)}) \cup {i \in Ids : CutShort(i)}
  BY DEF ChainStep
<1>6. \A i \in Ids : reconEvent'[i] = reconEvent[i] \/ (i = k /\ reconEvent'[i] = "success")
  BY <1>1, <1>2, JobStepEvents
<1>7. CASE Write(t) /\ job[t].kind = "reconcile"
  <2>1. Persisted(k) /\ job'[t].step = "finalGate" /\ job'[t].id = k
    <3>1. Persisted(k)
      BY <1>1, <1>7, WritePersists
    <3>2. QED
      BY <1>1, <1>3, <1>7, <3>1, JobStepMoves DEF Persisted
  <2>2. \A i \in Ids : ~CutShort(i)
    BY <1>4, <2>1
  <2>3. broken' \subseteq broken \ {k}
    BY <1>5, <2>1, <2>2
  <2>4. \A i \in broken' : reconEvent'[i] # "success"
    <3>1. \A i \in broken' : i \in Ids /\ i # k /\ reconEvent[i] # "success"
      BY <2>3 DEF BrokenInv
    <3>2. QED
      BY <1>6, <3>1
  <2>5. QED
    BY <1>3, <2>1, <2>3, <2>4 DEF BrokenInv
<1>8. CASE ~(Write(t) /\ job[t].kind = "reconcile")
  <2>1. \/ job'[t].step = "idle"
        \/ /\ job'[t].id = k /\ job'[t].kind = job[t].kind
           /\ job'[t].step \notin {"idle", "finalGate"} /\ job[t].step # "finalGate"
    BY <1>1, <1>8, JobStepMoves
  <2>2. \/ reconEvent' = reconEvent
        \/ job[t].step = "finalGate" /\ reconEvent' = [reconEvent EXCEPT ![k] = "success"]
    BY <1>1, <1>2, <1>8, JobStepEvents DEF FinalGate, At
  <2>3. \A i \in broken' : reconEvent'[i] # "success"
    <3> SUFFICES ASSUME NEW i \in broken' PROVE reconEvent'[i] # "success"
      OBVIOUS
    <3>1. CASE i \in Ids /\ CutShort(i)
      BY <1>1, <1>4, <2>2, <3>1 DEF BrokenInv
    <3>2. CASE i \in broken
      BY <1>1, <1>2, <2>2, <3>2 DEF BrokenInv
    <3>3. QED
      BY <1>5, <3>1, <3>2
  <2>4. \A u \in Threads :
          /\ job'[u].kind = "reconcile" /\ job'[u].step \notin {"idle", "finalGate"}
               => reconEvent'[job'[u].id] = "started"
          /\ job'[u].step = "finalGate" => job'[u].id \notin broken'
    BY <1>1, <1>3, <2>1, <2>2 DEF BrokenInv
  <2>5. broken' \subseteq Ids
    BY <1>5 DEF BrokenInv
  <2>6. QED
    BY <2>3, <2>4, <2>5 DEF BrokenInv
<1>9. QED
  BY <1>7, <1>8

\* Every step keeps it, if every event is recorded.
LEMMA BrokenInvKept ==
  ASSUME EventLoss = FALSE, IInv, ReconInv, BrokenInv, [StatusNext]_statusVars
  PROVE  BrokenInv'
<1>1. CASE ~ChainStep
  BY <1>1
     DEF StatusNext, StatusList, StatusAnswer, statusVars, historyVars, vars, events, BrokenInv
<1>2. CASE ChainStep
  <2>1. broken' = (broken \ {i \in Ids : Persisted(i)}) \cup {i \in Ids : CutShort(i)}
        /\ [Next]_vars
    BY <1>2 DEF ChainStep
  <2>2. CASE job' = job /\ reconEvent' = reconEvent
    <3>1. broken' = broken
      BY <2>1, <2>2, NothingEnds
    <3>2. QED
      BY <2>2, <3>1 DEF BrokenInv
  <2>3. CASE Crash
    <3>1. \A i \in Ids : ~Persisted(i)
      BY <2>3 DEF Crash, Persisted, Idle
    <3>2. \A i \in Ids : CutShort(i) => reconEvent[i] = "started"
      BY DEF CutShort, BrokenInv
    <3>3. QED
      BY <2>1, <2>3, <3>1, <3>2 DEF Crash, Idle, BrokenInv, events
  <2>4. CASE mu = Nobody /\ \E t \in Clients : CreateBegin(t) /\ reconEvent' = reconEvent
    <3>1. broken' = broken
      BY <2>1, <2>4, BeginMoves, NothingEnds
    <3>2. PICK t \in Clients : CreateBegin(t)
      BY <2>4
    <3>3. job \in [Threads -> Job] /\ t \in Threads
      BY DEF IInv, TypeOK, Threads
    <3>4. \A u \in Threads : job[u].step = "idle"
      BY <2>4, BeginMoves
    <3>5. \A u \in Threads : job'[u].step = "idle" \/ job'[u].kind = "create"
      BY <3>2, <3>3, <3>4 DEF CreateBegin, CreateBeginUnlocked
    <3>6. QED
      BY <2>4, <3>1, <3>5, BeginMoves DEF BrokenInv
  <2>5. CASE mu = Nobody /\ ReconcileBegin(Guardian)
    <3>1. broken' = broken
      BY <2>1, <2>5, BeginMoves, NothingEnds
    <3>2. PICK i \in TrustedIds :
            /\ job' = [job EXCEPT ![Guardian] =
                         [step |-> "gate", kind |-> "reconcile", id |-> i, m |-> NoManifest]]
            /\ reconEvent' = [reconEvent EXCEPT ![i] = "started"]
      BY <2>5 DEF ReconcileBegin, RecordRecon, EventLost
    <3>3. i \in Ids /\ Guardian \in Threads
      BY DEF TrustedIds, Threads
    <3>4. \A u \in Threads : job'[u].step = "idle" \/ (u = Guardian /\ job'[u].id = i)
      BY <2>5, <3>2, <3>3, BeginMoves DEF IInv, TypeOK
    <3>5. QED
      BY <2>5, <3>1, <3>2, <3>3, <3>4, BeginMoves DEF BrokenInv, IInv, TypeOK
  <2>6. ASSUME NEW t \in Threads, JobStep(t) PROVE BrokenInv'
    BY <1>2, <2>6, JobStepBroken
  <2>7. QED
    BY <2>1, <2>2, <2>3, <2>4, <2>5, <2>6, ChainMoves
<1>3. QED
  BY <1>1, <1>2

\* A repair that failed or was cut short is never reported as PROTECTED while the event
\* store works, however the request interleaves with the Guardian.
THEOREM FailedRepairShows ==
  ASSUME EventLoss = FALSE
  PROVE  StatusSpec => FailedRepairNotProtected
<1>1. StatusInit => ReconInv /\ BrokenInv
  BY DEF StatusInit, Init, ReconInv, BrokenInv, Idle
<1>2. IInv /\ ReconInv /\ [StatusNext]_statusVars => ReconInv'
  BY ReconInvKept
<1>3. EventLoss = FALSE /\ IInv /\ ReconInv /\ BrokenInv /\ [StatusNext]_statusVars
        => BrokenInv'
  BY BrokenInvKept
<1>4. BrokenInv =>
        [StatusAnswer /\ report'.status = "PROTECTED" /\ Trusted(reader.latest)
           => reader.latest \notin broken]_statusVars
  BY ProtectedAnswer DEF BrokenInv
<1>5. QED
  BY <1>1, <1>2, <1>3, <1>4, StatusLeavesChainAlone, InvariantHolds, PTL
     DEF StatusSpec, FailedRepairNotProtected

=============================================================================
