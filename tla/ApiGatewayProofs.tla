-------------------------- MODULE ApiGatewayProofs --------------------------
(***************************************************************************)
(* Proofs about ApiGateway, for any number of requests, any window and     *)
(* limit: its type, the death of a revoked key, the count of calls, the    *)
(* settings, and that it implements RateLimiter.                           *)
(*                                                                         *)
(* The count needs the order of the windows (WindowsApart): a restart      *)
(* takes an old clock reading, and must still come after every window in   *)
(* which a call was let through.  The settings need what a request in      *)
(* flight has read (ReadIsFresh).                                          *)
(***************************************************************************)
EXTENDS ApiGateway, TLAPS

\* Every window that let a call through, other than the current one, was over when the
\* current one began.
WindowsApart ==
  counter.there => \A t \in Time : admitted[t] > 0 /\ t # counter.start
                                     => t + Window <= counter.start

\* An update of the policy that is not late has read the policy there is.
ReadIsFresh ==
  \A r \in Requests : req[r].at = "save" /\ ~req[r].late => req[r].read = policy

\* The inductive invariant.
IInv ==
  /\ GatewayTypeOK
  /\ RevokedKeyIsDead
  /\ EveryCallIsCounted
  /\ WindowsApart
  /\ ReadIsFresh
  /\ SettingsAreKept

\* The conjuncts by what they are about.
Counted == EveryCallIsCounted /\ WindowsApart
Kept == ReadIsFresh /\ SettingsAreKept

-----------------------------------------------------------------------------
(***************************************************************************)
(* What the conjuncts depend on.                                           *)
(***************************************************************************)

\* The clock starts at a time.
LEMMA ZeroIsTime == 0 \in Time
BY GatewayAssumption DEF Time

\* A window has room for its first call.
LEMMA OneIsACount == 1 \in 0..MaxRequests
BY GatewayAssumption

\* A request that changes its stage keeps its type.
LEMMA GotoTypes ==
  ASSUME NEW r \in Requests, NEW stage \in {"idle", "expire", "use", "policy", "count",
                                            "insert", "save"},
         GatewayTypeOK, Goto(r, stage)
  PROVE  req' \in [Requests -> Request]
BY DEF GatewayTypeOK, Goto, Request

\* A request that ends keeps its type.
LEMMA EndTypes ==
  ASSUME NEW r \in Requests, GatewayTypeOK, End(r)
  PROVE  req' \in [Requests -> Request]
BY ZeroIsTime DEF GatewayTypeOK, End, Idle, Request, DefaultPolicy, Policy

\* Marking requests as late keeps their types.
LEMMA LateTypes ==
  ASSUME NEW stages, GatewayTypeOK
  PROVE  Late(stages) \in [Requests -> Request]
BY DEF GatewayTypeOK, Late, Request

\* As long as the counter stays, so does the count.
LEMMA CountedStays ==
  ASSUME Counted, UNCHANGED <<counter, admitted>>
  PROVE  Counted'
BY DEF Counted, EveryCallIsCounted, WindowsApart

\* A dead key stays dead when it is neither written nor read, and no call begins.
LEMMA DeadStays ==
  ASSUME RevokedKeyIsDead, UNCHANGED <<key, revoked>>,
         \A q \in Requests : req'[q].at \in CallStages =>
                               req[q].at \in CallStages /\ req'[q].late = req[q].late
  PROVE  RevokedKeyIsDead'
BY DEF RevokedKeyIsDead

\* The settings are kept when no policy is read or written.
LEMMA KeptStays ==
  ASSUME Kept, UNCHANGED <<policy, asked>>,
         \A q \in Requests : req'[q].at = "save" => req'[q] = req[q]
  PROVE  Kept'
BY DEF Kept, ReadIsFresh, SettingsAreKept

\* A transaction that counts a call lets one more through in its window, or, if its answer
\* is lost, none.
LEMMA CommittedCounts ==
  ASSUME NEW s \in Time, admitted \in [Time -> Nat], Committed(s)
  PROVE  /\ admitted' \in [Time -> Nat]
         /\ \E n \in {0, 1} : \A t \in Time :
              admitted'[t] = IF t = s THEN admitted[t] + n ELSE admitted[t]
<1>1. CASE Admit(s)
  <2>1. /\ admitted' \in [Time -> Nat]
        /\ \A t \in Time : admitted'[t] = IF t = s THEN admitted[t] + 1 ELSE admitted[t]
    BY <1>1 DEF Admit
  <2> QED
    BY <2>1
<1>2. CASE UNCHANGED admitted
  <2>1. \A t \in Time : admitted'[t] = IF t = s THEN admitted[t] + 0 ELSE admitted[t]
    BY <1>2
  <2> QED
    BY <1>2, <2>1
<1> QED
  BY <1>1, <1>2 DEF Committed

-----------------------------------------------------------------------------
(***************************************************************************)
(* Every action keeps the invariant.                                       *)
(***************************************************************************)

\* The invariant holds at the start: nothing is there yet.
LEMMA InitIInv == Init => IInv
<1> SUFFICES ASSUME Init PROVE IInv
  OBVIOUS
<1>1. GatewayTypeOK
  <2>1. 0 \in 0..MaxRequests
    BY GatewayAssumption
  <2>2. DefaultPolicy \in Policy
    BY DEF DefaultPolicy, Policy
  <2>3. Idle \in Request
    BY <2>2, ZeroIsTime DEF Idle, Request
  <2> QED
    BY <2>1, <2>2, <2>3, ZeroIsTime DEF Init, GatewayTypeOK
<1>2. RevokedKeyIsDead
  BY DEF Init, RevokedKeyIsDead
<1>3. Counted
  BY GatewayAssumption DEF Init, Counted, EveryCallIsCounted, WindowsApart
<1>4. Kept
  BY DEF Init, Kept, ReadIsFresh, SettingsAreKept, Idle
<1> QED
  BY <1>1, <1>2, <1>3, <1>4 DEF IInv, Counted, Kept

\* A key is created: none was revoked.
LEMMA CreateKeyKeeps == ASSUME IInv, CreateKey PROVE IInv'
<1>1. GatewayTypeOK'
  BY DEF IInv, CreateKey, GatewayTypeOK
<1>2. RevokedKeyIsDead'
  BY DEF IInv, CreateKey, RevokedKeyIsDead
<1>3. Counted'
  BY CountedStays DEF IInv, CreateKey, Counted
<1>4. Kept'
  BY KeptStays DEF IInv, CreateKey, Kept
<1> QED
  BY <1>1, <1>2, <1>3, <1>4 DEF IInv, Counted, Kept

\* Marking calls as late leaves the updates of the policy alone, and no stage changes.
LEMMA LateCalls ==
  ASSUME GatewayTypeOK, req' = Late(CallStages)
  PROVE  /\ \A q \in Requests : req'[q].at = req[q].at
         /\ \A q \in Requests : req'[q].at \in CallStages => req'[q].late
         /\ \A q \in Requests : req'[q].at = "save" => req'[q] = req[q]
BY DEF GatewayTypeOK, Late, CallStages, Request

\* A revocation makes every call on its way late.
LEMMA RevokeKeyKeeps == ASSUME IInv, RevokeKey PROVE IInv'
<1>1. GatewayTypeOK'
  BY LateTypes DEF IInv, RevokeKey, GatewayTypeOK
<1>2. RevokedKeyIsDead'
  BY LateCalls DEF IInv, RevokeKey, RevokedKeyIsDead
<1>3. Counted'
  BY CountedStays DEF IInv, RevokeKey, Counted
<1>4. Kept'
  BY LateCalls, KeptStays DEF IInv, RevokeKey, Kept
<1> QED
  BY <1>1, <1>2, <1>3, <1>4 DEF IInv, Counted, Kept

\* After a rotation the key is not revoked.
LEMMA RotateKeyKeeps == ASSUME IInv, RotateKey PROVE IInv'
<1>1. GatewayTypeOK'
  BY LateTypes DEF IInv, RotateKey, GatewayTypeOK
<1>2. RevokedKeyIsDead'
  BY DEF IInv, RotateKey, RevokedKeyIsDead
<1>3. Counted'
  BY CountedStays DEF IInv, RotateKey, Counted
<1>4. Kept'
  BY LateCalls, KeptStays DEF IInv, RotateKey, Kept
<1> QED
  BY <1>1, <1>2, <1>3, <1>4 DEF IInv, Counted, Kept

\* A call begins, or a listing finds an expired key: the key is active, so not revoked.
LEMMA VerifyKeeps ==
  ASSUME IInv, NEW r \in Requests, Verify(r) \/ ListKeys(r) PROVE IInv'
<1>1. PICK stage \in {"expire", "use"} : Goto(r, stage)
  BY DEF Verify, ListKeys
<1>2. /\ key = "active"
      /\ UNCHANGED <<now, key, policy, counter, revoked, asked, admitted>>
  BY DEF Verify, ListKeys
<1>3. GatewayTypeOK'
  <2>1. req' \in [Requests -> Request]
    BY <1>1, GotoTypes DEF IInv
  <2> QED
    BY <1>2, <2>1 DEF IInv, GatewayTypeOK
<1>4. RevokedKeyIsDead'
  BY <1>2 DEF IInv, RevokedKeyIsDead
<1>5. Counted'
  BY <1>2, CountedStays DEF IInv, Counted
<1>6. Kept'
  <2>1. \A q \in Requests : req'[q].at = "save" => req'[q] = req[q]
    BY <1>1 DEF IInv, GatewayTypeOK, Goto, Request
  <2> QED
    BY <1>2, <2>1, KeptStays DEF IInv, Kept
<1> QED
  BY <1>3, <1>4, <1>5, <1>6 DEF IInv, Counted, Kept

\* An expired key is as dead as a revoked one.
LEMMA MarkExpiredKeeps ==
  ASSUME IInv, NEW r \in Requests, MarkExpired(r) PROVE IInv'
<1>1. End(r) /\ key' = "expired" /\ UNCHANGED <<now, policy, counter, revoked, asked, admitted>>
  BY DEF MarkExpired
<1>2. GatewayTypeOK'
  <2>1. req' \in [Requests -> Request]
    BY <1>1, EndTypes DEF IInv
  <2> QED
    BY <1>1, <2>1 DEF IInv, GatewayTypeOK
<1>3. RevokedKeyIsDead'
  BY <1>1 DEF IInv, GatewayTypeOK, RevokedKeyIsDead, End, Idle, CallStages
<1>4. Counted'
  BY <1>1, CountedStays DEF IInv, Counted
<1>5. Kept'
  <2>1. \A q \in Requests : req'[q].at = "save" => req'[q] = req[q]
    BY <1>1 DEF IInv, GatewayTypeOK, End, Idle
  <2> QED
    BY <1>1, <2>1, KeptStays DEF IInv, Kept
<1> QED
  BY <1>2, <1>3, <1>4, <1>5 DEF IInv, Counted, Kept

\* A call goes on to a later stage and touches nothing else.
LEMMA CallGoesOnKeeps ==
  ASSUME IInv, NEW r \in Requests, NoteUse(r) \/ EnforcePolicy(r) \/ CountFirst(r)
  PROVE  IInv'
<1>1. UNCHANGED <<now, key, policy, counter, revoked, asked, admitted>>
  BY DEF NoteUse, EnforcePolicy, CountFirst
<1>2. /\ req' \in [Requests -> Request]
      /\ \A q \in Requests : req'[q].at \in CallStages =>
                             req[q].at \in CallStages /\ req'[q].late = req[q].late
      /\ \A q \in Requests : req'[q].at = "save" => req'[q] = req[q]
  <2>1. CASE NoteUse(r)
    BY <2>1 DEF IInv, GatewayTypeOK, NoteUse, Goto, Request, CallStages
  <2>2. CASE EnforcePolicy(r)
    BY <2>2 DEF IInv, GatewayTypeOK, EnforcePolicy, Request, CallStages
  <2>3. CASE CountFirst(r)
    BY <2>3 DEF IInv, GatewayTypeOK, CountFirst, Goto, Request, CallStages
  <2> QED
    BY <2>1, <2>2, <2>3
<1>3. GatewayTypeOK'
  BY <1>1, <1>2 DEF IInv, GatewayTypeOK
<1>4. RevokedKeyIsDead'
  BY <1>1, <1>2, DeadStays DEF IInv
<1>5. Counted'
  BY <1>1, CountedStays DEF IInv, Counted
<1>6. Kept'
  BY <1>1, <1>2, KeptStays DEF IInv, Kept
<1> QED
  BY <1>3, <1>4, <1>5, <1>6 DEF IInv, Counted, Kept

\* The first call: nobody was let through before, or its insert fails.
LEMMA InsertCounterKeeps ==
  ASSUME IInv, NEW r \in Requests, InsertCounter(r) PROVE IInv'
<1>1. End(r) /\ UNCHANGED <<now, key, policy, revoked, asked>>
  BY DEF InsertCounter
<1>2. req[r].time \in Time
  BY DEF IInv, GatewayTypeOK, Request
<1>3. GatewayTypeOK'
  <2>1. req' \in [Requests -> Request]
    BY <1>1, EndTypes DEF IInv
  <2>2. counter' \in [there: BOOLEAN, start: Time, count: 0..MaxRequests]
    <3> DEFINE first == [there |-> TRUE, start |-> req[r].time, count |-> 1]
    <3>1. first \in [there: BOOLEAN, start: Time, count: 0..MaxRequests]
      BY <1>2, OneIsACount
    <3>2. counter' = counter \/ counter' = first
      BY DEF InsertCounter
    <3> QED
      BY <3>1, <3>2 DEF IInv, GatewayTypeOK
  <2>3. admitted' \in [Time -> Nat]
    BY <1>2, CommittedCounts DEF IInv, GatewayTypeOK, InsertCounter
  <2> QED
    BY <1>1, <2>1, <2>2, <2>3 DEF IInv, GatewayTypeOK
<1>4. RevokedKeyIsDead'
  BY <1>1 DEF IInv, GatewayTypeOK, RevokedKeyIsDead, End, Idle, CallStages
<1>5. Counted'
  <2>1. CASE counter.there
    BY <2>1, CountedStays DEF IInv, InsertCounter, Counted
  <2>2. CASE ~counter.there
    <3>1. /\ counter' = [there |-> TRUE, start |-> req[r].time, count |-> 1]
          /\ Committed(req[r].time)
          /\ \A t \in Time : admitted[t] = 0
      BY <2>2 DEF IInv, InsertCounter, EveryCallIsCounted
    <3>2. PICK n \in {0, 1} : \A t \in Time :
            admitted'[t] = IF t = req[r].time THEN n ELSE 0
      BY <1>2, <3>1, CommittedCounts DEF IInv, GatewayTypeOK
    <3>3. /\ counter'.there /\ counter'.start = req[r].time /\ counter'.count = 1
      BY <3>1
    <3>4. EveryCallIsCounted'
      BY <1>2, <3>2, <3>3, GatewayAssumption DEF EveryCallIsCounted
    <3>5. WindowsApart'
      BY <3>2, <3>3 DEF WindowsApart
    <3> QED
      BY <3>4, <3>5 DEF Counted
  <2> QED
    BY <2>1, <2>2
<1>6. Kept'
  <2>1. \A q \in Requests : req'[q].at = "save" => req'[q] = req[q]
    BY <1>1 DEF IInv, GatewayTypeOK, End, Idle
  <2> QED
    BY <1>1, <2>1, KeptStays DEF IInv, Kept
<1> QED
  BY <1>3, <1>4, <1>5, <1>6 DEF IInv, Counted, Kept

\* The next window begins after the current one, which was the last: no call was let
\* through in it yet.
LEMMA NextWindowIsNew ==
  ASSUME IInv, NEW r \in Requests, CountRestart(r)
  PROVE  LET s == req[r].time
         IN  /\ s \in Time /\ s # counter.start
             /\ \A t \in Time : admitted[t] > 0 => t + Window <= s
             /\ admitted[s] = 0
<1> DEFINE s == req[r].time
<1>1. s \in Time /\ counter.start \in Time /\ admitted \in [Time -> Nat]
  BY DEF IInv, GatewayTypeOK, Request
<1>2. \A t \in Time : t \in Nat
  BY GatewayAssumption DEF Time
<1>3. s >= counter.start + Window
  BY DEF CountRestart, WindowOver
<1>4. \A t \in Time : admitted[t] > 0 => t + Window <= s
  <2> SUFFICES ASSUME NEW t \in Time, admitted[t] > 0 PROVE t + Window <= s
    OBVIOUS
  <2>1. CASE t = counter.start
    BY <1>1, <1>2, <1>3, <2>1, GatewayAssumption
  <2>2. CASE t # counter.start
    <3>1. t + Window <= counter.start
      BY <2>2 DEF IInv, WindowsApart, CountRestart
    <3> QED
      BY <1>1, <1>2, <1>3, <3>1, GatewayAssumption
  <2> QED
    BY <2>1, <2>2
<1>5. s # counter.start
  BY <1>1, <1>2, <1>3, GatewayAssumption
<1>6. admitted[s] = 0
  <2>1. ~(s + Window <= s)
    BY <1>1, <1>2, GatewayAssumption
  <2>2. admitted[s] \in Nat /\ ~(admitted[s] > 0)
    BY <1>1, <1>4, <2>1
  <2> QED
    BY <2>2
<1> QED
  BY <1>1, <1>4, <1>5, <1>6

\* A window begins with the call that found the last one over.
LEMMA CountRestartKeeps ==
  ASSUME IInv, NEW r \in Requests, CountRestart(r) PROVE IInv'
<1> DEFINE s == req[r].time
<1>1. /\ End(r) /\ UNCHANGED <<now, key, policy, revoked, asked>>
      /\ counter' = [counter EXCEPT !.start = s, !.count = 1]
      /\ Committed(s)
  BY DEF CountRestart
<1>2. /\ s \in Time
      /\ \A t \in Time : admitted[t] > 0 => t + Window <= s
      /\ admitted[s] = 0
  BY NextWindowIsNew
<1>3. GatewayTypeOK'
  <2>1. req' \in [Requests -> Request]
    BY <1>1, EndTypes DEF IInv
  <2>2. counter' \in [there: BOOLEAN, start: Time, count: 0..MaxRequests]
    BY <1>1, <1>2, OneIsACount DEF IInv, GatewayTypeOK
  <2>3. admitted' \in [Time -> Nat]
    BY <1>1, <1>2, CommittedCounts DEF IInv, GatewayTypeOK
  <2> QED
    BY <1>1, <2>1, <2>2, <2>3 DEF IInv, GatewayTypeOK
<1>4. RevokedKeyIsDead'
  BY <1>1 DEF IInv, GatewayTypeOK, RevokedKeyIsDead, End, Idle, CallStages
<1>5. Counted'
  <2>1. /\ counter'.there /\ counter'.start = s /\ counter'.count = 1
        /\ counter.there
    BY <1>1 DEF IInv, GatewayTypeOK, CountRestart
  <2>2. PICK n \in {0, 1} : \A t \in Time :
          admitted'[t] = IF t = s THEN n ELSE admitted[t]
    BY <1>1, <1>2, CommittedCounts DEF IInv, GatewayTypeOK
  <2>3. EveryCallIsCounted'
    BY <1>2, <2>1, <2>2, GatewayAssumption DEF IInv, EveryCallIsCounted
  <2>4. WindowsApart'
    BY <1>2, <2>1, <2>2 DEF WindowsApart
  <2> QED
    BY <2>3, <2>4 DEF Counted
<1>6. Kept'
  <2>1. \A q \in Requests : req'[q].at = "save" => req'[q] = req[q]
    BY <1>1 DEF IInv, GatewayTypeOK, End, Idle
  <2> QED
    BY <1>1, <2>1, KeptStays DEF IInv, Kept
<1> QED
  BY <1>3, <1>4, <1>5, <1>6 DEF IInv, Counted, Kept

\* One more call of the current window.
LEMMA CountOneMoreKeeps ==
  ASSUME IInv, NEW r \in Requests, CountOneMore(r) PROVE IInv'
<1>1. /\ End(r) /\ UNCHANGED <<now, key, policy, revoked, asked>>
      /\ counter.there /\ counter.count < MaxRequests
      /\ counter' = [counter EXCEPT !.count = @ + 1]
      /\ Committed(counter.start)
  BY DEF CountOneMore
<1>2. /\ counter.start \in Time /\ counter.count \in 0..MaxRequests
      /\ admitted \in [Time -> Nat]
  BY DEF IInv, GatewayTypeOK
<1>3. GatewayTypeOK'
  <2>1. req' \in [Requests -> Request]
    BY <1>1, EndTypes DEF IInv
  <2>2. counter.count + 1 \in 0..MaxRequests
    BY <1>1, <1>2, GatewayAssumption
  <2>3. counter' \in [there: BOOLEAN, start: Time, count: 0..MaxRequests]
    BY <1>1, <2>2 DEF IInv, GatewayTypeOK
  <2>4. admitted' \in [Time -> Nat]
    BY <1>1, <1>2, CommittedCounts
  <2> QED
    BY <1>1, <2>1, <2>3, <2>4 DEF IInv, GatewayTypeOK
<1>4. RevokedKeyIsDead'
  BY <1>1 DEF IInv, GatewayTypeOK, RevokedKeyIsDead, End, Idle, CallStages
<1>5. Counted'
  <2>1. /\ counter'.there /\ counter'.start = counter.start
        /\ counter'.count = counter.count + 1
    BY <1>1 DEF IInv, GatewayTypeOK
  <2>2. PICK n \in {0, 1} : \A t \in Time :
          admitted'[t] = IF t = counter.start THEN admitted[t] + n ELSE admitted[t]
    BY <1>1, <1>2, CommittedCounts
  <2>3. EveryCallIsCounted'
    BY <1>1, <1>2, <2>1, <2>2, GatewayAssumption DEF IInv, EveryCallIsCounted
  <2>4. WindowsApart'
    BY <1>1, <2>1, <2>2 DEF IInv, WindowsApart
  <2> QED
    BY <2>3, <2>4 DEF Counted
<1>6. Kept'
  <2>1. \A q \in Requests : req'[q].at = "save" => req'[q] = req[q]
    BY <1>1 DEF IInv, GatewayTypeOK, End, Idle
  <2> QED
    BY <1>1, <2>1, KeptStays DEF IInv, Kept
<1> QED
  BY <1>3, <1>4, <1>5, <1>6 DEF IInv, Counted, Kept

\* A request that ends without more leaves everything as it is.
LEMMA RequestEndsKeeps ==
  ASSUME IInv, NEW r \in Requests, RequestEnds(r) PROVE IInv'
<1>1. End(r) /\ UNCHANGED <<now, key, policy, counter, revoked, asked, admitted>>
  BY DEF RequestEnds
<1>2. GatewayTypeOK'
  <2>1. req' \in [Requests -> Request]
    BY <1>1, EndTypes DEF IInv
  <2> QED
    BY <1>1, <2>1 DEF IInv, GatewayTypeOK
<1>3. RevokedKeyIsDead'
  BY <1>1 DEF IInv, GatewayTypeOK, RevokedKeyIsDead, End, Idle, CallStages
<1>4. Counted'
  BY <1>1, CountedStays DEF IInv, Counted
<1>5. Kept'
  <2>1. \A q \in Requests : req'[q].at = "save" => req'[q] = req[q]
    BY <1>1 DEF IInv, GatewayTypeOK, End, Idle
  <2> QED
    BY <1>1, <2>1, KeptStays DEF IInv, Kept
<1> QED
  BY <1>2, <1>3, <1>4, <1>5 DEF IInv, Counted, Kept

\* An update reads the policy there is.
LEMMA ReadPolicyKeeps ==
  ASSUME IInv, NEW r \in Requests, ReadPolicy(r) PROVE IInv'
<1>1. /\ req[r] = Idle
      /\ req' = [req EXCEPT ![r] = [@ EXCEPT !.at = "save", !.read = policy]]
      /\ UNCHANGED <<now, key, policy, counter, revoked, asked, admitted>>
  BY DEF ReadPolicy
<1>2. GatewayTypeOK'
  <2>1. req' \in [Requests -> Request]
    BY <1>1 DEF IInv, GatewayTypeOK, Request
  <2> QED
    BY <1>1, <2>1 DEF IInv, GatewayTypeOK
<1>3. RevokedKeyIsDead'
  <2>1. \A q \in Requests : req'[q].at \in CallStages =>
                              req[q].at \in CallStages /\ req'[q].late = req[q].late
    BY <1>1 DEF IInv, GatewayTypeOK, Request, CallStages
  <2> QED
    BY <1>1, <2>1, DeadStays DEF IInv
<1>4. Counted'
  BY <1>1, CountedStays DEF IInv, Counted
<1>5. Kept'
  <2>1. \A q \in Requests \ {r} : req'[q] = req[q]
    BY <1>1 DEF IInv, GatewayTypeOK
  <2>2. req'[r].read = policy
    BY <1>1 DEF IInv, GatewayTypeOK, Request
  <2> QED
    BY <1>1, <2>1, <2>2 DEF IInv, Kept, ReadIsFresh, SettingsAreKept
<1> QED
  BY <1>2, <1>3, <1>4, <1>5 DEF IInv, Counted, Kept

\* A save changes one setting of what it has read: of what is stored, unless it is late.
\* Every other update in flight is late from now on.
LEMMA SavePolicyKeeps ==
  ASSUME IInv, NEW r \in Requests, NEW setting \in {"enabled", "requireOrigin"},
         NEW value \in BOOLEAN, SavePolicy(r, setting, value)
  PROVE  IInv'
<1>1. /\ req[r].at = "save"
      /\ policy' = [req[r].read EXCEPT ![setting] = value]
      /\ asked' = IF req[r].late THEN policy' ELSE [asked EXCEPT ![setting] = value]
      /\ req' = [Late({"save"}) EXCEPT ![r] = Idle]
      /\ UNCHANGED <<now, key, counter, revoked, admitted>>
  BY DEF SavePolicy
<1>2. req[r].read \in Policy /\ asked \in Policy
  BY DEF IInv, GatewayTypeOK, Request
<1>3. /\ Late({"save"}) \in [Requests -> Request]
      /\ Idle \in Request
  <2>1. DefaultPolicy \in Policy
    BY DEF DefaultPolicy, Policy
  <2> QED
    BY <2>1, LateTypes, ZeroIsTime DEF IInv, Idle, Request
<1>4. GatewayTypeOK'
  <2>1. CASE setting = "enabled"
    <3>1. policy' \in Policy /\ asked' \in Policy
      BY <1>1, <1>2, <2>1 DEF Policy
    <3> QED
      BY <1>1, <1>3, <3>1 DEF IInv, GatewayTypeOK
  <2>2. CASE setting = "requireOrigin"
    <3>1. policy' \in Policy /\ asked' \in Policy
      BY <1>1, <1>2, <2>2 DEF Policy
    <3> QED
      BY <1>1, <1>3, <3>1 DEF IInv, GatewayTypeOK
  <2> QED
    BY <2>1, <2>2
<1>5. RevokedKeyIsDead'
  <2>1. \A q \in Requests : req'[q].at \in CallStages =>
                              req[q].at \in CallStages /\ req'[q].late = req[q].late
    BY <1>1, <1>3 DEF IInv, GatewayTypeOK, Request, CallStages, Late, Idle
  <2> QED
    BY <1>1, <2>1, DeadStays DEF IInv
<1>6. Counted'
  BY <1>1, CountedStays DEF IInv, Counted
<1>7. Kept'
  <2>1. \A q \in Requests : req'[q].at = "save" => req'[q].late
    BY <1>1, <1>3 DEF IInv, GatewayTypeOK, Request, Late, Idle
  <2>2. policy' = asked'
    BY <1>1 DEF IInv, ReadIsFresh, SettingsAreKept
  <2> QED
    BY <2>1, <2>2 DEF Kept, ReadIsFresh, SettingsAreKept
<1> QED
  BY <1>4, <1>5, <1>6, <1>7 DEF IInv, Counted, Kept

\* The clock goes on.
LEMMA TickKeeps == ASSUME IInv, Tick PROVE IInv'
<1>1. GatewayTypeOK'
  <2>1. now' \in Time
    BY GatewayAssumption DEF IInv, GatewayTypeOK, Tick, Time
  <2> QED
    BY <2>1 DEF IInv, GatewayTypeOK, Tick
<1>2. RevokedKeyIsDead'
  BY DEF IInv, Tick, RevokedKeyIsDead
<1>3. Counted'
  BY CountedStays DEF IInv, Tick, Counted
<1>4. Kept'
  BY KeptStays DEF IInv, Tick, Kept
<1> QED
  BY <1>1, <1>2, <1>3, <1>4 DEF IInv, Counted, Kept

\* Nothing happens.
LEMMA StutterKeeps == ASSUME IInv, UNCHANGED vars PROVE IInv'
BY DEF IInv, vars, GatewayTypeOK, RevokedKeyIsDead, EveryCallIsCounted, WindowsApart,
       ReadIsFresh, SettingsAreKept

\* Every step keeps the invariant.
LEMMA NextIInv == IInv /\ [Next]_vars => IInv'
<1> SUFFICES ASSUME IInv, [Next]_vars PROVE IInv'
  OBVIOUS
<1>1. CASE CreateKey \/ RevokeKey \/ RotateKey \/ Tick
  BY <1>1, CreateKeyKeeps, RevokeKeyKeeps, RotateKeyKeeps, TickKeeps
<1>2. ASSUME NEW r \in Requests, Verify(r) \/ ListKeys(r) \/ MarkExpired(r) PROVE IInv'
  BY <1>2, VerifyKeeps, MarkExpiredKeeps
<1>3. ASSUME NEW r \in Requests, NoteUse(r) \/ EnforcePolicy(r) \/ CountFirst(r) PROVE IInv'
  BY <1>3, CallGoesOnKeeps
<1>4. ASSUME NEW r \in Requests, InsertCounter(r) \/ CountRestart(r) \/ CountOneMore(r)
      PROVE  IInv'
  BY <1>4, InsertCounterKeeps, CountRestartKeeps, CountOneMoreKeeps
<1>5. ASSUME NEW r \in Requests, RequestEnds(r) \/ ReadPolicy(r) PROVE IInv'
  BY <1>5, RequestEndsKeeps, ReadPolicyKeeps
<1>6. ASSUME NEW r \in Requests, NEW setting \in {"enabled", "requireOrigin"},
             NEW value \in BOOLEAN, SavePolicy(r, setting, value)
      PROVE  IInv'
  BY <1>6, SavePolicyKeeps
<1>7. CASE UNCHANGED vars
  BY <1>7, StutterKeeps
<1> QED
  BY <1>1, <1>2, <1>3, <1>4, <1>5, <1>6, <1>7 DEF Next

-----------------------------------------------------------------------------
(***************************************************************************)
(* Theorems.                                                               *)
(***************************************************************************)

\* The inductive invariant holds in every reachable state.
THEOREM InvariantHolds == Spec => []IInv
BY InitIInv, NextIInv, PTL DEF Spec

\* The state always has its type; in particular no counter exceeds the limit.
THEOREM TypeCorrect == Spec => []GatewayTypeOK
<1>1. IInv => GatewayTypeOK
  BY DEF IInv
<1> QED
  BY <1>1, InvariantHolds, PTL

\* A revoked key stays dead until it is rotated, whatever calls were on their way.
THEOREM RevokedStaysDead == Spec => []RevokedKeyIsDead
<1>1. IInv => RevokedKeyIsDead
  BY DEF IInv
<1> QED
  BY <1>1, InvariantHolds, PTL

\* No window lets more calls through than the limit, and the counter knows them all.
THEOREM CallsAreCounted == Spec => []EveryCallIsCounted
<1>1. IInv => EveryCallIsCounted
  BY DEF IInv
<1> QED
  BY <1>1, InvariantHolds, PTL

\* Only overlapping updates of the policy lose a setting.
THEOREM SettingsKept == Spec => []SettingsAreKept
<1>1. IInv => SettingsAreKept
  BY DEF IInv
<1> QED
  BY <1>1, InvariantHolds, PTL

\* A call is let through in a window that may admit it, or not at all.
LEMMA AdmissionIsAllowed ==
  ASSUME IInv, NEW r \in Requests, InsertCounter(r) \/ CountRestart(r) \/ CountOneMore(r)
  PROVE  (\E t \in Time : Limiter!Admit(t)) \/ UNCHANGED admitted
<1>1. req[r].time \in Time /\ counter.start \in Time
  BY DEF IInv, GatewayTypeOK, Request
<1>2. CASE InsertCounter(r)
  <2>1. CASE counter.there
    BY <1>2, <2>1 DEF InsertCounter
  <2>2. CASE ~counter.there
    <3>1. \A t \in Time : admitted[t] = 0
      BY <2>2 DEF IInv, EveryCallIsCounted
    <3>2. Committed(req[r].time)
      BY <1>2, <2>2 DEF InsertCounter
    <3>3. Admit(req[r].time) => Limiter!Admit(req[r].time)
      BY <1>1, <3>1, GatewayAssumption DEF Admit, Limiter!Admit, Limiter!Opened
    <3> QED
      BY <1>1, <3>2, <3>3 DEF Committed
  <2> QED
    BY <2>1, <2>2
<1>3. CASE CountRestart(r)
  <2>1. /\ \A t \in Time : admitted[t] > 0 => t + Window <= req[r].time
        /\ admitted[req[r].time] = 0
    BY <1>3, NextWindowIsNew
  <2>2. Committed(req[r].time)
    BY <1>3 DEF CountRestart
  <2>3. Admit(req[r].time) => Limiter!Admit(req[r].time)
    BY <1>1, <2>1, GatewayAssumption DEF Admit, Limiter!Admit, Limiter!Opened
  <2> QED
    BY <1>1, <2>2, <2>3 DEF Committed
<1>4. CASE CountOneMore(r)
  <2>1. /\ admitted[counter.start] <= counter.count /\ counter.count < MaxRequests
        /\ \A t \in Time \ {counter.start} : admitted[t] > 0 => t + Window <= counter.start
    BY <1>4 DEF IInv, EveryCallIsCounted, WindowsApart, CountOneMore
  <2>2. admitted[counter.start] < MaxRequests
    <3>1. counter.count \in Nat /\ admitted[counter.start] \in Nat
      BY <1>1 DEF IInv, GatewayTypeOK
    <3> QED
      BY <2>1, <3>1, GatewayAssumption
  <2>3. Committed(counter.start)
    BY <1>4 DEF CountOneMore
  <2>4. Admit(counter.start) => Limiter!Admit(counter.start)
    BY <1>1, <2>1, <2>2 DEF Admit, Limiter!Admit, Limiter!Opened
  <2> QED
    BY <1>1, <2>3, <2>4 DEF Committed
<1> QED
  BY <1>2, <1>3, <1>4

\* Every step of the gateway is a step of the limiter or none.
LEMMA StepIsLimited == IInv /\ [Next]_vars => [Limiter!Next]_admitted
<1> SUFFICES ASSUME IInv, [Next]_vars PROVE [Limiter!Next]_admitted
  OBVIOUS
<1>1. ASSUME NEW r \in Requests, InsertCounter(r) \/ CountRestart(r) \/ CountOneMore(r)
      PROVE  [Limiter!Next]_admitted
  BY <1>1, AdmissionIsAllowed DEF Limiter!Next
<1>2. CASE \/ CreateKey \/ RevokeKey \/ RotateKey \/ Tick
           \/ \E r \in Requests :
                \/ Verify(r) \/ ListKeys(r) \/ MarkExpired(r) \/ NoteUse(r) \/ EnforcePolicy(r)
                \/ CountFirst(r) \/ RequestEnds(r) \/ ReadPolicy(r)
                \/ \E setting \in {"enabled", "requireOrigin"}, value \in BOOLEAN :
                     SavePolicy(r, setting, value)
  <2>1. UNCHANGED admitted
    BY <1>2 DEF CreateKey, RevokeKey, RotateKey, Tick, Verify, ListKeys, MarkExpired, NoteUse,
                EnforcePolicy, CountFirst, RequestEnds, ReadPolicy, SavePolicy
  <2> QED
    BY <2>1
<1>3. CASE UNCHANGED vars
  BY <1>3 DEF vars
<1> QED
  BY <1>1, <1>2, <1>3 DEF Next

\* The gateway implements the abstract limiter, for any number of racing calls and any
\* order of their clock readings.
THEOREM GatewayLimits == Spec => LimiterHolds
<1>1. Init => Limiter!Init
  BY DEF Init, Limiter!Init
<1> QED
  BY <1>1, InvariantHolds, StepIsLimited, PTL DEF Spec, LimiterHolds, Limiter!Spec
=============================================================================
