----------------------- MODULE WorkloadAuthority_proofs -----------------------
(***************************************************************************)
(* Theorems of WorkloadAuthority for every number of jobs, every assignment *)
(* of kinds, every capacity and budget, and every lease length and age of a *)
(* caller's clock.                                                          *)
(***************************************************************************)
EXTENDS WorkloadAuthority, FiniteSetTheorems, TLAPS

\* The states and points the actions write are states and points.
LEMMA StateFacts ==
    /\ \A k \in Kinds : InitialState(k) \in Active \cup {"awaiting_review"}
    /\ ProgressStates \subseteq Active
    /\ ResumeState \in Active
  BY DEF Kinds, InitialState, Active, ProgressStates, ResumeState

LEMMA LeaseFacts ==
    /\ Null \in Int /\ Null <= 0 /\ Null <= Lease
    /\ Null \in Null .. Lease /\ Lease \in Null .. Lease
    /\ \A s \in Ages : Lease - s \in Null .. Lease
    /\ \A l \in Null .. Lease : l > Null => l - 1 \in Null .. Lease
  BY LeaseAssumption DEF Null, Ages

\* Each building block of a transaction keeps the type of what it writes.
LEMMA ClearWorkerType ==
    ASSUME TypeOK, NEW S, ClearWorker(S)
    PROVE  /\ leaseToken' \in [Jobs -> BOOLEAN]
           /\ expires' \in [Jobs -> Null .. Lease]
           /\ providerId' \in [Jobs -> Providers \cup {NoProvider}]
           /\ providerToken' \in [Jobs -> BOOLEAN]
  BY LeaseFacts DEF TypeOK, ClearWorker

LEMMA ReleaseSlotsType ==
    ASSUME TypeOK, NEW S, ReleaseSlots(S)
    PROVE  /\ slot' \in [Jobs -> Providers \cup {NoProvider}]
           /\ slotExpires' \in [Jobs -> Null .. Lease]
  BY LeaseFacts DEF TypeOK, ReleaseSlots

LEMMA DequeueType ==
    ASSUME TypeOK, NEW S, Dequeue(S)
    PROVE  waiters' \in SUBSET Jobs /\ ahead' \in [Jobs -> SUBSET Jobs]
  BY DEF TypeOK, Dequeue

LEMMA RenewLeaseType ==
    ASSUME TypeOK, NEW j \in Jobs, RenewLease(j)
    PROVE  /\ state' = state /\ cancelRequested' = cancelRequested
           /\ leaseToken' = leaseToken /\ providerId' = providerId
           /\ providerToken' = providerToken /\ slot' = slot
           /\ expires' \in [Jobs -> Null .. Lease]
           /\ slotExpires' \in [Jobs -> Null .. Lease]
  BY LeaseFacts DEF TypeOK, RenewLease

LEMMA RecoverType ==
    ASSUME TypeOK, NEW s \in Ages, Recover(s), pc' \in [Jobs -> Points]
    PROVE  TypeOK'
  <1>1. state' \in [Jobs -> States] /\ cancelRequested' = cancelRequested
    BY DEF TypeOK, Recover, States, Terminal
  <1> QED
    BY <1>1, ClearWorkerType, ReleaseSlotsType, DequeueType DEF TypeOK, Recover

LEMMA TypeInit == Init => TypeOK
  BY LeaseFacts DEF Init, TypeOK, States, Points

LEMMA TypeNext == TypeOK /\ [Next]_vars => TypeOK'
  <1> SUFFICES ASSUME TypeOK, [Next]_vars PROVE TypeOK'
    OBVIOUS
  <1>1. ASSUME NEW j \in Jobs, Admission(j) PROVE TypeOK'
    <2>1. CASE Submit(j)
      BY <2>1, LeaseFacts DEF Submit, TypeOK, GoTo, States, Points, slotRow, queueRow
    <2>2. CASE RenewQueueWaiter(j)
      BY <2>2, LeaseFacts DEF RenewQueueWaiter, TypeOK, GoTo, Points,
            RecoverPoints, slotRow, queueRow
    <2>3. CASE TryAdmit(j)
      <3>1. InitialState(KindOf[j]) \in States
        BY StateFacts, JobsAssumption DEF States
      <3>2. CASE UNCHANGED jobRow /\ GoTo(j, "gone")
        BY <2>3, <3>2 DEF TryAdmit, TypeOK, GoTo, Points, slotRow, queueRow, jobRow
      <3>3. CASE state[j] = "queued"
        <4>1. PICK s \in Ages :
                IF Admissible(j, s)
                THEN /\ state' = [state EXCEPT ![j] = InitialState(KindOf[j])]
                     /\ leaseToken' = [leaseToken EXCEPT ![j] = TRUE]
                     /\ expires' = [expires EXCEPT ![j] = Lease - s]
                     /\ GoTo(j, "run")
                ELSE /\ UNCHANGED <<state, leaseToken, expires>>
                     /\ GoTo(j, "look")
          BY <2>3, <3>3 DEF TryAdmit, Terminal
        <4>2. UNCHANGED <<cancelRequested, providerId, providerToken, slotRow, queueRow>>
          BY <2>3, <3>3 DEF TryAdmit, Terminal, jobRow
        <4>3. CASE Admissible(j, s)
          <5>1. state' \in [Jobs -> States] /\ leaseToken' \in [Jobs -> BOOLEAN]
            BY <3>1, <4>1, <4>3 DEF TypeOK
          <5>2. Lease - s \in Null .. Lease
            BY LeaseFacts
          <5>3. expires' \in [Jobs -> Null .. Lease]
            BY <4>1, <4>3, <5>2 DEF TypeOK
          <5>4. pc' \in [Jobs -> Points]
            BY <4>1, <4>3 DEF TypeOK, GoTo, Points, CallPoints
          <5> QED
            BY <4>2, <5>1, <5>3, <5>4 DEF TypeOK, slotRow, queueRow
        <4>4. CASE ~Admissible(j, s)
          BY <4>1, <4>2, <4>4 DEF TypeOK, GoTo, Points, RecoverPoints, slotRow, queueRow
        <4> QED
          BY <4>3, <4>4
      <3> QED
        BY <2>3, <3>2, <3>3 DEF TryAdmit
    <2>4. CASE WaitCancelled(j)
      BY <2>4, ClearWorkerType, ReleaseSlotsType, DequeueType DEF WaitCancelled,
            CancelRow, TypeOK, GoTo, Points, RecoverPoints, States, Terminal,
            slotRow, queueRow, jobRow
    <2> QED
      BY <1>1, <2>1, <2>2, <2>3, <2>4 DEF Admission
  <1>2. ASSUME NEW j \in Jobs, OwnerRecovers(j) PROVE TypeOK'
    <2>1. AfterRecover(j) \in Points
      BY <1>2 DEF OwnerRecovers, AfterRecover, RecoverPoints, CallPoints, Points
    <2> QED
      BY <1>2, <2>1, RecoverType DEF OwnerRecovers, GoTo, TypeOK
  <1>3. ASSUME NEW j \in Jobs, Work(j) PROVE TypeOK'
    <2>1. CASE Heartbeat(j)
      BY <2>1, RenewLeaseType DEF Heartbeat, TypeOK, queueRow
    <2>2. CASE Progress(j)
      BY <2>2, RenewLeaseType, StateFacts, LeaseFacts DEF Progress, MoveTo,
            TypeOK, GoTo, Points, RecoverPoints, States, slotRow, queueRow
    <2>3. CASE Checkpoint(j)
      BY <2>3, RenewLeaseType DEF Checkpoint, TypeOK, GoTo, Points,
            RecoverPoints, queueRow
    <2>4. ASSUME NEW p \in Providers, BeginProviderWait(j, p) PROVE TypeOK'
      BY <2>4, LeaseFacts DEF BeginProviderWait, MoveTo, Enqueue, TypeOK, GoTo,
            Points, CallPoints, States, Active, slotRow
    <2>5. CASE TryAcquireProvider(j)
      BY <2>5, DequeueType, LeaseFacts DEF TryAcquireProvider, TypeOK, GoTo,
            Points, CallPoints, queueRow
    <2>6. CASE ReleaseProvider(j)
      BY <2>6, ReleaseSlotsType, StateFacts, LeaseFacts DEF ReleaseProvider,
            MoveTo, TypeOK, GoTo, Points, CallPoints, States, queueRow
    <2> QED
      BY <1>3, <2>1, <2>2, <2>3, <2>4, <2>5, <2>6 DEF Work
  <1>4. ASSUME NEW j \in Jobs, Leaving(j) PROVE TypeOK'
    <2>1. ASSUME NEW outcome \in Terminal, Finish(j, outcome), NEW point \in Points,
                 GoTo(j, point)
          PROVE  TypeOK'
      BY <2>1, ClearWorkerType, ReleaseSlotsType, DequeueType DEF Finish, TypeOK,
            GoTo, States
    <2>2. CASE Complete(j) \/ Fail(j) \/ CancelSession(j)
      BY <2>1, <2>2 DEF Complete, Fail, CancelSession, Terminal, Points, RecoverPoints
    <2>3. CASE StartComplete(j)
      BY <2>3, RenewLeaseType DEF StartComplete, TypeOK, GoTo, Points,
            RecoverPoints, queueRow
    <2>4. CASE AwaitReview(j)
      BY <2>4, ClearWorkerType DEF AwaitReview, TypeOK, GoTo, Points,
            RecoverPoints, States, jobRow, slotRow, queueRow
    <2>5. CASE CancelSeen(j) \/ TaskCancelled(j) \/ SessionLost(j) \/ Crash(j)
      BY <2>5 DEF CancelSeen, TaskCancelled, SessionLost, Crash, TypeOK, GoTo,
            Points, RecoverPoints, CallPoints, jobRow, slotRow, queueRow
    <2> QED
      BY <1>4, <2>2, <2>3, <2>4, <2>5 DEF Leaving
  <1>5. ASSUME NEW j \in Jobs, Users(j) PROVE TypeOK'
    <2>1. CASE RequestCancel(j)
      BY <2>1, ClearWorkerType, ReleaseSlotsType, DequeueType DEF RequestCancel,
            CancelRow, TypeOK, States, Terminal, slotRow
    <2>2. ASSUME NEW outcome \in {"completed", "failed", "awaiting_review"},
                 ResolveReview(j, outcome)
          PROVE  TypeOK'
      BY <2>2 DEF ResolveReview, TypeOK, States, Terminal, slotRow, queueRow
    <2> QED
      BY <1>5, <2>1, <2>2 DEF Users
  <1>6. CASE Observe
    BY <1>6, RecoverType DEF Observe, TypeOK
  <1>7. CASE Tick
    BY <1>7, LeaseFacts DEF Tick, TypeOK, queueRow
  <1>8. CASE UNCHANGED vars
    BY <1>8 DEF TypeOK, vars
  <1> QED
    BY <1>1, <1>2, <1>3, <1>4, <1>5, <1>6, <1>7, <1>8 DEF Next

\* Every variable keeps its type; in particular no lease ever has more than
\* lease_seconds left, whichever clock granted or renewed it.
THEOREM TypeCorrect == Spec => []TypeOK
  <1> QED
    BY TypeInit, TypeNext, PTL DEF Spec

-----------------------------------------------------------------------------
(* The inductive invariant. *)

\* No owner starts in a wait, in a slot or with a report already made.
LEMMA OwnerInit == Init => OwnerInv
  BY DEF Init, OwnerInv, Active

LEMMA InitialStateFacts ==
    \A j \in Jobs : InitialState(KindOf[j]) \in
        {"source_intake", "preparing_gate2", "validating", "awaiting_review"}
  BY JobsAssumption DEF InitialState, Kinds

\* A repeated or an allowed target of session.transition starts from a state
\* in which a worker works.
LEMMA AllowedFacts ==
    ASSUME NEW from, NEW target \in Allowed(from)
    PROVE  from \in Active
  BY DEF Allowed, Active

LEMMA OwnerNext == TypeOK /\ OwnerInv /\ [Next]_vars => OwnerInv'
  <1> SUFFICES ASSUME TypeOK, OwnerInv, [Next]_vars PROVE OwnerInv'
    OBVIOUS
  <1> USE DEF TypeOK, OwnerInv, Active, Terminal, GoTo
  <1>r. ASSUME NEW s \in Ages, Recover(s), NEW f \in [Jobs -> Points], pc' = f,
               \A j \in Jobs : /\ f[j] = "idle" <=> pc[j] = "idle"
                               /\ f[j] \in {"tell", "told"} =>
                                     pc[j] \in {"tell", "told"} \/ state[j] = "cancelled"
        PROVE  OwnerInv'
    <2>1. ASSUME NEW j \in Jobs
          PROVE  /\ state'[j] = IF j \in Lapsed(s) THEN "failed" ELSE state[j]
                 /\ leaseToken'[j] = (leaseToken[j] /\ j \notin Lapsed(s))
                 /\ cancelRequested'[j] = cancelRequested[j]
      BY <1>r DEF Recover, ClearWorker
    <2>2. ASSUME NEW j \in Lapsed(s)
          PROVE  j \in Jobs /\ state[j] \in Active \cup {"queued"}
      BY DEF Lapsed
    <2> QED
      BY <1>r, <2>1, <2>2
  <1>1. ASSUME NEW j \in Jobs, Admission(j) PROVE OwnerInv'
    <2>1. CASE Submit(j)
      BY <2>1 DEF Submit, Jobs
    <2>2. CASE RenewQueueWaiter(j)
      BY <2>2, SMTT(30) DEF RenewQueueWaiter
    <2>3. CASE TryAdmit(j)
      BY <2>3, InitialStateFacts, SMTT(30) DEF TryAdmit, jobRow
    <2>4. CASE WaitCancelled(j)
      BY <2>4 DEF WaitCancelled, CancelRow, ClearWorker, slotRow, queueRow, jobRow
    <2> QED
      BY <1>1, <2>1, <2>2, <2>3, <2>4 DEF Admission
  <1>2. ASSUME NEW j \in Jobs, OwnerRecovers(j) PROVE OwnerInv'
    <2>1. AfterRecover(j) \in Points /\ AfterRecover(j) # "idle"
      BY <1>2 DEF OwnerRecovers, AfterRecover, RecoverPoints, CallPoints, Points
    <2>2. AfterRecover(j) \in {"tell", "told"} => pc[j] = "tell" \/ state[j] = "cancelled"
      BY <1>2 DEF OwnerRecovers, AfterRecover, RecoverPoints
    <2> QED
      BY <1>2, <2>1, <2>2, <1>r DEF OwnerRecovers, RecoverPoints
  <1>3. ASSUME NEW j \in Jobs, Work(j) PROVE OwnerInv'
    <2>1. CASE Heartbeat(j)
      BY <2>1 DEF Heartbeat, RenewLease
    <2>2. CASE Progress(j)
      BY <2>2, AllowedFacts DEF Progress, RenewLease, MoveTo, ProgressStates,
            Proceeds, SessionValid
    <2>3. CASE Checkpoint(j)
      BY <2>3 DEF Checkpoint, RenewLease
    <2>4. ASSUME NEW p \in Providers, BeginProviderWait(j, p) PROVE OwnerInv'
      BY <2>4 DEF BeginProviderWait, MoveTo, Proceeds, SessionValid
    <2>5. CASE TryAcquireProvider(j)
      BY <2>5 DEF TryAcquireProvider
    <2>6. CASE ReleaseProvider(j)
      BY <2>6 DEF ReleaseProvider, MoveTo, ResumeState, SessionValid
    <2> QED
      BY <1>3, <2>1, <2>2, <2>3, <2>4, <2>5, <2>6 DEF Work
  <1>4. ASSUME NEW j \in Jobs, Leaving(j) PROVE OwnerInv'
    <2>1. CASE Complete(j)
      BY <2>1 DEF Complete, Finish, ClearWorker, SessionValid
    <2>2. CASE Fail(j)
      BY <2>2 DEF Fail, Finish, ClearWorker, SessionValid
    <2>3. CASE CancelSession(j)
      BY <2>3 DEF CancelSession, Finish, ClearWorker, SessionValid
    <2>4. CASE StartComplete(j)
      BY <2>4 DEF StartComplete, RenewLease
    <2>5. CASE AwaitReview(j)
      BY <2>5 DEF AwaitReview, ClearWorker, SessionValid, jobRow
    <2>6. CASE CancelSeen(j)
      BY <2>6 DEF CancelSeen, jobRow
    <2>7. CASE TaskCancelled(j)
      BY <2>7 DEF TaskCancelled, jobRow
    <2>8. CASE SessionLost(j)
      BY <2>8 DEF SessionLost, CallPoints, jobRow
    <2>9. CASE Crash(j)
      BY <2>9 DEF Crash, jobRow
    <2> QED
      BY <1>4, <2>1, <2>2, <2>3, <2>4, <2>5, <2>6, <2>7, <2>8, <2>9 DEF Leaving
  <1>5. ASSUME NEW j \in Jobs, Users(j) PROVE OwnerInv'
    <2>1. CASE RequestCancel(j)
      BY <2>1 DEF RequestCancel, CancelRow, ClearWorker, States
    <2>2. ASSUME NEW outcome \in {"completed", "failed", "awaiting_review"},
                 ResolveReview(j, outcome)
          PROVE  OwnerInv'
      BY <2>2 DEF ResolveReview
    <2> QED
      BY <1>5, <2>1, <2>2 DEF Users
  <1>6. CASE Observe
    BY <1>6, <1>r DEF Observe
  <1>7. CASE Tick
    BY <1>7 DEF Tick
  <1>8. CASE UNCHANGED vars
    BY <1>8 DEF vars
  <1> QED
    BY <1>1, <1>2, <1>3, <1>4, <1>5, <1>6, <1>7, <1>8 DEF Next

\* No job has a provider lease or a waiter row before it is submitted.
LEMMA ProviderInit == Init => ProviderInv
  BY DEF Init, ProviderInv, TokenInv, SlotInv, CallInv, WaitInv, WaiterInv

LEMMA ProviderNext == TypeOK /\ OwnerInv /\ ProviderInv /\ [Next]_vars => ProviderInv'
  <1> SUFFICES ASSUME TypeOK, OwnerInv, ProviderInv, [Next]_vars PROVE ProviderInv'
    OBVIOUS
  <1> USE ProviderAssumption DEF TypeOK, ProviderInv, TokenInv, SlotInv, CallInv,
        WaitInv, WaiterInv, GoTo
  <1>r. ASSUME NEW s \in Ages, Recover(s),
               \A j \in Jobs : \/ pc'[j] = pc[j]
                               \/ pc[j] \in RecoverPoints /\ pc'[j] = AfterRecover(j)
        PROVE  ProviderInv'
    <2>1. ASSUME NEW j \in Jobs
          PROVE  /\ state'[j] = IF j \in Lapsed(s) THEN "failed" ELSE state[j]
                 /\ leaseToken'[j] = (leaseToken[j] /\ j \notin Lapsed(s))
                 /\ cancelRequested'[j] = cancelRequested[j]
                 /\ expires'[j] = IF j \in Lapsed(s) THEN Null ELSE expires[j]
                 /\ providerId'[j] = IF j \in Lapsed(s) THEN NoProvider ELSE providerId[j]
                 /\ providerToken'[j] = (providerToken[j] /\ j \notin Lapsed(s))
                 /\ slot'[j] = IF j \in ExpiredSlots(s) THEN NoProvider ELSE slot[j]
                 /\ slotExpires'[j] = IF j \in ExpiredSlots(s) THEN Null ELSE slotExpires[j]
                 /\ j \in waiters' <=> j \in waiters /\ j \notin Lapsed(s)
      BY <1>r DEF Recover, ClearWorker, ReleaseSlots, Dequeue
    <2>2. ASSUME NEW j \in Jobs, j \in Lapsed(s)
          PROVE  state[j] \in Active \cup {"queued"}
      BY <2>2 DEF Lapsed
    <2>3. ASSUME NEW j \in Jobs, slot[j] # NoProvider
          PROVE  j \in ExpiredSlots(s) <=> j \in Lapsed(s)
      BY <2>3 DEF ExpiredSlots, Lapsed, Active
    <2>4. ASSUME NEW j \in Jobs, j \in ExpiredSlots(s)
          PROVE  slot[j] # NoProvider
      BY <2>4 DEF ExpiredSlots
    <2>5. ASSUME NEW j \in Jobs, pc'[j] # pc[j]
          PROVE  \/ pc'[j] = "acquire" /\ pc[j] = "wait_snap"
                 \/ pc'[j] = "run" /\ pc[j] = "snap"
                 \/ pc'[j] = "finish" /\ pc[j] = "finish_snap"
                 \/ pc'[j] = "cancelling" /\ pc[j] = "cancel_snap"
                 \/ pc'[j] = "gone" /\ pc[j] = "end"
                 \/ pc'[j] \in {"admit", "told", "sleep"} /\ pc[j] \in {"recover", "look", "tell"}
      BY <1>r, <2>5 DEF AfterRecover, RecoverPoints
    <2> SUFFICES ASSUME NEW j \in Jobs
                 PROVE  /\ TokenInv(j)' /\ SlotInv(j)' /\ CallInv(j)'
                        /\ WaitInv(j)' /\ WaiterInv(j)'
      BY DEF ProviderInv
    <2>7. TokenInv(j)'
      BY <2>1, <2>5
    <2>8. SlotInv(j)'
      BY <2>1, <2>3
    <2>9. CallInv(j)'
      <3> SUFFICES ASSUME pc'[j] = "slot", leaseToken'[j]
                   PROVE  /\ providerToken'[j]
                          /\ slot'[j] # NoProvider \/ Expired(expires'[j], 0)
        OBVIOUS
      <3>1. pc[j] = "slot" /\ leaseToken[j] /\ j \notin Lapsed(s)
        BY <2>1, <2>5
      <3>2. providerToken'[j] /\ expires'[j] = expires[j]
        BY <2>1, <3>1
      <3>3. slot[j] # NoProvider => slot'[j] # NoProvider
        BY <2>1, <2>3, <3>1
      <3> QED
        BY <3>1, <3>2, <3>3
    <2>10. WaitInv(j)'
      BY <2>1, <2>5
    <2>11. WaiterInv(j)'
      BY <2>1, <2>5
    <2> QED
      BY <2>7, <2>8, <2>9, <2>10, <2>11
  <1>1. ASSUME NEW j \in Jobs, Admission(j) PROVE ProviderInv'
    <2>1. CASE Submit(j)
      BY <2>1 DEF Submit, OwnerInv, slotRow, queueRow
    <2>2. CASE RenewQueueWaiter(j)
      BY <2>2, SMTT(30) DEF RenewQueueWaiter, OwnerInv, slotRow, queueRow
    <2>3. CASE TryAdmit(j)
      BY <2>3, InitialStateFacts, SMTT(30) DEF TryAdmit, OwnerInv, jobRow, slotRow, queueRow
    <2>4. CASE WaitCancelled(j)
      BY <2>4, SMTT(30) DEF WaitCancelled, CancelRow, ClearWorker, ReleaseSlots, Dequeue,
            slotRow, queueRow, jobRow
    <2> QED
      BY <1>1, <2>1, <2>2, <2>3, <2>4 DEF Admission
  <1>2. ASSUME NEW j \in Jobs, OwnerRecovers(j) PROVE ProviderInv'
    <2>1. pc[j] \in RecoverPoints /\ pc' = [pc EXCEPT ![j] = AfterRecover(j)]
      BY <1>2 DEF OwnerRecovers
    <2> QED
      BY <1>2, <2>1, <1>r DEF OwnerRecovers
  <1>3. ASSUME NEW j \in Jobs, Work(j) PROVE ProviderInv'
    <2>1. CASE Heartbeat(j)
      BY <2>1, SMTT(30) DEF Heartbeat, RenewLease, SessionValid, queueRow
    <2>2. CASE Progress(j)
      BY <2>2, SMTT(30) DEF Progress, RenewLease, MoveTo, ProgressStates,
            Proceeds, SessionValid, slotRow, queueRow
    <2>3. CASE Checkpoint(j)
      BY <2>3, SMTT(30) DEF Checkpoint, RenewLease, Proceeds, SessionValid, queueRow
    <2>4. ASSUME NEW p \in Providers, BeginProviderWait(j, p) PROVE ProviderInv'
      BY <2>4, SMTT(30) DEF BeginProviderWait, MoveTo, Proceeds, SessionValid,
            Enqueue, slotRow
    <2>5. CASE TryAcquireProvider(j)
      <3> DEFINE Round(s, granted) ==
              /\ granted => j \in waiters
              /\ slot' = [i \in Jobs |->
                    IF granted /\ i = j THEN providerId[j]
                    ELSE IF i \notin ExpiredSlots(s) THEN slot[i] ELSE NoProvider]
              /\ slotExpires' = [i \in Jobs |->
                    IF granted /\ i = j THEN Lease - s
                    ELSE IF i \notin ExpiredSlots(s) THEN slotExpires[i] ELSE Null]
              /\ expires' = [expires EXCEPT ![j] = IF granted THEN Lease - s ELSE Lease]
              /\ providerToken' = [providerToken EXCEPT ![j] = granted \/ @]
              /\ IF granted THEN Dequeue({j}) ELSE UNCHANGED queueRow
              /\ pc' = [pc EXCEPT ![j] = IF granted THEN "slot" ELSE "check"]
      <3>0. PICK s \in Ages :
               Round(s, IsWaiterHead(j)
                        /\ Cardinality(Holders(providerId[j], s)) < Budget[providerId[j]])
        BY <2>5 DEF TryAcquireProvider, IsWaiterHead
      <3>1. PICK granted \in BOOLEAN : Round(s, granted)
        BY <3>0
      <3>2. UNCHANGED <<state, cancelRequested, leaseToken, providerId>>
            /\ pc[j] = "acquire" /\ SessionValid(j)
        BY <2>5 DEF TryAcquireProvider, Proceeds
      <3>3. ~providerToken[j] /\ slot[j] = NoProvider /\ providerId[j] \in Providers
            /\ state[j] = "awaiting_provider" /\ leaseToken[j]
        BY <3>2 DEF SessionValid
      <3>4. ASSUME NEW i \in Jobs, i # j
            PROVE  /\ pc'[i] = pc[i] /\ expires'[i] = expires[i]
                   /\ providerToken'[i] = providerToken[i]
                   /\ slot'[i] = IF i \notin ExpiredSlots(s) THEN slot[i] ELSE NoProvider
                   /\ slotExpires'[i] = IF i \notin ExpiredSlots(s) THEN slotExpires[i] ELSE Null
                   /\ i \in waiters' <=> i \in waiters
        BY <3>1, <3>4 DEF Dequeue, queueRow
      <3>5. ASSUME NEW i \in Jobs, i \in ExpiredSlots(s), SlotInv(i)
            PROVE  Expired(expires[i], 0)
        BY <3>5, LeaseAssumption DEF ExpiredSlots, Expired, Ages, Null
      <3>6. ASSUME NEW i \in Jobs, i # j
            PROVE  TokenInv(i)' /\ SlotInv(i)' /\ CallInv(i)' /\ WaitInv(i)' /\ WaiterInv(i)'
        BY <3>2, <3>4, <3>5, <3>6
      <3>7. CASE granted
        BY <3>1, <3>2, <3>3, <3>6, <3>7 DEF Dequeue
      <3>8. CASE ~granted
        <4>1. slot'[j] = NoProvider /\ ~providerToken'[j] /\ pc'[j] = "check"
              /\ waiters' = waiters
          BY <3>1, <3>3, <3>8 DEF queueRow
        <4> QED
          BY <3>2, <3>3, <3>6, <4>1
      <3> QED
        BY <3>7, <3>8
    <2>6. CASE ReleaseProvider(j)
      BY <2>6, SMTT(30) DEF ReleaseProvider, MoveTo, ResumeState, SessionValid,
            ReleaseSlots, queueRow
    <2> QED
      BY <1>3, <2>1, <2>2, <2>3, <2>4, <2>5, <2>6 DEF Work
  <1>4. ASSUME NEW j \in Jobs, Leaving(j) PROVE ProviderInv'
    <2>1. ASSUME NEW outcome \in Terminal, Finish(j, outcome),
                 NEW point \in {"end", "tell"}, GoTo(j, point)
          PROVE  ProviderInv'
      <3>1. ASSUME NEW i \in Jobs, i # j
            PROVE  /\ pc'[i] = pc[i] /\ state'[i] = state[i]
                   /\ cancelRequested'[i] = cancelRequested[i]
                   /\ leaseToken'[i] = leaseToken[i] /\ expires'[i] = expires[i]
                   /\ providerId'[i] = providerId[i]
                   /\ providerToken'[i] = providerToken[i]
                   /\ slot'[i] = slot[i] /\ slotExpires'[i] = slotExpires[i]
                   /\ i \in waiters' <=> i \in waiters
        BY <2>1, <3>1 DEF Finish, ClearWorker, ReleaseSlots, Dequeue
      <3>2. /\ pc'[j] = point /\ state'[j] = outcome /\ ~leaseToken'[j]
            /\ ~providerToken'[j] /\ slot'[j] = NoProvider /\ j \notin waiters'
        BY <2>1 DEF Finish, ClearWorker, ReleaseSlots, Dequeue
      <3> QED
        BY <3>1, <3>2
    <2>2. CASE Complete(j)
      BY <2>1, <2>2 DEF Complete, Terminal
    <2>3. CASE Fail(j)
      BY <2>1, <2>3 DEF Fail, Terminal
    <2>4. CASE CancelSession(j)
      BY <2>1, <2>4 DEF CancelSession, Terminal
    <2>5. CASE StartComplete(j)
      BY <2>5, SMTT(30) DEF StartComplete, RenewLease, Proceeds, SessionValid, queueRow
    <2>6. CASE AwaitReview(j)
      BY <2>6, SMTT(30) DEF AwaitReview, ClearWorker, jobRow, slotRow, queueRow
    <2>7. CASE CancelSeen(j)
      BY <2>7 DEF CancelSeen, jobRow, slotRow, queueRow
    <2>8. CASE TaskCancelled(j)
      BY <2>8 DEF TaskCancelled, jobRow, slotRow, queueRow
    <2>9. CASE SessionLost(j)
      BY <2>9 DEF SessionLost, jobRow, slotRow, queueRow
    <2>10. CASE Crash(j)
      BY <2>10 DEF Crash, jobRow, slotRow, queueRow
    <2> QED
      BY <1>4, <2>2, <2>3, <2>4, <2>5, <2>6, <2>7, <2>8, <2>9, <2>10 DEF Leaving
  <1>5. ASSUME NEW j \in Jobs, Users(j) PROVE ProviderInv'
    <2>1. CASE RequestCancel(j)
      BY <2>1, SMTT(30) DEF RequestCancel, CancelRow, ClearWorker, ReleaseSlots, Dequeue, slotRow
    <2>2. ASSUME NEW outcome \in {"completed", "failed", "awaiting_review"},
                 ResolveReview(j, outcome)
          PROVE  ProviderInv'
      BY <2>2, SMTT(30) DEF ResolveReview, slotRow, queueRow
    <2> QED
      BY <1>5, <2>1, <2>2 DEF Users
  <1>6. CASE Observe
    BY <1>6, <1>r DEF Observe
  <1>7. CASE Tick
    <2>1. ASSUME NEW j \in Jobs
          PROVE  /\ Expired(expires[j], 0) => Expired(expires'[j], 0)
                 /\ slotExpires[j] = expires[j] => slotExpires'[j] = expires'[j]
      BY <1>7, LeaseAssumption DEF Tick, Expired, Null
    <2> QED
      BY <1>7, <2>1 DEF Tick, queueRow
  <1>8. CASE UNCHANGED vars
    BY <1>8 DEF vars
  <1> QED
    BY <1>1, <1>2, <1>3, <1>4, <1>5, <1>6, <1>7, <1>8 DEF Next

\* The inductive invariant holds of every behaviour: rows, owners, provider
\* leases and waiter rows always agree with each other.
THEOREM AlwaysConsistent == Spec => []Consistent
  <1>1. Init => Consistent
    BY TypeInit, OwnerInit, ProviderInit DEF Consistent
  <1>2. Consistent /\ [Next]_vars => Consistent'
    BY TypeNext, OwnerNext, ProviderNext DEF Consistent
  <1> QED
    BY <1>1, <1>2, PTL DEF Spec
=============================================================================
