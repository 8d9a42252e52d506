------------------------ MODULE WorkloadSafety_proofs ------------------------
(***************************************************************************)
(* The safety properties of WorkloadAuthority, for every value of its       *)
(* constants, from the inductive invariant of WorkloadAuthority_proofs.     *)
(***************************************************************************)
EXTENDS WorkloadAuthority_proofs

\* "publish success after cancellation" does not happen: no interleaving of
\* request_cancel, complete and resolve_review completes a job whose
\* cancellation was requested or reported.
THEOREM CancelledNeverSucceeds == Spec => []NoSuccessAfterCancel
  <1>1. Consistent => NoSuccessAfterCancel
    BY DEF Consistent, OwnerInv, NoSuccessAfterCancel
  <1> QED
    BY <1>1, AlwaysConsistent, PTL

\* A queued or reviewing job is never left with its cancellation pending.
THEOREM CancelIsImmediate == Spec => []QueuedIsNotCancelled
  <1>1. Consistent => QueuedIsNotCancelled
    BY DEF Consistent, OwnerInv, QueuedIsNotCancelled
  <1> QED
    BY <1>1, AlwaysConsistent, PTL

\* Every provider lease in the budget belongs to a job in awaiting_provider
\* under the same worker and does not outlive that worker's lease.
THEOREM SlotsBelongToWorkers == Spec => []SlotsAreLive
  <1>1. Consistent => SlotsAreLive
    BY LeaseFacts DEF Consistent, TypeOK, ProviderInv, TokenInv, SlotInv, SlotsAreLive
  <1> QED
    BY <1>1, AlwaysConsistent, PTL

\* A worker that calls a provider under a good lease is inside the budget.
THEOREM CallsHoldSlots == Spec => []CallsAreBudgeted
  <1>1. Consistent => CallsAreBudgeted
    BY DEF Consistent, ProviderInv, CallInv, SessionValid, CallsAreBudgeted
  <1> QED
    BY <1>1, AlwaysConsistent, PTL

\* Every provider waiter is a live, uncancelled job that holds no slot.
THEOREM WaitersWait == Spec => []WaitersAreLive
  <1>1. Consistent => WaitersAreLive
    BY DEF Consistent, TypeOK, ProviderInv, SlotInv, WaiterInv, WaitersAreLive
  <1> QED
    BY <1>1, AlwaysConsistent, PTL

-----------------------------------------------------------------------------
(* What a step may not do. *)

LEMMA TerminalStep ==
    ASSUME TypeOK, OwnerInv, Next, NEW i \in Jobs, state[i] \in Terminal
    PROVE  state'[i] = state[i]
  <1> USE DEF TypeOK, Active, Terminal
  <1>r. ASSUME NEW s \in Ages, Recover(s) PROVE state'[i] = state[i]
    BY <1>r DEF Recover, Lapsed
  <1>1. ASSUME NEW j \in Jobs, Admission(j) PROVE state'[i] = state[i]
    BY <1>1 DEF Admission, Submit, RenewQueueWaiter, TryAdmit, WaitCancelled,
          CancelRow, OwnerInv, jobRow
  <1>2. ASSUME NEW j \in Jobs, OwnerRecovers(j) PROVE state'[i] = state[i]
    BY <1>2, <1>r DEF OwnerRecovers
  <1>3. ASSUME NEW j \in Jobs, Work(j) PROVE state'[i] = state[i]
    BY <1>3 DEF Work, Heartbeat, Progress, Checkpoint, BeginProviderWait,
          TryAcquireProvider, ReleaseProvider, RenewLease, MoveTo, Proceeds,
          SessionValid
  <1>4. ASSUME NEW j \in Jobs, Leaving(j) PROVE state'[i] = state[i]
    BY <1>4 DEF Leaving, Complete, StartComplete, Fail, CancelSession, AwaitReview,
          CancelSeen, TaskCancelled, SessionLost, Crash, Finish, RenewLease,
          Proceeds, SessionValid, jobRow
  <1>5. ASSUME NEW j \in Jobs, Users(j) PROVE state'[i] = state[i]
    BY <1>5 DEF Users, RequestCancel, CancelRow, ResolveReview
  <1>6. CASE Observe
    BY <1>6, <1>r DEF Observe
  <1>7. CASE Tick
    BY <1>7 DEF Tick
  <1> QED
    BY <1>1, <1>2, <1>3, <1>4, <1>5, <1>6, <1>7 DEF Next

\* A terminal job never changes again, whoever calls and however late.
THEOREM TerminalStays == Spec => TerminalIsFinal
  <1>1. Consistent /\ [Next]_vars
           => [\A j \in Jobs : state[j] \in Terminal => state'[j] = state[j]]_vars
    BY TerminalStep DEF Consistent
  <1> QED
    BY <1>1, AlwaysConsistent, PTL DEF Spec, TerminalIsFinal

\* A caller whose clock is late sees every lease that is still good as good.
LEMMA ExpiredFacts ==
    /\ \A l \in Null .. Lease, s \in Ages : Expired(l, s) => Expired(l, 0)
    /\ Expired(Null, 0)
    /\ \A l \in Null .. Lease :
          Expired(l, 0) => Expired(IF l > Null THEN l - 1 ELSE Null, 0)
  BY LeaseAssumption DEF Null, Ages, Expired

LEMMA LapsedStep ==
    ASSUME TypeOK, OwnerInv, Next, NEW i \in Jobs,
           state[i] \in Active, Expired(expires[i], 0)
    PROVE  \/ state'[i] = "failed"
           \/ state'[i] = state[i] /\ Expired(expires'[i], 0)
  <1> DEFINE Good == \/ state'[i] = "failed"
                     \/ state'[i] = state[i] /\ Expired(expires'[i], 0)
  <1> SUFFICES Good
    OBVIOUS
  <1> USE DEF TypeOK, Active, Terminal
  <1>r. ASSUME NEW s \in Ages, Recover(s) PROVE Good
    BY <1>r, ExpiredFacts DEF Recover, ClearWorker
  <1>1. ASSUME NEW j \in Jobs, Admission(j) PROVE Good
    BY <1>1, ExpiredFacts DEF Admission, Submit, RenewQueueWaiter, TryAdmit,
          WaitCancelled, CancelRow, ClearWorker, OwnerInv, jobRow
  <1>2. ASSUME NEW j \in Jobs, OwnerRecovers(j) PROVE Good
    BY <1>2, <1>r DEF OwnerRecovers
  <1>3. ASSUME NEW j \in Jobs, Work(j) PROVE Good
    <2>1. SessionValid(j) /\ i # j
      BY <1>3 DEF Work, Heartbeat, Progress, Checkpoint, BeginProviderWait,
            TryAcquireProvider, ReleaseProvider, Proceeds, SessionValid
    <2> QED
      BY <1>3, <2>1 DEF Work, Heartbeat, Progress, Checkpoint, BeginProviderWait,
            TryAcquireProvider, ReleaseProvider, RenewLease, MoveTo
  <1>4. ASSUME NEW j \in Jobs, Leaving(j) PROVE Good
    BY <1>4, ExpiredFacts DEF Leaving, Complete, StartComplete, Fail, CancelSession,
          AwaitReview, CancelSeen, TaskCancelled, SessionLost, Crash, Finish,
          RenewLease, ClearWorker, Proceeds, SessionValid, jobRow
  <1>5. ASSUME NEW j \in Jobs, Users(j) PROVE Good
    BY <1>5 DEF Users, RequestCancel, CancelRow, ClearWorker, ResolveReview, OwnerInv
  <1>6. CASE Observe
    BY <1>6, <1>r DEF Observe
  <1>7. CASE Tick
    BY <1>7, ExpiredFacts DEF Tick
  <1> QED
    BY <1>1, <1>2, <1>3, <1>4, <1>5, <1>6, <1>7 DEF Next

\* A worker whose lease has run out is only ever failed by a recovery.
THEOREM LapsedStays == Spec => LapsedWorkerOnlyFails
  <1> DEFINE Step == \A j \in Jobs : state[j] \in Active /\ Expired(expires[j], 0)
                        => \/ state'[j] = "failed"
                           \/ state'[j] = state[j] /\ Expired(expires'[j], 0)
  <1>1. Consistent /\ [Next]_vars => [Step]_vars
    BY LapsedStep DEF Consistent
  <1> QED
    BY <1>1, AlwaysConsistent, PTL DEF Spec, LapsedWorkerOnlyFails
-----------------------------------------------------------------------------
(* Budgets and capacities. *)

\* Sets of jobs are finite, so that they can be counted.
LEMMA JobSets ==
    ASSUME NEW S \in SUBSET Jobs
    PROVE  /\ IsFiniteSet(S) /\ Cardinality(S) \in Nat
           /\ \A T \in SUBSET S : Cardinality(T) <= Cardinality(S)
           /\ \A j \in Jobs : Cardinality(S \cup {j}) <= Cardinality(S) + 1
  <1>1. IsFiniteSet(Jobs)
    BY FS_Interval, JobsAssumption DEF Jobs
  <1>2. IsFiniteSet(S)
    BY <1>1, FS_Subset
  <1>3. Cardinality(S) \in Nat
    BY <1>2, FS_CardinalityType
  <1>4. \A T \in SUBSET S : Cardinality(T) <= Cardinality(S)
    BY <1>2, FS_Subset
  <1>5. ASSUME NEW j \in Jobs PROVE Cardinality(S \cup {j}) <= Cardinality(S) + 1
    BY <1>2, <1>3, FS_AddElement
  <1> QED
    BY <1>2, <1>3, <1>4, <1>5

\* Only the provider wait loop takes a slot, and only within the budget.
LEMMA OnlyAcquireTakesSlots ==
    ASSUME TypeOK, [Next]_vars, NEW p \in Providers
    PROVE  \/ \A i \in Jobs : slot'[i] = p => slot[i] = p
           \/ \E j \in Jobs, s \in Ages :
                 /\ Cardinality(Holders(p, s)) < Budget[p]
                 /\ \A i \in Jobs : slot'[i] = p => i = j \/ i \in Holders(p, s)
  <1> DEFINE NoneTaken == \A i \in Jobs : slot'[i] = p => slot[i] = p
             Granted == \E j \in Jobs, s \in Ages :
                 /\ Cardinality(Holders(p, s)) < Budget[p]
                 /\ \A i \in Jobs : slot'[i] = p => i = j \/ i \in Holders(p, s)
  <1> SUFFICES NoneTaken \/ Granted
    OBVIOUS
  <1> USE ProviderAssumption DEF TypeOK
  <1>r. ASSUME NEW S, ReleaseSlots(S) PROVE NoneTaken
    BY <1>r DEF ReleaseSlots
  <1>1. ASSUME NEW j \in Jobs, TryAcquireProvider(j) PROVE NoneTaken \/ Granted
    <2>1. PICK s \in Ages :
            slot' = [i \in Jobs |->
                IF /\ IsWaiterHead(j)
                   /\ Cardinality(Holders(providerId[j], s)) < Budget[providerId[j]]
                   /\ i = j
                THEN providerId[j]
                ELSE IF ~ (i \in ExpiredSlots(s)) THEN slot[i] ELSE NoProvider]
      BY <1>1 DEF TryAcquireProvider
    <2>2. CASE ~ (/\ IsWaiterHead(j)
                  /\ Cardinality(Holders(providerId[j], s)) < Budget[providerId[j]]
                  /\ providerId[j] = p)
      BY <2>1, <2>2
    <2>3. CASE /\ IsWaiterHead(j)
               /\ Cardinality(Holders(providerId[j], s)) < Budget[providerId[j]]
               /\ providerId[j] = p
      <3>1. ASSUME NEW i \in Jobs, slot'[i] = p, i # j
            PROVE  i \in Holders(p, s)
        BY <2>1, <3>1 DEF Holders, ExpiredSlots
      <3> QED
        BY <2>3, <3>1
    <2> QED
      BY <2>2, <2>3
  <1>2. ASSUME NEW j \in Jobs, Admission(j) PROVE NoneTaken
    BY <1>2, <1>r DEF Admission, Submit, RenewQueueWaiter, TryAdmit, WaitCancelled,
          CancelRow, slotRow
  <1>3. ASSUME NEW j \in Jobs, OwnerRecovers(j) PROVE NoneTaken
    BY <1>3, <1>r DEF OwnerRecovers, Recover
  <1>4. ASSUME NEW j \in Jobs, Work(j) PROVE NoneTaken \/ Granted
    BY <1>4, <1>1, <1>r DEF Work, Heartbeat, Progress, Checkpoint, BeginProviderWait,
          ReleaseProvider, RenewLease, slotRow
  <1>5. ASSUME NEW j \in Jobs, Leaving(j) PROVE NoneTaken
    BY <1>5, <1>r DEF Leaving, Complete, StartComplete, Fail, CancelSession, AwaitReview,
          CancelSeen, TaskCancelled, SessionLost, Crash, Finish, RenewLease, slotRow
  <1>6. ASSUME NEW j \in Jobs, Users(j) PROVE NoneTaken
    BY <1>6, <1>r DEF Users, RequestCancel, CancelRow, ResolveReview, slotRow
  <1>7. CASE Observe
    BY <1>7, <1>r DEF Observe, Recover
  <1>8. CASE Tick \/ UNCHANGED vars
    BY <1>8 DEF Tick, vars
  <1> QED
    BY <1>2, <1>3, <1>4, <1>5, <1>6, <1>7, <1>8 DEF Next

\* Never more unreleased leases of a provider than its budget, although expired
\* leases are marked late and the clock that counts them may be late too.
THEOREM ProviderBudgetHolds == Spec => []ProviderBudget
  <1>1. Init => ProviderBudget
    <2> SUFFICES ASSUME Init, NEW p \in Providers
                 PROVE  Cardinality({j \in Jobs : slot[j] = p}) <= Budget[p]
      BY DEF ProviderBudget
    <2>1. {j \in Jobs : slot[j] = p} = {}
      BY ProviderAssumption DEF Init
    <2> QED
      BY <2>1, FS_EmptySet, ProviderAssumption
  <1>2. Consistent /\ ProviderBudget /\ [Next]_vars => ProviderBudget'
    <2> SUFFICES ASSUME TypeOK, ProviderBudget, [Next]_vars, NEW p \in Providers
                 PROVE  Cardinality({j \in Jobs : slot[j] = p}') <= Budget[p]
      BY DEF ProviderBudget, Consistent
    <2> DEFINE Old == {j \in Jobs : slot[j] = p}
               New == {j \in Jobs : slot'[j] = p}
    <2>1. Cardinality(Old) <= Budget[p] /\ Cardinality(Old) \in Nat /\ Budget[p] \in Nat
      BY JobSets, ProviderAssumption DEF ProviderBudget
    <2>2. CASE \A i \in Jobs : slot'[i] = p => slot[i] = p
      <3>1. New \in SUBSET Old /\ Old \in SUBSET Jobs
        BY <2>2
      <3>2. Cardinality(New) \in Nat /\ Cardinality(New) <= Cardinality(Old)
        BY <3>1, JobSets
      <3> QED
        BY <2>1, <3>2
    <2>3. CASE \E j \in Jobs, s \in Ages :
                 /\ Cardinality(Holders(p, s)) < Budget[p]
                 /\ \A i \in Jobs : slot'[i] = p => i = j \/ i \in Holders(p, s)
      <3>1. PICK j \in Jobs, s \in Ages :
                 /\ Cardinality(Holders(p, s)) < Budget[p]
                 /\ \A i \in Jobs : slot'[i] = p => i = j \/ i \in Holders(p, s)
        BY <2>3
      <3> DEFINE H == Holders(p, s)
      <3>2. H \in SUBSET Jobs /\ H \cup {j} \in SUBSET Jobs /\ New \in SUBSET (H \cup {j})
        BY <3>1 DEF Holders
      <3> HIDE DEF New
      <3>3. /\ Cardinality(H) \in Nat /\ Cardinality(New) \in Nat
            /\ Cardinality(H \cup {j}) \in Nat
            /\ Cardinality(H \cup {j}) <= Cardinality(H) + 1
            /\ Cardinality(New) <= Cardinality(H \cup {j})
        BY <3>2, JobSets
      <3>4. Cardinality(New) <= Budget[p]
        BY <2>1, <3>1, <3>3
      <3> QED
        BY <3>4 DEF New
    <2> QED
      BY <2>2, <2>3, OnlyAcquireTakesSlots
  <1> QED
    BY <1>1, <1>2, AlwaysConsistent, PTL DEF Spec
\* Only an admission within the capacity makes a job count as a worker.
LEMMA OnlyAdmissionStartsWork ==
    ASSUME TypeOK, OwnerInv, [Next]_vars, NEW c \in Classes
    PROVE  \/ \A i \in Jobs : i \in ActiveIn(c, 0)' => i \in ActiveIn(c, 0)
           \/ \E j \in Jobs, s \in Ages :
                 /\ Cardinality(ActiveIn(c, s)) < Capacity[c]
                 /\ \A i \in Jobs : i \in ActiveIn(c, 0)' => i = j \/ i \in ActiveIn(c, s)
  <1> DEFINE NoneStarts == \A i \in Jobs : i \in ActiveIn(c, 0)' => i \in ActiveIn(c, 0)
             Admitted == \E j \in Jobs, s \in Ages :
                 /\ Cardinality(ActiveIn(c, s)) < Capacity[c]
                 /\ \A i \in Jobs : i \in ActiveIn(c, 0)' => i = j \/ i \in ActiveIn(c, s)
  <1> SUFFICES NoneStarts \/ Admitted
    OBVIOUS
  <1> USE DEF TypeOK
  <1>r. ASSUME NEW s \in Ages, Recover(s) PROVE NoneStarts
    BY <1>r DEF Recover, ClearWorker, ActiveIn, Active
  <1>1. ASSUME NEW j \in Jobs, TryAdmit(j) PROVE NoneStarts \/ Admitted
    <2>1. CASE ~ \E s \in Ages : /\ Admissible(j, s) /\ state[j] = "queued"
                                 /\ state' = [state EXCEPT ![j] = InitialState(KindOf[j])]
                                 /\ leaseToken' = [leaseToken EXCEPT ![j] = TRUE]
                                 /\ expires' = [expires EXCEPT ![j] = Lease - s]
      BY <1>1, <2>1 DEF TryAdmit, ActiveIn, jobRow
    <2>2. CASE \E s \in Ages : /\ Admissible(j, s) /\ state[j] = "queued"
                               /\ state' = [state EXCEPT ![j] = InitialState(KindOf[j])]
                               /\ leaseToken' = [leaseToken EXCEPT ![j] = TRUE]
                               /\ expires' = [expires EXCEPT ![j] = Lease - s]
      <3>1. PICK s \in Ages : /\ Admissible(j, s)
                              /\ state' = [state EXCEPT ![j] = InitialState(KindOf[j])]
                              /\ leaseToken' = [leaseToken EXCEPT ![j] = TRUE]
                              /\ expires' = [expires EXCEPT ![j] = Lease - s]
        BY <2>2
      <3>2. CASE Class(j) = c
        <4>1. \A i \in Jobs : i \in ActiveIn(c, 0)' => i = j \/ i \in ActiveIn(c, s)
          BY <3>1, ExpiredFacts DEF ActiveIn
        <4> QED
          BY <3>1, <3>2, <4>1 DEF Admissible
      <3>3. CASE Class(j) # c
        BY <3>1, <3>3 DEF ActiveIn
      <3> QED
        BY <3>2, <3>3
    <2> QED
      BY <2>1, <2>2
  <1>2. ASSUME NEW j \in Jobs, Admission(j) PROVE NoneStarts \/ Admitted
    <2>1. CASE Submit(j)
      BY <2>1 DEF Submit, ActiveIn, Active
    <2>2. CASE RenewQueueWaiter(j)
      BY <2>2 DEF RenewQueueWaiter, ActiveIn, Active, Terminal
    <2>3. CASE WaitCancelled(j)
      BY <2>3 DEF WaitCancelled, CancelRow, ClearWorker, ActiveIn, Active, jobRow
    <2> QED
      BY <1>1, <1>2, <2>1, <2>2, <2>3 DEF Admission
  <1>3. ASSUME NEW j \in Jobs, OwnerRecovers(j) PROVE NoneStarts
    BY <1>3, <1>r DEF OwnerRecovers
  <1>4. ASSUME NEW j \in Jobs, Work(j) PROVE NoneStarts
    <2>1. SessionValid(j)
      BY <1>4 DEF Work, Heartbeat, Progress, Checkpoint, BeginProviderWait,
            TryAcquireProvider, ReleaseProvider, Proceeds
    <2>2. \A i \in Jobs \ {j} : /\ state'[i] = state[i] /\ leaseToken'[i] = leaseToken[i]
                                /\ expires'[i] = expires[i]
      BY <1>4 DEF Work, Heartbeat, Progress, Checkpoint, BeginProviderWait,
            TryAcquireProvider, ReleaseProvider, RenewLease, MoveTo
    <2>3. state'[j] \in Active => state[j] \in Active
      BY <1>4, AllowedFacts DEF Work, Heartbeat, Progress, Checkpoint, BeginProviderWait,
            TryAcquireProvider, ReleaseProvider, RenewLease, MoveTo, Active
    <2> QED
      BY <2>1, <2>2, <2>3 DEF SessionValid, ActiveIn
  <1>5. ASSUME NEW j \in Jobs, Leaving(j) PROVE NoneStarts
    <2>1. CASE Complete(j) \/ Fail(j) \/ CancelSession(j)
      BY <2>1 DEF Complete, Fail, CancelSession, Finish, ClearWorker, ActiveIn, Active
    <2>2. CASE StartComplete(j)
      BY <2>2 DEF StartComplete, RenewLease, Proceeds, SessionValid, ActiveIn
    <2>3. CASE AwaitReview(j)
      BY <2>3 DEF AwaitReview, ClearWorker, ActiveIn, Active, jobRow
    <2>4. CASE CancelSeen(j) \/ TaskCancelled(j) \/ SessionLost(j) \/ Crash(j)
      BY <2>4 DEF CancelSeen, TaskCancelled, SessionLost, Crash, ActiveIn, jobRow
    <2> QED
      BY <1>5, <2>1, <2>2, <2>3, <2>4 DEF Leaving
  <1>6. ASSUME NEW j \in Jobs, Users(j) PROVE NoneStarts
    BY <1>6 DEF Users, RequestCancel, CancelRow, ClearWorker, ResolveReview, ActiveIn, Active
  <1>7. CASE Observe
    BY <1>7, <1>r DEF Observe
  <1>8. CASE Tick
    <2>1. \A i \in Jobs : Expired(expires[i], 0) => Expired(expires'[i], 0)
      BY <1>8, ExpiredFacts DEF Tick
    <2> QED
      BY <1>8, <2>1 DEF Tick, ActiveIn
  <1>9. CASE UNCHANGED vars
    BY <1>9 DEF vars, ActiveIn
  <1> QED
    BY <1>2, <1>3, <1>4, <1>5, <1>6, <1>7, <1>8, <1>9 DEF Next

\* Never more unexpired workers in a class than its capacity, however late the
\* clock that counted them at the admission of the last one.
THEOREM LocalCapacityHolds == Spec => []LocalCapacity
  <1>1. Init => LocalCapacity
    <2> SUFFICES ASSUME Init, NEW c \in Classes
                 PROVE  Cardinality(ActiveIn(c, 0)) <= Capacity[c]
      BY DEF LocalCapacity
    <2>1. ActiveIn(c, 0) = {}
      BY DEF Init, ActiveIn, Active
    <2> QED
      BY <2>1, FS_EmptySet, CapacityAssumption
  <1>2. Consistent /\ LocalCapacity /\ [Next]_vars => LocalCapacity'
    <2> SUFFICES ASSUME TypeOK, OwnerInv, LocalCapacity, [Next]_vars, NEW c \in Classes
                 PROVE  Cardinality(ActiveIn(c, 0)') <= Capacity[c]
      BY DEF LocalCapacity, Consistent
    <2> DEFINE Old == ActiveIn(c, 0)
               New == ActiveIn(c, 0)'
    <2>0. /\ New \in SUBSET Jobs
          /\ \A s \in Ages : ActiveIn(c, s) \in SUBSET Jobs
          /\ Old \in SUBSET Jobs
      BY DEF ActiveIn
    <2>1. /\ Cardinality(Old) <= Capacity[c] /\ Cardinality(Old) \in Nat
          /\ Cardinality(New) \in Nat /\ Capacity[c] \in Nat
      BY <2>0, JobSets, CapacityAssumption DEF LocalCapacity
    <2>2. CASE \A i \in Jobs : i \in New => i \in Old
      <3>1. New \in SUBSET Old
        BY <2>0, <2>2
      <3> HIDE DEF New, Old
      <3> QED
        BY <2>0, <2>1, <3>1, JobSets DEF New
    <2>3. CASE \E j \in Jobs, s \in Ages :
                 /\ Cardinality(ActiveIn(c, s)) < Capacity[c]
                 /\ \A i \in Jobs : i \in New => i = j \/ i \in ActiveIn(c, s)
      <3>1. PICK j \in Jobs, s \in Ages :
                 /\ Cardinality(ActiveIn(c, s)) < Capacity[c]
                 /\ \A i \in Jobs : i \in New => i = j \/ i \in ActiveIn(c, s)
        BY <2>3
      <3> DEFINE Seen == ActiveIn(c, s)
      <3>2. /\ Seen \in SUBSET Jobs /\ Seen \cup {j} \in SUBSET Jobs
            /\ New \in SUBSET (Seen \cup {j})
        BY <2>0, <3>1
      <3> HIDE DEF New
      <3>3. /\ Cardinality(Seen) \in Nat /\ Cardinality(Seen \cup {j}) \in Nat
            /\ Cardinality(Seen \cup {j}) <= Cardinality(Seen) + 1
            /\ Cardinality(New) <= Cardinality(Seen \cup {j})
        BY <3>2, JobSets
      <3>4. Cardinality(New) <= Capacity[c]
        BY <2>1, <3>1, <3>3
      <3> QED
        BY <3>4 DEF New
    <2> QED
      BY <2>2, <2>3, OnlyAdmissionStartsWork
  <1> QED
    BY <1>1, <1>2, AlwaysConsistent, PTL DEF Spec

-----------------------------------------------------------------------------
(* First come, first served. *)

\* No job overtakes a queued one of its class, across all processes.
THEOREM AdmissionIsFifoAlways == Spec => []AdmissionIsFifo
  <1>1. Init => AdmissionIsFifo
    BY DEF Init, AdmissionIsFifo
  <1>2. Consistent /\ AdmissionIsFifo /\ [Next]_vars => AdmissionIsFifo'
    <2> SUFFICES ASSUME TypeOK, OwnerInv, AdmissionIsFifo, [Next]_vars
                 PROVE  AdmissionIsFifo'
      BY DEF Consistent
    <2> USE DEF TypeOK, AdmissionIsFifo, Class
    <2>r. ASSUME NEW s \in Ages, Recover(s) PROVE AdmissionIsFifo'
      BY <2>r DEF Recover, ClearWorker
    <2>1. ASSUME NEW j \in Jobs, Admission(j) PROVE AdmissionIsFifo'
      <3>1. CASE Submit(j)
        BY <3>1 DEF Submit, OwnerInv, Jobs
      <3>2. CASE RenewQueueWaiter(j)
        BY <3>2 DEF RenewQueueWaiter
      <3>3. CASE TryAdmit(j)
        <4>1. \/ UNCHANGED <<state, leaseToken>>
              \/ /\ state' = [state EXCEPT ![j] = InitialState(KindOf[j])]
                 /\ leaseToken' = [leaseToken EXCEPT ![j] = TRUE]
                 /\ IsQueueHead(j)
          BY <3>3 DEF TryAdmit, Admissible, jobRow
        <4>2. CASE UNCHANGED <<state, leaseToken>>
          BY <4>2
        <4>3. CASE /\ state' = [state EXCEPT ![j] = InitialState(KindOf[j])]
                   /\ leaseToken' = [leaseToken EXCEPT ![j] = TRUE]
                   /\ IsQueueHead(j)
          <5>1. ASSUME NEW i \in Jobs, i < j, Class(i) = Class(j)
                PROVE  state[i] # "queued"
            BY <4>3, <5>1 DEF IsQueueHead, OwnerInv, Jobs
          <5>2. state'[j] # "queued"
            BY <4>3, InitialStateFacts
          <5> QED
            BY <4>3, <5>1, <5>2
        <4> QED
          BY <4>1, <4>2, <4>3
      <3>4. CASE WaitCancelled(j)
        BY <3>4 DEF WaitCancelled, CancelRow, ClearWorker, jobRow
      <3> QED
        BY <2>1, <3>1, <3>2, <3>3, <3>4 DEF Admission
    <2>2. ASSUME NEW j \in Jobs, OwnerRecovers(j) PROVE AdmissionIsFifo'
      BY <2>2, <2>r DEF OwnerRecovers
    <2>3. ASSUME NEW j \in Jobs, Work(j) PROVE AdmissionIsFifo'
      <3>1. /\ leaseToken[j] /\ leaseToken' = leaseToken
            /\ \A i \in Jobs \ {j} : state'[i] = state[i]
            /\ state'[j] = "queued" => state[j] = "queued"
        BY <2>3 DEF Work, Heartbeat, Progress, ProgressStates, Checkpoint,
              BeginProviderWait, TryAcquireProvider, ReleaseProvider, ResumeState,
              RenewLease, MoveTo, Proceeds, SessionValid
      <3> QED
        BY <3>1
    <2>4. ASSUME NEW j \in Jobs, Leaving(j) PROVE AdmissionIsFifo'
      <3>1. CASE Complete(j) \/ Fail(j) \/ CancelSession(j)
        BY <3>1 DEF Complete, Fail, CancelSession, Finish, ClearWorker, SessionValid
      <3>2. CASE StartComplete(j)
        BY <3>2 DEF StartComplete, RenewLease
      <3>3. CASE AwaitReview(j)
        BY <3>3 DEF AwaitReview, ClearWorker, SessionValid, jobRow
      <3>4. CASE CancelSeen(j) \/ TaskCancelled(j) \/ SessionLost(j) \/ Crash(j)
        BY <3>4 DEF CancelSeen, TaskCancelled, SessionLost, Crash, jobRow
      <3> QED
        BY <2>4, <3>1, <3>2, <3>3, <3>4 DEF Leaving
    <2>5. ASSUME NEW j \in Jobs, Users(j) PROVE AdmissionIsFifo'
      BY <2>5 DEF Users, RequestCancel, CancelRow, ClearWorker, ResolveReview
    <2>6. CASE Observe
      BY <2>6, <2>r DEF Observe
    <2>7. CASE Tick \/ UNCHANGED vars
      BY <2>7 DEF Tick, vars
    <2> QED
      BY <2>1, <2>2, <2>3, <2>4, <2>5, <2>6, <2>7 DEF Next
  <1> QED
    BY <1>1, <1>2, AlwaysConsistent, PTL DEF Spec
=============================================================================
