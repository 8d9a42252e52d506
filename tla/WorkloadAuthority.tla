-------------------------- MODULE WorkloadAuthority --------------------------
(***************************************************************************)
(* The persisted, cross-process workload authority of Broker Reports       *)
(* (broker_reports_gate1/workload_authority.py): FIFO admission under a     *)
(* capacity per resource class, worker leases with heartbeats, provider     *)
(* budgets with their own FIFO queue and leases, cooperative cancellation,  *)
(* review waiting and the recovery of workers that stopped renewing.        *)
(*                                                                         *)
(* Every method of the authority is one or more BEGIN IMMEDIATE             *)
(* transactions on one SQLite file.  One transaction is one action here;    *)
(* pc[j] is where the pipe invocation that submitted job j stands between   *)
(* two of its transactions, so that any other process may run in between.   *)
(*                                                                         *)
(* Jobs are numbered in the order of their AUTOINCREMENT sequence.  A job   *)
(* is admitted at most once and only by the invocation that submitted it,   *)
(* so its worker_id and lease_token are present or absent: leaseToken[j].   *)
(*                                                                         *)
(* Leases are kept as the number of clock ticks they still have.  Several   *)
(* methods read time.time() BEFORE they open their transaction and then     *)
(* wait for the file lock: their "now" is up to MaxStale ticks old, so they *)
(* see a lease s ticks longer, and the leases they grant are s ticks short. *)
(***************************************************************************)
EXTENDS Integers, FiniteSets

CONSTANTS
    MaxJobs,     \* bound: how many jobs are submitted
    KindOf,      \* the job_kind each job is submitted with
    Capacity,    \* WorkloadAuthorityConfig: local capacity of each class
    Providers,   \* the provider profiles that have a budget
    Budget,      \* WorkloadAuthorityConfig.provider_budgets
    NoProvider,  \* provider_id IS NULL
    Lease,       \* lease_seconds, in ticks
    MaxStale     \* bound: age of a "now" read before BEGIN IMMEDIATE

Jobs == 1 .. MaxJobs

Kinds == {"private_source_intake", "gate1", "gate2_source", "gate2_domain",
          "review", "lightweight_adapter"}

Classes == {"source_intake", "gate1_heavy", "gate2_local", "review_waiting",
            "lightweight_deterministic"}

ASSUME JobsAssumption == MaxJobs \in Nat /\ KindOf \in [Jobs -> Kinds]
ASSUME CapacityAssumption == Capacity \in [Classes -> Nat \ {0}]
ASSUME ProviderAssumption == /\ IsFiniteSet(Providers)
                             /\ NoProvider \notin Providers
                             /\ Budget \in [Providers -> Nat \ {0}]
ASSUME LeaseAssumption == Lease \in Nat \ {0} /\ MaxStale \in Nat

Active == {"source_intake", "normalizing", "building_document_memory",
           "validating", "preparing_gate2", "awaiting_provider"}

Terminal == {"completed", "failed", "cancelled"}

\* "absent": the row does not exist yet.
States == Active \cup Terminal \cup {"absent", "queued", "awaiting_review"}

ResourceOf(kind) ==
    CASE kind = "private_source_intake"            -> "source_intake"
      [] kind = "gate1"                            -> "gate1_heavy"
      [] kind \in {"gate2_source", "gate2_domain"} -> "gate2_local"
      [] kind = "review"                           -> "review_waiting"
      [] kind = "lightweight_adapter"              -> "lightweight_deterministic"

InitialState(kind) ==
    CASE kind \in {"private_source_intake", "gate1"} -> "source_intake"
      [] kind \in {"gate2_source", "gate2_domain"}   -> "preparing_gate2"
      [] kind = "review"                             -> "awaiting_review"
      [] kind = "lightweight_adapter"                -> "validating"

Allowed(from) ==
    CASE from = "source_intake" ->
            {"normalizing", "validating", "awaiting_provider"}
      [] from = "normalizing" ->
            {"building_document_memory", "validating", "awaiting_provider"}
      [] from = "building_document_memory" -> {"validating", "awaiting_provider"}
      [] from = "validating" -> {"awaiting_provider", "awaiting_review"}
      [] from = "preparing_gate2" -> {"awaiting_provider", "validating"}
      [] from = "awaiting_provider" ->
            {"normalizing", "building_document_memory", "validating",
             "preparing_gate2", "awaiting_review"}
      [] OTHER -> {}

Class(j) == ResourceOf(KindOf[j])

\* The targets the callers of session.transition ask for.
ProgressStates == {"normalizing", "building_document_memory", "validating"}

\* The resume_state every caller of provider_slot passes.
ResumeState == "validating"

-----------------------------------------------------------------------------
VARIABLES
    state,            \* workload_jobs.state
    cancelRequested,  \* workload_jobs.cancel_requested
    leaseToken,       \* workload_jobs.lease_token IS NOT NULL
    expires,          \* workload_jobs.lease_expires_epoch, in ticks from now
    providerId,       \* workload_jobs.provider_id
    providerToken,    \* workload_jobs.provider_lease_token IS NOT NULL
    slot,             \* provider_id of the job's unreleased provider lease
    slotExpires,      \* that lease's lease_expires_epoch, in ticks from now
    waiters,          \* jobs with a row in workload_provider_waiters
    ahead,            \* ahead[j]: the waiters for j's provider before j
    pc                \* where the invocation that owns job j stands

jobRow   == <<state, cancelRequested, leaseToken, expires, providerId,
              providerToken>>
slotRow  == <<slot, slotExpires>>
queueRow == <<waiters, ahead>>
vars     == <<state, cancelRequested, leaseToken, expires, providerId,
              providerToken, slot, slotExpires, waiters, ahead, pc>>

\* lease_expires_epoch IS NULL: expired for every "now" a caller can hold.
Null == 0 - MaxStale

Ages == 0 .. MaxStale

\* Where an owner is about to run the recovery transaction of a snapshot or
\* of try_admit, before it goes on.
RecoverPoints == {"recover", "look", "snap", "wait_snap", "finish_snap",
                  "cancel_snap", "tell", "end"}

\* Where an owner is about to call the authority with its session.
CallPoints == {"run", "acquire", "check", "slot", "leave", "finish",
               "cancelling"}

\* "gone": the owner crashed or left.  "told": it left after telling its
\* user that the workload was cancelled.
Points == {"idle", "submitted", "admit", "sleep", "gone", "told"}
              \cup RecoverPoints \cup CallPoints

Init ==
    /\ state           = [j \in Jobs |-> "absent"]
    /\ cancelRequested = [j \in Jobs |-> FALSE]
    /\ leaseToken      = [j \in Jobs |-> FALSE]
    /\ expires         = [j \in Jobs |-> Null]
    /\ providerId      = [j \in Jobs |-> NoProvider]
    /\ providerToken   = [j \in Jobs |-> FALSE]
    /\ slot            = [j \in Jobs |-> NoProvider]
    /\ slotExpires     = [j \in Jobs |-> Null]
    /\ waiters         = {}
    /\ ahead           = [j \in Jobs |-> {}]
    /\ pc              = [j \in Jobs |-> "idle"]

-----------------------------------------------------------------------------
(* What the transactions are built from. *)

GoTo(j, point) == pc' = [pc EXCEPT ![j] = point]

\* A lease with l ticks left, seen by a caller whose "now" is s ticks old.
Expired(l, s) == l + s <= 0

\* worker_id, lease_token, their expiry and the provider columns := NULL.
ClearWorker(S) ==
    /\ leaseToken'    = [j \in Jobs |-> leaseToken[j] /\ j \notin S]
    /\ expires'       = [j \in Jobs |-> IF j \in S THEN Null ELSE expires[j]]
    /\ providerId'    = [j \in Jobs |-> IF j \in S THEN NoProvider
                                                   ELSE providerId[j]]
    /\ providerToken' = [j \in Jobs |-> providerToken[j] /\ j \notin S]

\* UPDATE workload_provider_leases SET released_at for the jobs S.
ReleaseSlots(S) ==
    /\ slot'        = [j \in Jobs |-> IF j \in S THEN NoProvider ELSE slot[j]]
    /\ slotExpires' = [j \in Jobs |-> IF j \in S THEN Null ELSE slotExpires[j]]

\* DELETE FROM workload_provider_waiters for the jobs S.
Dequeue(S) ==
    /\ waiters' = waiters \ S
    /\ ahead'   = [j \in Jobs |-> IF j \in S THEN {} ELSE ahead[j] \ S]

\* INSERT OR IGNORE INTO workload_provider_waiters.
Enqueue(j, p) ==
    /\ waiters' = waiters \cup {j}
    /\ ahead'   = IF j \in waiters THEN ahead
                  ELSE [ahead EXCEPT ![j] = {i \in waiters : providerId[i] = p}]

\* Mutant: the expiry of the row is not compared with the clock.
SessionValidForever(j) == state[j] \notin Terminal /\ leaseToken[j]

\* _session_row: the row still belongs to the session and has not expired.
\* It is read inside the transaction, with a fresh clock.
SessionValid(j) ==
    /\ state[j] \notin Terminal
    /\ leaseToken[j]
    /\ ~Expired(expires[j], 0)

\* A session call that is neither refused nor interrupted by a cancellation.
Proceeds(j) == SessionValid(j) /\ ~cancelRequested[j]

\* Mutant: only the job's own lease is renewed.
RenewLeaseOfJob(j) ==
    /\ expires' = [expires EXCEPT ![j] = Lease]
    /\ UNCHANGED <<state, cancelRequested, leaseToken, providerId,
                   providerToken, slotRow>>

RenewLease(j) ==
    /\ expires' = [expires EXCEPT ![j] = Lease]
    /\ slotExpires' = IF providerToken[j] /\ slot[j] # NoProvider
                      THEN [slotExpires EXCEPT ![j] = Lease] ELSE slotExpires
    /\ UNCHANGED <<state, cancelRequested, leaseToken, providerId,
                   providerToken, slot>>

\* UPDATE workload_jobs SET state, lease_expires_epoch: the provider lease of
\* the job, had it one, would not be renewed.
MoveTo(j, target) ==
    /\ state'   = [state EXCEPT ![j] = target]
    /\ expires' = [expires EXCEPT ![j] = Lease]

-----------------------------------------------------------------------------
(* Recovery: recover_expired_workers, run by every snapshot and try_admit. *)

ExpiredSlots(s) == {j \in Jobs : slot[j] # NoProvider /\ Expired(slotExpires[j], s)}

\* Mutant: a queued job whose caller is gone is not recovered.
LapsedWorkers(s) ==
    {j \in Jobs : Expired(expires[j], s) /\ state[j] \in Active /\ leaseToken[j]}

\* A worker that stopped renewing, or a queued job whose caller stopped.
Lapsed(s) ==
    {j \in Jobs : /\ Expired(expires[j], s)
                  /\ \/ state[j] \in Active /\ leaseToken[j]
                     \/ state[j] = "queued"}

\* Mutant: the waiter row of a failed worker stays.
RecoverKeepsWaiters(s) ==
    /\ ReleaseSlots(ExpiredSlots(s))
    /\ state' = [j \in Jobs |-> IF j \in Lapsed(s) THEN "failed" ELSE state[j]]
    /\ ClearWorker(Lapsed(s))
    /\ UNCHANGED <<cancelRequested, queueRow>>

\* Mutant: a lease is released by its owner, or not at all.
RecoverKeepsSlots(s) ==
    /\ state' = [j \in Jobs |-> IF j \in Lapsed(s) THEN "failed" ELSE state[j]]
    /\ ClearWorker(Lapsed(s))
    /\ Dequeue(Lapsed(s))
    /\ UNCHANGED <<cancelRequested, slotRow>>

Recover(s) ==
    /\ ReleaseSlots(ExpiredSlots(s))
    /\ state' = [j \in Jobs |-> IF j \in Lapsed(s) THEN "failed" ELSE state[j]]
    /\ ClearWorker(Lapsed(s))
    /\ Dequeue(Lapsed(s))
    /\ UNCHANGED cancelRequested

\* Where the owner of j goes after the recovery at its present point.
AfterRecover(j) ==
    CASE pc[j] = "recover"     -> "admit"
      [] pc[j] = "look"        -> IF state[j] = "cancelled" THEN "told" ELSE "sleep"
      [] pc[j] = "snap"        -> "run"
      [] pc[j] = "wait_snap"   -> "acquire"
      [] pc[j] = "finish_snap" -> "finish"
      [] pc[j] = "cancel_snap" -> "cancelling"
      [] pc[j] = "tell"        -> "told"
      [] pc[j] = "end"         -> "gone"

OwnerRecovers(j) ==
    /\ pc[j] \in RecoverPoints
    /\ \E s \in Ages : Recover(s)
    /\ GoTo(j, AfterRecover(j))

\* snapshot by a user, by a session's cancellation monitor, or by a process
\* that constructs the authority after a restart.  request_cancel and
\* resolve_review end with one: a transaction of its own, before which other
\* processes may run or the caller die.
Observe ==
    /\ \E s \in Ages : Recover(s)
    /\ UNCHANGED pc

-----------------------------------------------------------------------------
(* Submission and admission. *)

Submit(j) ==
    /\ pc[j] = "idle"
    /\ \A i \in 1 .. j - 1 : pc[i] # "idle"
    /\ state' = [state EXCEPT ![j] = "queued"]
    /\ \E s \in Ages : expires' = [expires EXCEPT ![j] = Lease - s]
    /\ GoTo(j, "submitted")
    /\ UNCHANGED <<cancelRequested, leaseToken, providerId, providerToken,
                   slotRow, queueRow>>

\* The top of the wait_for_admission loop: _renew_queue_waiter.
RenewQueueWaiter(j) ==
    /\ pc[j] \in {"submitted", "sleep"}
    /\ \/ /\ state[j] \in Terminal
          /\ GoTo(j, "gone")
          /\ UNCHANGED expires
       \/ /\ state[j] = "queued"
          /\ \E s \in Ages :
                expires' = IF Expired(expires[j], s) THEN expires
                           ELSE [expires EXCEPT ![j] = Lease - s]
          /\ GoTo(j, "recover")
    /\ UNCHANGED <<state, cancelRequested, leaseToken, providerId,
                   providerToken, slotRow, queueRow>>

\* Mutant: any queued job may be admitted when there is room.
IsQueued(j) == state[j] = "queued"

IsQueueHead(j) ==
    \A i \in 1 .. j - 1 :
        ~ (Class(i) = Class(j) /\ state[i] = "queued" /\ ~cancelRequested[i])

\* The jobs _active_count counts at a "now" that is s ticks old.
ActiveIn(class, s) ==
    {i \in Jobs : /\ Class(i) = class
                  /\ state[i] \in Active
                  /\ leaseToken[i]
                  /\ ~Expired(expires[i], s)}

\* Mutant: one worker more than the capacity.
AdmissibleAtCapacity(j, s) ==
    /\ IsQueueHead(j)
    /\ Cardinality(ActiveIn(Class(j), s)) <= Capacity[Class(j)]

Admissible(j, s) == /\ IsQueueHead(j)
                    /\ Cardinality(ActiveIn(Class(j), s)) < Capacity[Class(j)]

\* The admission transaction of try_admit.  Its branch for a queued row with
\* cancel_requested is never reached (QueuedIsNotCancelled).
TryAdmit(j) ==
    /\ pc[j] = "admit"
    /\ \/ /\ state[j] \in Terminal
          /\ GoTo(j, "gone")
          /\ UNCHANGED jobRow
       \/ /\ state[j] = "queued"
          /\ \E s \in Ages :
                IF Admissible(j, s)
                THEN /\ state' = [state EXCEPT ![j] = InitialState(KindOf[j])]
                     /\ leaseToken' = [leaseToken EXCEPT ![j] = TRUE]
                     /\ expires' = [expires EXCEPT ![j] = Lease - s]
                     /\ GoTo(j, "run")
                ELSE /\ UNCHANGED <<state, leaseToken, expires>>
                     /\ GoTo(j, "look")
          /\ UNCHANGED <<cancelRequested, providerId, providerToken>>
    /\ UNCHANGED <<slotRow, queueRow>>

-----------------------------------------------------------------------------
(* The admitted worker: the calls of WorkloadSession. *)

\* The heartbeat thread of keepalive, which runs beside every session call.
Heartbeat(j) ==
    /\ pc[j] \in CallPoints \cup {"snap", "wait_snap", "finish_snap",
                                  "cancel_snap"}
    /\ SessionValid(j)
    /\ RenewLease(j)
    /\ UNCHANGED <<queueRow, pc>>

\* session.transition: a repeated state only renews the lease.
Progress(j) ==
    /\ pc[j] = "run"
    /\ Proceeds(j)
    /\ \E target \in ProgressStates :
          \/ target = state[j] /\ RenewLease(j)
          \/ /\ target \in Allowed(state[j])
             /\ MoveTo(j, target)
             /\ UNCHANGED <<cancelRequested, leaseToken, providerId,
                            providerToken, slotRow>>
    /\ GoTo(j, "snap")
    /\ UNCHANGED queueRow

\* session.checkpoint called by the pipe, on the way out of provider_slot and
\* in every round of the provider wait loop.
Checkpoint(j) ==
    /\ pc[j] \in {"run", "leave", "check"}
    /\ Proceeds(j)
    /\ RenewLease(j)
    /\ GoTo(j, IF pc[j] = "check" THEN "wait_snap" ELSE "snap")
    /\ UNCHANGED queueRow

\* session.complete opens with a checkpoint; Complete is its second half.
StartComplete(j) ==
    /\ pc[j] = "run"
    /\ Proceeds(j)
    /\ RenewLease(j)
    /\ GoTo(j, "finish_snap")
    /\ UNCHANGED queueRow

\* provider_slot, on entry: _begin_provider_wait.
BeginProviderWait(j, p) ==
    /\ pc[j] = "run"
    /\ Proceeds(j)
    /\ "awaiting_provider" \in Allowed(state[j])
    /\ MoveTo(j, "awaiting_provider")
    /\ providerId' = [providerId EXCEPT ![j] = p]
    /\ Enqueue(j, p)
    /\ GoTo(j, "acquire")
    /\ UNCHANGED <<cancelRequested, leaseToken, providerToken, slotRow>>

IsWaiterHead(j) == j \in waiters /\ ahead[j] = {}

\* Mutant: only leases in their last tick count against the budget.
HoldersAboutToExpire(p, s) == {i \in Jobs : slot[i] = p /\ slotExpires[i] = 1}

\* Unreleased leases of provider p that a "now" s ticks old finds unexpired.
Holders(p, s) == {i \in Jobs : slot[i] = p /\ ~Expired(slotExpires[i], s)}

\* One round of the provider wait loop: _try_acquire_provider releases what
\* has expired, then grants a lease to the head waiter within the budget.  Its
\* branch for a lease the job already holds is never reached (WaitersAreLive).
TryAcquireProvider(j) ==
    /\ pc[j] = "acquire"
    /\ Proceeds(j)
    /\ \E s \in Ages :
          LET p       == providerId[j]
              granted == /\ IsWaiterHead(j)
                         /\ Cardinality(Holders(p, s)) < Budget[p]
              kept(i) == ~ (i \in ExpiredSlots(s))
          IN  /\ slot' = [i \in Jobs |-> IF granted /\ i = j THEN p
                                         ELSE IF kept(i) THEN slot[i] ELSE NoProvider]
              /\ slotExpires' = [i \in Jobs |->
                                    IF granted /\ i = j THEN Lease - s
                                    ELSE IF kept(i) THEN slotExpires[i] ELSE Null]
              /\ expires' = [expires EXCEPT ![j] = IF granted THEN Lease - s ELSE Lease]
              /\ providerToken' = [providerToken EXCEPT ![j] = granted \/ @]
              /\ IF granted THEN Dequeue({j}) ELSE UNCHANGED queueRow
              /\ GoTo(j, IF granted THEN "slot" ELSE "check")
    /\ UNCHANGED <<state, cancelRequested, leaseToken, providerId>>

\* provider_slot, on the way out, whether the body returned or raised:
\* _release_provider does not look at cancel_requested.
ReleaseProvider(j) ==
    /\ pc[j] = "slot"
    /\ SessionValid(j)
    /\ providerToken[j]
    /\ state[j] = "awaiting_provider"
    /\ ReleaseSlots({j})
    /\ MoveTo(j, ResumeState)
    /\ providerId' = [providerId EXCEPT ![j] = NoProvider]
    /\ providerToken' = [providerToken EXCEPT ![j] = FALSE]
    /\ GoTo(j, "leave")
    /\ UNCHANGED <<cancelRequested, leaseToken, queueRow>>

\* _terminal: the job ends, its worker, waiter row and provider lease go.
Finish(j, outcome) ==
    /\ SessionValid(j)
    /\ state' = [state EXCEPT ![j] = outcome]
    /\ ClearWorker({j})
    /\ Dequeue({j})
    /\ ReleaseSlots({j})
    /\ UNCHANGED cancelRequested

\* Mutant: the flag is trusted to the checkpoint before.
CompleteAfterCheckpoint(j) ==
    /\ pc[j] = "finish"
    /\ Finish(j, "completed")
    /\ GoTo(j, "end")

\* The second transaction of session.complete.
Complete(j) ==
    /\ pc[j] = "finish"
    /\ ~cancelRequested[j]
    /\ Finish(j, "completed")
    /\ GoTo(j, "end")

\* session.fail, from the exception handler of the pipe.
Fail(j) ==
    /\ pc[j] = "run"
    /\ Finish(j, "failed")
    /\ GoTo(j, "end")

\* A session call finds cancel_requested and raises WorkloadCancelledError,
\* which the session answers with cancel().
CancelSeen(j) ==
    /\ pc[j] \in {"run", "acquire", "check", "leave", "finish"}
    /\ SessionValid(j)
    /\ cancelRequested[j]
    /\ GoTo(j, "cancelling")
    /\ UNCHANGED <<jobRow, slotRow, queueRow>>

\* The coroutine is cancelled at one of its awaits: cancellation_scope takes
\* a snapshot, then calls cancel().
TaskCancelled(j) ==
    /\ pc[j] \in {"run", "acquire"}
    /\ GoTo(j, "cancel_snap")
    /\ UNCHANGED <<jobRow, slotRow, queueRow>>

\* session.cancel: the pipe tells the user when a cancellation was requested,
\* and lets a bare task cancellation propagate.
CancelSession(j) ==
    /\ pc[j] = "cancelling"
    /\ Finish(j, "cancelled")
    /\ GoTo(j, IF cancelRequested[j] THEN "tell" ELSE "end")

\* session.await_review: the worker leaves, the job waits for a receipt.  It
\* does not answer a WorkloadCancelledError with cancel(): the pipe tells the
\* user that the workload is cancelled and leaves the row as it is.
AwaitReview(j) ==
    /\ pc[j] = "run"
    /\ SessionValid(j)
    /\ \/ /\ ~cancelRequested[j]
          /\ "awaiting_review" \in Allowed(state[j])
          /\ state' = [state EXCEPT ![j] = "awaiting_review"]
          /\ ClearWorker({j})
          /\ GoTo(j, "end")
          /\ UNCHANGED cancelRequested
       \/ /\ cancelRequested[j]
          /\ GoTo(j, "tell")
          /\ UNCHANGED jobRow
    /\ UNCHANGED <<slotRow, queueRow>>

\* A session call finds the row terminal, expired or taken away and raises;
\* the handler's session.fail raises the same, and the owner leaves.
SessionLost(j) ==
    /\ pc[j] \in CallPoints
    /\ ~SessionValid(j)
    /\ GoTo(j, "gone")
    /\ UNCHANGED <<jobRow, slotRow, queueRow>>

\* The process that runs the owner dies, at any point.
Crash(j) ==
    /\ pc[j] \notin {"idle", "gone", "told"}
    /\ GoTo(j, "gone")
    /\ UNCHANGED <<jobRow, slotRow, queueRow>>

-----------------------------------------------------------------------------
(* Calls by users, and time. *)

\* Mutant: the waiter row is left to the worker.
CancelRowKeepsWaiter(j) ==
    /\ state[j] \in Active /\ leaseToken[j]
    /\ cancelRequested' = [cancelRequested EXCEPT ![j] = TRUE]
    /\ UNCHANGED <<state, leaseToken, expires, providerId, providerToken,
                   slotRow, queueRow>>

\* Mutant of CancelRow: it marks the row and leaves the rest to the worker,
\* whether there is one or not.
CancelRowMarks(j) ==
    /\ state[j] \notin Terminal \cup {"absent"}
    /\ cancelRequested' = [cancelRequested EXCEPT ![j] = TRUE]
    /\ Dequeue({j})
    /\ UNCHANGED <<state, leaseToken, expires, providerId, providerToken,
                   slotRow>>

\* request_cancel on a job that is not terminal: immediate when no worker can
\* answer (_cancel_without_worker), a flag for the worker otherwise.  Either
\* way a waiting provider row is withdrawn.
CancelRow(j) ==
    /\ state[j] \notin Terminal \cup {"absent"}
    /\ cancelRequested' = [cancelRequested EXCEPT ![j] = TRUE]
    /\ Dequeue({j})
    /\ \/ /\ state[j] \in {"queued", "awaiting_review"} \/ ~leaseToken[j]
          /\ state' = [state EXCEPT ![j] = "cancelled"]
          /\ ClearWorker({j})
          /\ ReleaseSlots({j})
       \/ /\ state[j] \notin {"queued", "awaiting_review"} /\ leaseToken[j]
          /\ UNCHANGED <<state, leaseToken, expires, providerId,
                         providerToken, slotRow>>

RequestCancel(j) == CancelRow(j) /\ UNCHANGED pc

\* wait_for_admission is cancelled in its sleep and cancels its own row.
WaitCancelled(j) ==
    /\ pc[j] = "sleep"
    /\ \/ CancelRow(j)
       \/ /\ state[j] \in Terminal
          /\ UNCHANGED <<jobRow, slotRow, queueRow>>
    /\ GoTo(j, "end")

\* resolve_review with an accepted, a rejected (or unsupported) and an
\* unresolved decision; it leaves the worker columns alone.
ResolveReview(j, outcome) ==
    /\ state[j] = "awaiting_review"
    /\ state' = [state EXCEPT ![j] = outcome]
    /\ UNCHANGED <<cancelRequested, leaseToken, expires, providerId,
                   providerToken, slotRow, queueRow, pc>>

\* One tick of the clock.  A lease further past its end than any "now" is
\* late stays where it is.
Tick ==
    /\ expires'     = [j \in Jobs |-> IF expires[j] > Null THEN expires[j] - 1
                                                          ELSE Null]
    /\ slotExpires' = [j \in Jobs |-> IF slotExpires[j] > Null
                                      THEN slotExpires[j] - 1 ELSE Null]
    /\ UNCHANGED <<state, cancelRequested, leaseToken, providerId,
                   providerToken, slot, queueRow, pc>>

-----------------------------------------------------------------------------
Admission(j) ==
    Submit(j) \/ RenewQueueWaiter(j) \/ TryAdmit(j) \/ WaitCancelled(j)

Work(j) ==
    \/ Heartbeat(j) \/ Progress(j) \/ Checkpoint(j)
    \/ \E p \in Providers : BeginProviderWait(j, p)
    \/ TryAcquireProvider(j) \/ ReleaseProvider(j)

Leaving(j) ==
    \/ StartComplete(j) \/ Complete(j) \/ Fail(j) \/ AwaitReview(j)
    \/ CancelSession(j) \/ CancelSeen(j) \/ TaskCancelled(j)
    \/ SessionLost(j) \/ Crash(j)

Users(j) ==
    \/ RequestCancel(j)
    \/ \E outcome \in {"completed", "failed", "awaiting_review"} :
          ResolveReview(j, outcome)

Next ==
    \/ \E j \in Jobs : \/ Admission(j) \/ OwnerRecovers(j)
                       \/ Work(j) \/ Leaving(j) \/ Users(j)
    \/ Observe
    \/ Tick

Spec == Init /\ [][Next]_vars

\* What a live owner is bound to do next: go round its waiting loops, leave
\* the provider slot (provider calls have a transport timeout), act on a
\* refusal, and finish what complete() or cancel() began.
OwnerAdvances(j) ==
    \/ RenewQueueWaiter(j) \/ TryAdmit(j) \/ OwnerRecovers(j)
    \/ TryAcquireProvider(j) \/ ReleaseProvider(j)
    \/ pc[j] # "run" /\ Checkpoint(j)
    \/ Complete(j) \/ CancelSession(j) \/ CancelSeen(j) \/ SessionLost(j)

\* The body of a pipe is finite: an owner that comes back to it again and
\* again in the end publishes, fails or hands over to a review.
OwnerEnds(j) == StartComplete(j) \/ Fail(j) \/ AwaitReview(j)

\* Nothing is assumed of heartbeats, users, other processes or crashes.
LiveSpec == /\ Spec
            /\ WF_vars(Tick)
            /\ \A j \in Jobs : WF_vars(OwnerAdvances(j)) /\ SF_vars(OwnerEnds(j))

-----------------------------------------------------------------------------
(* What must hold. *)

TypeOK ==
    /\ state           \in [Jobs -> States]
    /\ cancelRequested \in [Jobs -> BOOLEAN]
    /\ leaseToken      \in [Jobs -> BOOLEAN]
    /\ expires         \in [Jobs -> Null .. Lease]
    /\ providerId      \in [Jobs -> Providers \cup {NoProvider}]
    /\ providerToken   \in [Jobs -> BOOLEAN]
    /\ slot            \in [Jobs -> Providers \cup {NoProvider}]
    /\ slotExpires     \in [Jobs -> Null .. Lease]
    /\ waiters         \in SUBSET Jobs
    /\ ahead           \in [Jobs -> SUBSET Jobs]
    /\ pc              \in [Jobs -> Points]

\* Never more unexpired workers in a resource class than its capacity:
\* try_admit counts with a "now" that may be stale while other workers lapse,
\* are recovered, park for review or come back from a provider wait.
LocalCapacity ==
    \A c \in Classes : Cardinality(ActiveIn(c, 0)) <= Capacity[c]

\* Never more unreleased provider leases than the budget of the provider, not
\* even when expired ones are still unmarked and a late heartbeat may renew
\* them.
ProviderBudget ==
    \A p \in Providers : Cardinality({j \in Jobs : slot[j] = p}) <= Budget[p]

\* "publish success after cancellation" is forbidden: a job whose
\* cancellation was requested, or reported to its user, is never completed,
\* whichever transaction of complete() or resolve_review comes between.
NoSuccessAfterCancel ==
    \A j \in Jobs : cancelRequested[j] \/ pc[j] = "told" => state[j] # "completed"

\* A provider lease in the budget belongs to a job that is in awaiting_provider
\* under the same worker and ends no later than that worker's own lease, so a
\* dead job gives its provider budget back in the same recovery.
SlotsAreLive ==
    \A j \in Jobs : slot[j] # NoProvider =>
        /\ state[j] = "awaiting_provider"
        /\ leaseToken[j] /\ providerToken[j]
        /\ providerId[j] = slot[j]
        /\ slotExpires[j] <= expires[j]

\* A worker inside provider_slot whose own lease is good is inside the budget:
\* no recovery takes its provider lease first and lets an extra call in.
CallsAreBudgeted ==
    \A j \in Jobs : pc[j] = "slot" /\ SessionValid(j) => slot[j] # NoProvider

\* Everyone in a provider queue is a job that will still ask for its turn:
\* the row of a cancelled, failed or finished job never blocks the head.
WaitersAreLive ==
    \A j \in waiters : /\ state[j] = "awaiting_provider"
                       /\ leaseToken[j] /\ ~providerToken[j]
                       /\ slot[j] = NoProvider
                       /\ ~cancelRequested[j]

\* Local admission is FIFO across all processes: while a job is queued, no
\* later job of its class has been admitted (a later one may only have been
\* cancelled, or failed by the recovery, in the queue).
AdmissionIsFifo ==
    \A i, j \in Jobs : i < j /\ Class(i) = Class(j) /\ state[i] = "queued"
        => /\ ~leaseToken[j]
           /\ state[j] \in {"absent", "queued", "failed", "cancelled"}

\* request_cancel ends a queued job and a job that waits for review at once:
\* none is left with the flag set, for a receipt or an admission to overtake.
QueuedIsNotCancelled ==
    \A j \in Jobs : state[j] \in {"queued", "awaiting_review"} => ~cancelRequested[j]

\* The inductive invariant behind the safety properties.
\* A job row exists once its owner submitted it, rows exist in submission
\* order, a working job has a worker, and a cancellation that was requested or
\* reported has not been overtaken.
OwnerInv ==
    \A j \in Jobs :
        /\ pc[j] = "idle" <=> state[j] = "absent"
        /\ \A i \in Jobs : i < j /\ pc[i] = "idle" => pc[j] = "idle"
        /\ state[j] \in Active => leaseToken[j]
        /\ state[j] \in {"absent", "queued"} => ~leaseToken[j]
        /\ state[j] \in {"absent", "queued", "awaiting_review", "completed"}
              => ~cancelRequested[j]
        /\ pc[j] \in {"tell", "told"} => cancelRequested[j] \/ state[j] = "cancelled"

\* A provider token is held by the owner inside provider_slot, or was by one
\* that is gone.
TokenInv(j) == providerToken[j] => /\ pc[j] \in {"slot", "gone"}
                                   /\ state[j] = "awaiting_provider"
                                   /\ leaseToken[j]

\* A provider lease ends exactly with its job's own lease.
SlotInv(j) == slot[j] # NoProvider => /\ providerToken[j]
                                      /\ providerId[j] = slot[j]
                                      /\ slotExpires[j] = expires[j]

\* The owner inside provider_slot has its lease until its own runs out.
CallInv(j) == pc[j] = "slot" /\ leaseToken[j] =>
                 providerToken[j] /\ (slot[j] # NoProvider \/ Expired(expires[j], 0))

\* The provider wait loop asks for a provider, and only it and provider_slot
\* leave the job in awaiting_provider.
WaitInv(j) ==
    /\ pc[j] \in {"acquire", "check", "wait_snap"} /\ leaseToken[j] =>
          state[j] = "awaiting_provider" /\ providerId[j] \in Providers
    /\ pc[j] \in {"run", "snap", "leave", "finish_snap", "finish"} =>
          state[j] # "awaiting_provider"

\* Only owners in that loop, or that left it without a terminal call, have a
\* waiter row.
WaiterInv(j) ==
    j \in waiters => /\ pc[j] \in {"acquire", "check", "wait_snap",
                                     "cancel_snap", "cancelling", "gone"}
                     /\ state[j] = "awaiting_provider"
                     /\ leaseToken[j] /\ ~providerToken[j]
                     /\ ~cancelRequested[j]

ProviderInv ==
    \A j \in Jobs : TokenInv(j) /\ SlotInv(j) /\ CallInv(j) /\ WaitInv(j) /\ WaiterInv(j)

Consistent == TypeOK /\ OwnerInv /\ ProviderInv

\* A terminal job never changes again: not by a heartbeat, a second terminal
\* call, a receipt, a cancellation or a recovery that started earlier.
TerminalIsFinal ==
    [][\A j \in Jobs : state[j] \in Terminal => state'[j] = state[j]]_vars

\* "A crashed worker becomes failed; it cannot become completed": once its
\* lease has run out a worker's row keeps its state until a recovery fails it,
\* and no late heartbeat, checkpoint or provider round revives the lease.
LapsedWorkerOnlyFails ==
    [][\A j \in Jobs : state[j] \in Active /\ Expired(expires[j], 0)
           => \/ state'[j] = "failed"
              \/ state'[j] = state[j] /\ Expired(expires'[j], 0)]_vars

\* A caller in wait_for_admission is admitted or told why not, though the
\* workers and waiters ahead of it crash, lapse or are cancelled: its own
\* polling recovers whatever blocks the head of its queue.
QueueIsServed ==
    \A j \in Jobs : pc[j] = "sleep"
        ~> pc[j] \notin {"sleep", "recover", "admit", "look"}

\* A worker in the provider wait loop gets its slot or stops waiting, though
\* the waiter at the head or the holder of the budget dies.
ProviderIsServed ==
    \A j \in Jobs : pc[j] = "acquire"
        ~> pc[j] \notin {"acquire", "check", "wait_snap"}

\* "Broker Reports workload cancelled": a pipe that tells its user so leaves
\* a job that is cancelled.
ToldMeansCancelled ==
    \A j \in Jobs : pc[j] = "told" => state[j] = "cancelled"
=============================================================================
