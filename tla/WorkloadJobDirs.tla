--------------------------- MODULE WorkloadJobDirs ---------------------------
(***************************************************************************)
(* The private temporary directories of the jobs, on top of                 *)
(* WorkloadAuthority: submit makes one inside its transaction, and every    *)
(* transaction that ends a job leaves it to _finalize_cleanup, which runs   *)
(* after the commit and outside any transaction: look at the directory,     *)
(* remove the tree, record the outcome.  The caller may die in between, or  *)
(* run beside other processes that sweep the same directory at every        *)
(* snapshot (_retry_pending_cleanup).                                       *)
(*                                                                         *)
(* A call of _finalize_cleanup is followed apart from the invocation that   *)
(* made it: Cleaners are such calls, each with the jobs it has still to do. *)
(***************************************************************************)
EXTENDS WorkloadAuthority

CONSTANT Cleaners  \* bound: how many cleanup loops run at a time

VARIABLES
    dir,      \* the job's private temp directory exists
    cleanup,  \* workload_jobs.cleanup_status
    todo,     \* the jobs a cleanup loop has still to finalize, in order
    job,      \* the one it is at
    step      \* what _finalize_cleanup does next with it

loopVars == <<todo, job, step>>
dirVars  == <<dir, cleanup, todo, job, step>>
allVars  == <<vars, dirVars>>

Statuses == {"pending", "cleaned", "cleanup_failed"}

\* "idle": between two jobs.  "remove": the directory was there and rmtree
\* runs.  A status: that is the outcome to be recorded.
Steps == {"idle", "remove", "cleaned", "cleanup_failed"}

DirInit ==
    /\ Init
    /\ dir     = [j \in Jobs |-> FALSE]
    /\ cleanup = [j \in Jobs |-> "pending"]
    /\ todo    = [c \in Cleaners |-> {}]
    /\ job     = [c \in Cleaners |-> 0]
    /\ step    = [c \in Cleaners |-> "idle"]

-----------------------------------------------------------------------------
(* The transactions of the authority. *)

\* The caller goes on to finalize the jobs S, or dies after the commit.
HandOver(S) ==
    /\ UNCHANGED <<dir, job, step>>
    /\ \/ UNCHANGED todo
       \/ \E c \in Cleaners : /\ todo[c] = {}
                              /\ todo' = [todo EXCEPT ![c] = S]

\* The row is inserted with cleanup_status 'pending' next to a new directory.
SubmitWithDir(j) ==
    /\ Submit(j)
    /\ dir' = [dir EXCEPT ![j] = TRUE]
    /\ UNCHANGED <<cleanup, loopVars>>

\* The jobs that a transaction brings to a terminal state.
Ended == {j \in Jobs : state'[j] # state[j] /\ state'[j] \in Terminal}

\* _terminal, _cancel_without_worker and recover_expired_workers: the end of a
\* job resets its cleanup_status.
End(A) ==
    /\ A
    /\ cleanup' = [j \in Jobs |-> IF j \in Ended THEN "pending" ELSE cleanup[j]]
    /\ HandOver(Ended)

\* _await_review removes the directory too, but leaves cleanup_status alone.
ParkWithDir(j) ==
    /\ AwaitReview(j)
    /\ UNCHANGED cleanup
    /\ HandOver({i \in Jobs : state'[i] # state[i]})

\* resolve_review ends a job and leaves its directory to the next sweep; no
\* other transaction has to do with directories.
OtherStep(j) ==
    /\ \/ RenewQueueWaiter(j) \/ TryAdmit(j) \/ Work(j) \/ StartComplete(j)
       \/ CancelSeen(j) \/ TaskCancelled(j) \/ SessionLost(j) \/ Crash(j)
       \/ \E outcome \in {"completed", "failed", "awaiting_review"} :
             ResolveReview(j, outcome)
    /\ UNCHANGED dirVars

-----------------------------------------------------------------------------
(* _finalize_cleanup and _retry_pending_cleanup. *)

\* Mutant: every row that is not recorded as cleaned is swept.
AnyUncleaned == {j \in Jobs : dir[j] /\ cleanup[j] # "cleaned"}

\* Mutant: a removal that failed is not tried again.
PendingOnly == {j \in Jobs : state[j] \in Terminal /\ cleanup[j] = "pending"}

\* The rows _retry_pending_cleanup selects.  A queued or working job is
\* 'pending' too.
Uncleaned == {j \in Jobs : /\ state[j] \in Terminal
                           /\ cleanup[j] \in {"pending", "cleanup_failed"}}

\* The second half of every snapshot.
Sweep(c) ==
    /\ todo[c] = {}
    /\ Uncleaned # {}
    /\ todo' = [todo EXCEPT ![c] = Uncleaned]
    /\ UNCHANGED <<vars, dir, cleanup, job, step>>

\* _remove_owned_temp_dir: candidate.exists().
Look(c) ==
    /\ step[c] = "idle"
    /\ \E j \in todo[c] :
          /\ \A i \in todo[c] : j <= i
          /\ job'  = [job EXCEPT ![c] = j]
          /\ step' = [step EXCEPT ![c] = IF dir[j] THEN "remove" ELSE "cleaned"]
    /\ UNCHANGED <<vars, dir, cleanup, todo>>

\* shutil.rmtree removes the whole tree.
Removed(c) ==
    /\ step[c] = "remove"
    /\ dir[job[c]]
    /\ dir'  = [dir EXCEPT ![job[c]] = FALSE]
    /\ step' = [step EXCEPT ![c] = "cleaned"]
    /\ UNCHANGED <<vars, cleanup, todo, job>>

\* Mutant: shutil.rmtree is called with ignore_errors.
ErrorIgnored(c) ==
    /\ step[c] = "remove"
    /\ step' = [step EXCEPT ![c] = "cleaned"]
    /\ UNCHANGED <<vars, dir, cleanup, todo, job>>

\* shutil.rmtree raises: a file is in use or was just written by a worker that
\* does not know that it is over, or another loop removed the tree first.
NotRemoved(c) ==
    /\ step[c] = "remove"
    /\ step' = [step EXCEPT ![c] = "cleanup_failed"]
    /\ UNCHANGED <<vars, dir, cleanup, todo, job>>

\* Mutant: the outcome is not looked at.
RecordCleaned(c) ==
    /\ step[c] \in {"cleaned", "cleanup_failed"}
    /\ cleanup' = [cleanup EXCEPT ![job[c]] = "cleaned"]
    /\ todo'    = [todo EXCEPT ![c] = @ \ {job[c]}]
    /\ step'    = [step EXCEPT ![c] = "idle"]
    /\ UNCHANGED <<vars, dir, job>>

\* The transaction of _finalize_cleanup, whatever became of the row since.
Record(c) ==
    /\ step[c] \in {"cleaned", "cleanup_failed"}
    /\ cleanup' = [cleanup EXCEPT ![job[c]] = step[c]]
    /\ todo'    = [todo EXCEPT ![c] = @ \ {job[c]}]
    /\ step'    = [step EXCEPT ![c] = "idle"]
    /\ UNCHANGED <<vars, dir, job>>

\* The process that runs the loop dies, at any point.
Die(c) ==
    /\ todo[c] # {}
    /\ todo' = [todo EXCEPT ![c] = {}]
    /\ step' = [step EXCEPT ![c] = "idle"]
    /\ UNCHANGED <<vars, dir, cleanup, job>>

-----------------------------------------------------------------------------
AuthorityStep ==
    \/ \E j \in Jobs :
          \/ SubmitWithDir(j) \/ ParkWithDir(j) \/ OtherStep(j)
          \/ End(Complete(j)) \/ End(Fail(j)) \/ End(CancelSession(j))
          \/ End(RequestCancel(j)) \/ End(WaitCancelled(j))
          \/ End(OwnerRecovers(j))
    \/ End(Observe)
    \/ Tick /\ UNCHANGED dirVars

CleanerStep ==
    \E c \in Cleaners :
        Sweep(c) \/ Look(c) \/ Removed(c) \/ NotRemoved(c) \/ Record(c) \/ Die(c)

DirNext == AuthorityStep \/ CleanerStep

DirSpec == DirInit /\ [][DirNext]_allVars

\* The authority goes on being asked for snapshots, some sweep is not cut off
\* by a crash, and what is in the way of a removal goes away.
LiveDirSpec ==
    /\ DirSpec
    /\ \A c \in Cleaners : /\ WF_allVars(Sweep(c))
                           /\ SF_allVars(Look(c))
                           /\ SF_allVars(Removed(c))
                           /\ SF_allVars(Record(c))

-----------------------------------------------------------------------------
(* What must hold. *)

DirTypeOK ==
    /\ dir     \in [Jobs -> BOOLEAN]
    /\ cleanup \in [Jobs -> Statuses]
    /\ todo    \in [Cleaners -> SUBSET Jobs]
    /\ job     \in [Cleaners -> Jobs \cup {0}]
    /\ step    \in [Cleaners -> Steps]

\* "cleaned" is true: no loop that failed, came late or was overtaken lets a
\* job end with a directory that no sweep will ever look at again.
CleanedIsGone == \A j \in Jobs : cleanup[j] = "cleaned" => ~dir[j]

\* Nobody removes the directory of a job that waits or works, though its
\* cleanup_status is 'pending' all the time and sweeps run beside it.
WorkersKeepTheirDirs ==
    \A j \in Jobs : state[j] \in Active \cup {"queued"} => dir[j]

\* The inductive invariant behind the two.
\* A loop is at jobs that are over or parked, and "cleaned" is about to be
\* recorded only where the directory is gone.
LoopInv(c) ==
    /\ \A j \in todo[c] : state[j] \in Terminal \cup {"awaiting_review"}
    /\ step[c] # "idle" => job[c] \in todo[c]
    /\ step[c] = "cleaned" => ~dir[job[c]]

DirInv ==
    /\ DirTypeOK
    /\ CleanedIsGone
    /\ WorkersKeepTheirDirs
    /\ \A j \in Jobs : state[j] = "absent" => cleanup[j] = "pending"
    /\ \A c \in Cleaners : LoopInv(c)

\* The directories of the jobs that are over end up removed and recorded as
\* removed for good, though callers die before or in their cleanup, removals fail,
\* and a job that was parked and cleaned ends later and is to be cleaned again.
TerminalIsCleaned ==
    <>[](\A j \in Jobs :
            state[j] \in Terminal => cleanup[j] = "cleaned" /\ ~dir[j])
=============================================================================
