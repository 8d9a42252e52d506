----------------------- MODULE WorkloadJobDirs_proofs -----------------------
(***************************************************************************)
(* No cleanup loop takes a directory from a job that waits or works, or     *)
(* lets it be recorded as cleaned while it is there: for every number of    *)
(* jobs and of loops, and every order of their steps.                       *)
(***************************************************************************)
EXTENDS WorkloadJobDirs, WorkloadRefinement_proofs

\* The steps of the authority that may be taken with directories are those of
\* the authority without them, and nothing else touches its state.
LEMMA DirsAreBesides == [DirNext]_allVars => [Next]_vars
  <1> SUFFICES ASSUME [DirNext]_allVars PROVE [Next]_vars
    OBVIOUS
  <1>1. CASE AuthorityStep
    BY <1>1 DEF AuthorityStep, SubmitWithDir, ParkWithDir, OtherStep, End, Next,
          Admission, Leaving, Users
  <1>2. CASE CleanerStep
    BY <1>2 DEF CleanerStep, Sweep, Look, Removed, NotRemoved, Record, Die
  <1>3. CASE UNCHANGED allVars
    BY <1>3 DEF allVars
  <1> QED
    BY <1>1, <1>2, <1>3 DEF DirNext

\* _finalize_cleanup and the sweeps do nothing to the rows of the authority that it
\* would not do without them: what is proved of it holds beside its cleanup.
THEOREM DirsImplementAuthority == DirSpec => Spec
  <1>1. DirInit => Init
    BY DEF DirInit
  <1> QED
    BY <1>1, DirsAreBesides, PTL DEF DirSpec, Spec

-----------------------------------------------------------------------------
\* A job leaves "absent" only when it is submitted, never comes back to the
\* queue, and never works again once it is parked or over.
Onward(i) ==
    \/ state'[i] = state[i]
    \/ /\ state[i] \in Active \cup {"queued"}
       /\ state'[i] \in Active \cup Terminal \cup {"awaiting_review"}
    \/ state[i] = "awaiting_review" /\ state'[i] \in Terminal

\* Of the steps that end jobs.
LEMMA EndingStep ==
    ASSUME TypeOK, OwnerInv, NEW i \in Jobs,
           \/ Observe
           \/ \E j \in Jobs : \/ Complete(j) \/ Fail(j) \/ CancelSession(j)
                              \/ RequestCancel(j) \/ WaitCancelled(j)
                              \/ OwnerRecovers(j)
    PROVE  Onward(i)
  <1> USE DEF TypeOK, Onward, Terminal
  <1>r. ASSUME NEW s \in Ages, Recover(s) PROVE Onward(i)
    BY <1>r DEF Recover, Lapsed
  <1>f. ASSUME NEW j \in Jobs, NEW outcome \in Terminal, Finish(j, outcome)
        PROVE  Onward(i)
    <2>1. state[j] \in Active \cup {"awaiting_review"}
      BY <1>f DEF Finish, SessionValid, OwnerInv, States
    <2> QED
      BY <1>f, <2>1 DEF Finish
  <1>c. ASSUME NEW j \in Jobs, CancelRow(j) PROVE Onward(i)
    BY <1>c DEF CancelRow, States
  <1>1. CASE Observe
    BY <1>1, <1>r DEF Observe
  <1>2. ASSUME NEW j \in Jobs, OwnerRecovers(j) PROVE Onward(i)
    BY <1>2, <1>r DEF OwnerRecovers
  <1>3. ASSUME NEW j \in Jobs, Complete(j) \/ Fail(j) \/ CancelSession(j)
        PROVE  Onward(i)
    BY <1>3, <1>f DEF Complete, Fail, CancelSession
  <1>4. ASSUME NEW j \in Jobs, RequestCancel(j) \/ WaitCancelled(j) PROVE Onward(i)
    BY <1>4, <1>c DEF RequestCancel, WaitCancelled, jobRow
  <1> QED
    BY <1>1, <1>2, <1>3, <1>4

\* Of the steps that have to do with no directory, and of await_review.
LEMMA OtherSteps ==
    ASSUME TypeOK, OwnerInv, NEW i \in Jobs, NEW j \in Jobs,
           OtherStep(j) \/ AwaitReview(j)
    PROVE  Onward(i)
  <1> USE DEF TypeOK, Onward
  <1>1. CASE RenewQueueWaiter(j) \/ StartComplete(j) \/ CancelSeen(j)
             \/ TaskCancelled(j) \/ SessionLost(j) \/ Crash(j)
    BY <1>1 DEF RenewQueueWaiter, StartComplete, RenewLease, CancelSeen,
          TaskCancelled, SessionLost, Crash, jobRow
  <1>2. CASE TryAdmit(j)
    BY <1>2, StateFacts, JobsAssumption DEF TryAdmit, jobRow
  <1>3. CASE Work(j)
    <2>1. CASE Progress(j)
      BY <2>1, AllowedFacts, StateFacts DEF Progress, RenewLease, MoveTo
    <2>2. ASSUME NEW p \in Providers, BeginProviderWait(j, p) PROVE Onward(i)
      BY <2>2, AllowedFacts DEF BeginProviderWait, MoveTo, Active
    <2>3. CASE ReleaseProvider(j)
      BY <2>3, StateFacts DEF ReleaseProvider, MoveTo, Active
    <2>4. CASE Heartbeat(j) \/ Checkpoint(j) \/ TryAcquireProvider(j)
      BY <2>4 DEF Heartbeat, Checkpoint, RenewLease, TryAcquireProvider
    <2> QED
      BY <1>3, <2>1, <2>2, <2>3, <2>4 DEF Work
  <1>4. ASSUME NEW outcome \in {"completed", "failed", "awaiting_review"},
               ResolveReview(j, outcome)
        PROVE  Onward(i)
    BY <1>4 DEF ResolveReview, Terminal
  <1>5. CASE AwaitReview(j)
    BY <1>5, AllowedFacts DEF AwaitReview, jobRow
  <1> QED
    BY <1>1, <1>2, <1>3, <1>4, <1>5 DEF OtherStep

-----------------------------------------------------------------------------
LEMMA DirInitially == DirInit => DirInv
  BY DEF DirInit, Init, DirInv, DirTypeOK, Statuses, Steps, CleanedIsGone,
        WorkersKeepTheirDirs, Active, LoopInv

\* A transaction of the authority that makes no directory, after which a loop
\* may take up the jobs S, keeps the invariant.
LEMMA HandOverKeeps ==
    ASSUME DirInv, \A i \in Jobs : Onward(i), NEW S \in SUBSET Jobs, HandOver(S),
           \A i \in S : state'[i] \in Terminal \cup {"awaiting_review"},
           cleanup' \in [Jobs -> Statuses],
           \A i \in Jobs : \/ cleanup'[i] = cleanup[i]
                           \/ state'[i] \in Terminal /\ cleanup'[i] = "pending"
    PROVE  DirInv'
  <1> USE DEF DirInv, DirTypeOK, HandOver
  <1>1. DirTypeOK'
    OBVIOUS
  <1>2. CleanedIsGone'
    BY DEF CleanedIsGone
  <1>3. WorkersKeepTheirDirs'
    BY DEF WorkersKeepTheirDirs, Onward, Active, Terminal
  <1>4. \A j \in Jobs : state'[j] = "absent" => cleanup'[j] = "pending"
    BY DEF Onward, Active, Terminal
  <1>5. ASSUME NEW c \in Cleaners PROVE LoopInv(c)'
    <2>1. \A j \in todo'[c] : state'[j] \in Terminal \cup {"awaiting_review"}
      BY DEF LoopInv, Onward, Active, Terminal
    <2>2. step'[c] # "idle" => job'[c] \in todo'[c]
      BY DEF LoopInv
    <2>3. step'[c] = "cleaned" => ~dir'[job'[c]]
      BY DEF LoopInv
    <2> QED
      BY <2>1, <2>2, <2>3 DEF LoopInv
  <1> QED
    BY <1>1, <1>2, <1>3, <1>4, <1>5

\* Nothing but the authority's own state moves.
LEMMA StillKeeps ==
    ASSUME DirInv, \A i \in Jobs : Onward(i), UNCHANGED dirVars
    PROVE  DirInv'
  <1>1. HandOver({})
    BY DEF HandOver, dirVars
  <1> QED
    BY <1>1, HandOverKeeps DEF dirVars, DirInv, DirTypeOK

LEMMA EndKeeps ==
    ASSUME DirInv, \A i \in Jobs : Onward(i), HandOver(Ended),
           cleanup' = [j \in Jobs |-> IF j \in Ended THEN "pending" ELSE cleanup[j]]
    PROVE  DirInv'
  <1>1. Ended \in SUBSET Jobs /\ \A i \in Ended : state'[i] \in Terminal
    BY DEF Ended
  <1>2. cleanup' \in [Jobs -> Statuses]
    BY DEF DirInv, DirTypeOK, Statuses
  <1> QED
    BY <1>1, <1>2, HandOverKeeps

LEMMA AuthorityKeeps ==
    ASSUME TypeOK, OwnerInv, DirInv, AuthorityStep
    PROVE  DirInv'
  <1>1. ASSUME NEW j \in Jobs, SubmitWithDir(j) PROVE DirInv'
    <2>1. state[j] = "absent" /\ state' = [state EXCEPT ![j] = "queued"]
      BY <1>1 DEF SubmitWithDir, Submit, OwnerInv
    <2>2. dir' = [dir EXCEPT ![j] = TRUE] /\ UNCHANGED <<cleanup, todo, job, step>>
      BY <1>1 DEF SubmitWithDir, loopVars
    <2>3. DirTypeOK'
      BY <2>2 DEF DirInv, DirTypeOK
    <2>4. CleanedIsGone' /\ WorkersKeepTheirDirs'
      BY <2>1, <2>2 DEF DirInv, DirTypeOK, CleanedIsGone, WorkersKeepTheirDirs, TypeOK
    <2>5. \A i \in Jobs : state'[i] = "absent" => cleanup'[i] = "pending"
      BY <2>1, <2>2 DEF DirInv, TypeOK
    <2>6. ASSUME NEW c \in Cleaners PROVE LoopInv(c)'
      <3>1. j \notin todo[c]
        BY <2>1 DEF DirInv, LoopInv, Terminal
      <3> QED
        BY <2>1, <2>2, <3>1 DEF DirInv, DirTypeOK, LoopInv, TypeOK
    <2> QED
      BY <2>3, <2>4, <2>5, <2>6 DEF DirInv
  <1>2. ASSUME NEW j \in Jobs, ParkWithDir(j) PROVE DirInv'
    <2> DEFINE S == {i \in Jobs : state'[i] # state[i]}
    <2>1. \A i \in Jobs : Onward(i)
      BY <1>2, OtherSteps DEF ParkWithDir
    <2>2. \A i \in S : state'[i] = "awaiting_review"
      BY <1>2 DEF ParkWithDir, AwaitReview, TypeOK, jobRow
    <2> QED
      BY <1>2, <2>1, <2>2, HandOverKeeps DEF ParkWithDir, DirInv, DirTypeOK
  <1>3. ASSUME NEW j \in Jobs, OtherStep(j) PROVE DirInv'
    BY <1>3, OtherSteps, StillKeeps DEF OtherStep
  <1>4. ASSUME NEW j \in Jobs,
               \/ End(Complete(j)) \/ End(Fail(j)) \/ End(CancelSession(j))
               \/ End(RequestCancel(j)) \/ End(WaitCancelled(j))
               \/ End(OwnerRecovers(j))
        PROVE  DirInv'
    <2>1. \A i \in Jobs : Onward(i)
      BY <1>4, EndingStep DEF End
    <2> QED
      BY <1>4, <2>1, EndKeeps DEF End
  <1>5. CASE End(Observe)
    <2>1. \A i \in Jobs : Onward(i)
      BY <1>5, EndingStep DEF End
    <2> QED
      BY <1>5, <2>1, EndKeeps DEF End
  <1>6. CASE Tick /\ UNCHANGED dirVars
    BY <1>6, StillKeeps DEF Tick, Onward
  <1> QED
    BY <1>1, <1>2, <1>3, <1>4, <1>5, <1>6 DEF AuthorityStep

LEMMA CleanerKeeps ==
    ASSUME TypeOK, DirInv, CleanerStep
    PROVE  DirInv'
  <1> USE DEF DirInv, DirTypeOK, Statuses, Steps
  <1>0. state' = state
    BY DEF CleanerStep, Sweep, Look, Removed, NotRemoved, Record, Die, vars
  <1>1. ASSUME NEW c \in Cleaners, Sweep(c) PROVE DirInv'
    BY <1>0, <1>1 DEF Sweep, Uncleaned, CleanedIsGone, WorkersKeepTheirDirs, LoopInv
  <1>2. ASSUME NEW c \in Cleaners, Look(c) PROVE DirInv'
    BY <1>0, <1>2 DEF Look, CleanedIsGone, WorkersKeepTheirDirs, LoopInv
  <1>3. ASSUME NEW c \in Cleaners, Removed(c) PROVE DirInv'
    <2>1. job[c] \in todo[c] /\ job[c] \in Jobs
      BY <1>3 DEF Removed, LoopInv
    <2>2. WorkersKeepTheirDirs'
      BY <1>0, <1>3, <2>1 DEF Removed, WorkersKeepTheirDirs, LoopInv, Active, Terminal
    <2>3. \A d \in Cleaners : LoopInv(d)'
      BY <1>0, <1>3, <2>1 DEF Removed, LoopInv
    <2> QED
      BY <1>0, <1>3, <2>2, <2>3 DEF Removed, CleanedIsGone
  <1>4. ASSUME NEW c \in Cleaners, NotRemoved(c) PROVE DirInv'
    BY <1>0, <1>4 DEF NotRemoved, CleanedIsGone, WorkersKeepTheirDirs, LoopInv
  <1>5. ASSUME NEW c \in Cleaners, Record(c) PROVE DirInv'
    <2>1. job[c] \in todo[c] /\ job[c] \in Jobs /\ state[job[c]] # "absent"
      BY <1>5 DEF Record, LoopInv, Terminal
    <2>2. CleanedIsGone'
      BY <1>5, <2>1 DEF Record, CleanedIsGone, LoopInv
    <2>3. \A d \in Cleaners : LoopInv(d)'
      BY <1>0, <1>5, <2>1 DEF Record, LoopInv
    <2> QED
      BY <1>0, <1>5, <2>1, <2>2, <2>3 DEF Record, WorkersKeepTheirDirs
  <1>6. ASSUME NEW c \in Cleaners, Die(c) PROVE DirInv'
    BY <1>0, <1>6 DEF Die, CleanedIsGone, WorkersKeepTheirDirs, LoopInv
  <1> QED
    BY <1>1, <1>2, <1>3, <1>4, <1>5, <1>6 DEF CleanerStep

\* Rows, directories and cleanup loops agree after every step.
THEOREM DirsAlwaysConsistent == DirSpec => []DirInv
  <1>1. Consistent /\ DirInv /\ [DirNext]_allVars => DirInv'
    <2> SUFFICES ASSUME TypeOK, OwnerInv, DirInv, [DirNext]_allVars PROVE DirInv'
      BY DEF Consistent
    <2>1. CASE UNCHANGED allVars
      <3>1. UNCHANGED dirVars /\ \A i \in Jobs : Onward(i)
        BY <2>1 DEF allVars, vars, Onward
      <3> QED
        BY <3>1, StillKeeps
    <2> QED
      BY <2>1, AuthorityKeeps, CleanerKeeps DEF DirNext
  <1> QED
    BY <1>1, DirInitially, DirsImplementAuthority, AlwaysConsistent, PTL DEF DirSpec

\* cleanup_status 'cleaned' is never wrong, whatever loops race or die.
THEOREM CleanedIsAlwaysGone == DirSpec => []CleanedIsGone
  <1>1. DirInv => CleanedIsGone
    BY DEF DirInv
  <1> QED
    BY <1>1, DirsAlwaysConsistent, PTL

\* No loop takes the directory of a job that waits or works.
THEOREM WorkersAlwaysKeepTheirDirs == DirSpec => []WorkersKeepTheirDirs
  <1>1. DirInv => WorkersKeepTheirDirs
    BY DEF DirInv
  <1> QED
    BY <1>1, DirsAlwaysConsistent, PTL

\* What JobContract promises of a job is promised beside its cleanup as well.
THEOREM DirsKeepContract == DirSpec => ImplementsContract
  <1> QED
    BY DirsImplementAuthority, AuthorityKeepsContract
=============================================================================
