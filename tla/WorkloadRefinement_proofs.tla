---------------------- MODULE WorkloadRefinement_proofs ----------------------
(***************************************************************************)
(* WorkloadAuthority implements JobContract, for every value of its         *)
(* constants: each transaction is one step of the contract or leaves the    *)
(* phase and the flag of every job as they are.                             *)
(***************************************************************************)
EXTENDS WorkloadRefinement, WorkloadSafety_proofs

\* The phase of a row.
LEMMA PhaseFacts ==
    /\ \A l : /\ PhaseOf("absent", l) = "none"
              /\ PhaseOf("queued", l) = "waiting"
              /\ PhaseOf("awaiting_review", l) = "parked"
    /\ \A row \in Terminal : \A l : PhaseOf(row, l) = row
    /\ \A row \in Active : \A l :
          PhaseOf(row, l) = IF Expired(l, 0) THEN "lapsed" ELSE "working"
  BY DEF PhaseOf, Active, Terminal

LEMMA StateCases ==
    /\ States = Active \cup Terminal \cup {"absent", "queued", "awaiting_review"}
    /\ \A row \in Active : row \notin Terminal \cup {"absent", "queued", "awaiting_review"}
    /\ \A row \in Terminal : row \notin {"absent", "queued", "awaiting_review"}
  BY DEF States, Active, Terminal

\* A step that moves the jobs of S to a phase, and no other, is Becomes.
LEMMA BecomesStep ==
    ASSUME NEW S, NEW to, UNCHANGED cancelRequested,
           \A i \in Jobs : phase'[i] = IF i \in S THEN to ELSE phase[i]
    PROVE  Contract!Becomes(S, to)
  BY DEF Contract!Becomes, Contract!Jobs, Jobs, phase

\* A step that changes no phase and no flag is a stutter of the contract.
LEMMA StutterStep ==
    ASSUME UNCHANGED cancelRequested, \A i \in Jobs : phase'[i] = phase[i]
    PROVE  UNCHANGED <<phase, cancelRequested>>
  BY DEF phase

\* The initial states map to the initial state of the contract.
LEMMA ContractInit == Init => Contract!Init
  BY PhaseFacts DEF Init, Contract!Init, Contract!Jobs, Jobs, phase

\* The contract counts as the authority does.
LEMMA ContractCardinality == \A S : Contract!Cardinality(S) = Cardinality(S)
  BY DEF Contract!Cardinality, Cardinality, Contract!IsFiniteSet, IsFiniteSet

LEMMA RecoverImplements ==
    ASSUME TypeOK, OwnerInv, NEW s \in Ages, Recover(s)
    PROVE  Contract!Reap
  <1> DEFINE S == Lapsed(s)
  <1>1. UNCHANGED cancelRequested
    BY DEF Recover
  <1>2. \A i \in Jobs : phase'[i] = IF i \in S THEN "failed" ELSE phase[i]
    BY PhaseFacts DEF Recover, ClearWorker, phase, TypeOK, Terminal
  <1>3. Contract!Becomes(S, "failed")
    BY <1>1, <1>2, BecomesStep
  <1>4. S \in SUBSET {j \in Contract!Jobs : phase[j] \in {"waiting", "lapsed"}}
    BY PhaseFacts, ExpiredFacts DEF Lapsed, phase, Contract!Jobs, Jobs, TypeOK
  <1> QED
    BY <1>3, <1>4 DEF Contract!Reap

LEMMA CancelImplements ==
    ASSUME TypeOK, OwnerInv, NEW j \in Jobs, CancelRow(j)
    PROVE  Contract!Ask(j)
  <1>1. phase[j] \in {"waiting", "working", "lapsed", "parked"}
    BY PhaseFacts, StateCases DEF CancelRow, phase, TypeOK
  <1>2. \A i \in Jobs : i # j => phase'[i] = phase[i]
    BY DEF CancelRow, ClearWorker, phase, TypeOK
  <1>3. phase'[j] = IF phase[j] \in {"waiting", "parked"} THEN "cancelled" ELSE phase[j]
    BY PhaseFacts, StateCases DEF CancelRow, ClearWorker, phase, TypeOK, OwnerInv, Terminal
  <1>4. phase' = [phase EXCEPT ![j] =
                      IF phase[j] \in {"waiting", "parked"} THEN "cancelled" ELSE phase[j]]
    BY <1>2, <1>3 DEF phase
  <1>5. cancelRequested' = [cancelRequested EXCEPT ![j] = TRUE]
    BY DEF CancelRow
  <1> QED
    BY <1>1, <1>4, <1>5 DEF Contract!Ask

LEMMA FinishImplements ==
    ASSUME TypeOK, OwnerInv, NEW j \in Jobs, NEW outcome \in Terminal,
           Finish(j, outcome), outcome = "completed" => ~cancelRequested[j]
    PROVE  Contract!Settle(j)
  <1>1. phase[j] \in {"working", "parked"}
    BY PhaseFacts, StateCases DEF Finish, SessionValid, phase, TypeOK, OwnerInv
  <1>2. \A i \in Jobs : phase'[i] = IF i \in {j} THEN outcome ELSE phase[i]
    BY PhaseFacts DEF Finish, ClearWorker, phase, TypeOK
  <1>3. Contract!Becomes({j}, outcome)
    BY <1>2, BecomesStep DEF Finish
  <1> QED
    BY <1>1, <1>3 DEF Contract!Settle, Terminal

\* A session call that keeps its worker working leaves the phase alone, unless
\* the lease it grants was granted so late that it is already over.
LEMMA WorkImplements ==
    ASSUME TypeOK, OwnerInv, NEW j \in Jobs, Work(j)
    PROVE  Contract!Lapse \/ UNCHANGED <<phase, cancelRequested>>
  <1>1. SessionValid(j) /\ UNCHANGED cancelRequested
    BY DEF Work, Heartbeat, Progress, Checkpoint, BeginProviderWait, RenewLease,
          TryAcquireProvider, ReleaseProvider, Proceeds
  <1>2. \A i \in Jobs \ {j} : state'[i] = state[i] /\ expires'[i] = expires[i]
    BY DEF Work, Heartbeat, Progress, Checkpoint, BeginProviderWait,
          TryAcquireProvider, ReleaseProvider, RenewLease, MoveTo, TypeOK
  <1>3. state'[j] = state[j] \/ (state[j] \in Active /\ state'[j] \in Active)
    <2>1. CASE Progress(j)
      BY <2>1, AllowedFacts, StateFacts DEF Progress, RenewLease, MoveTo, TypeOK
    <2>2. ASSUME NEW p \in Providers, BeginProviderWait(j, p)
          PROVE  state[j] \in Active /\ state'[j] \in Active
      BY <2>2, AllowedFacts DEF BeginProviderWait, MoveTo, TypeOK, Active
    <2>3. CASE ReleaseProvider(j)
      BY <2>3, StateFacts DEF ReleaseProvider, MoveTo, TypeOK, Active
    <2>4. CASE Heartbeat(j) \/ Checkpoint(j)
      BY <2>4 DEF Heartbeat, Checkpoint, RenewLease
    <2>5. CASE TryAcquireProvider(j)
      BY <2>5 DEF TryAcquireProvider
    <2> QED
      BY <2>1, <2>2, <2>3, <2>4, <2>5 DEF Work
  <1>4. state[j] \in Active \cup {"awaiting_review"}
    BY <1>1, StateCases DEF SessionValid, TypeOK, OwnerInv
  <1>5. \A i \in Jobs \ {j} : phase'[i] = phase[i]
    BY <1>2 DEF phase
  <1>6. CASE phase'[j] = phase[j]
    BY <1>1, <1>5, <1>6, StutterStep
  <1>7. CASE phase'[j] # phase[j]
    <2>1. phase[j] = "working" /\ phase'[j] = "lapsed"
      BY <1>1, <1>3, <1>4, <1>7, PhaseFacts DEF phase, SessionValid
    <2>2. \A i \in Jobs : phase'[i] = IF i \in {j} THEN "lapsed" ELSE phase[i]
      BY <1>5, <2>1
    <2>3. Contract!Becomes({j}, "lapsed")
      BY <1>1, <2>2, BecomesStep
    <2>4. {j} \in SUBSET {i \in Contract!Jobs : phase[i] = "working"}
      BY <2>1 DEF Contract!Jobs, Jobs
    <2> QED
      BY <2>3, <2>4 DEF Contract!Lapse
  <1> QED
    BY <1>6, <1>7

LEMMA SubmitImplements ==
    ASSUME TypeOK, OwnerInv, NEW j \in Jobs, Submit(j)
    PROVE  Contract!Enter(j)
  <1>1. phase[j] = "none"
    BY PhaseFacts DEF Submit, phase, OwnerInv
  <1>2. \A i \in 1 .. j - 1 : phase[i] # "none"
    <2> SUFFICES ASSUME NEW i \in 1 .. j - 1 PROVE phase[i] # "none"
      OBVIOUS
    <2>1. i \in Jobs /\ state[i] # "absent"
      BY JobsAssumption DEF Submit, Jobs, OwnerInv
    <2>2. state[i] \in Active \cup Terminal \cup {"queued", "awaiting_review"}
      BY <2>1, StateCases DEF TypeOK
    <2> QED
      BY <2>1, <2>2, PhaseFacts DEF phase, Terminal
  <1>3. Contract!Becomes({j}, "waiting")
    <2>1. \A i \in Jobs : phase'[i] = IF i \in {j} THEN "waiting" ELSE phase[i]
      BY PhaseFacts DEF Submit, phase, TypeOK
    <2> QED
      BY <2>1, BecomesStep DEF Submit
  <1> QED
    BY <1>1, <1>2, <1>3 DEF Contract!Enter

\* An admission is a start within the capacity: the contract's workers are the
\* jobs that count, and no late clock counts fewer.
LEMMA TryAdmitImplements ==
    ASSUME TypeOK, OwnerInv, NEW j \in Jobs, TryAdmit(j)
    PROVE  Contract!Start(j) \/ UNCHANGED <<phase, cancelRequested>>
  <1>1. UNCHANGED cancelRequested
    BY DEF TryAdmit, jobRow
  <1>2. CASE UNCHANGED <<state, expires>>
    BY <1>1, <1>2 DEF phase
  <1>3. CASE ~ UNCHANGED <<state, expires>>
    <2>1. PICK s \in Ages : /\ Admissible(j, s) /\ state[j] = "queued"
                            /\ state' = [state EXCEPT ![j] = InitialState(KindOf[j])]
                            /\ expires' = [expires EXCEPT ![j] = Lease - s]
      BY <1>3 DEF TryAdmit, jobRow
    <2>2. phase[j] = "waiting"
      BY <2>1, PhaseFacts DEF phase
    <2>3. \A i \in 1 .. j - 1 : Class(i) = Class(j) => phase[i] # "waiting"
      <3> SUFFICES ASSUME NEW i \in 1 .. j - 1, Class(i) = Class(j)
                   PROVE  phase[i] # "waiting"
        OBVIOUS
      <3>1. i \in Jobs /\ state[i] # "queued"
        BY <2>1, JobsAssumption DEF Admissible, IsQueueHead, OwnerInv, Jobs
      <3>2. state[i] \in Active \cup Terminal \cup {"absent", "awaiting_review"}
        BY <3>1, StateCases DEF TypeOK
      <3> QED
        BY <3>1, <3>2, PhaseFacts DEF phase, Terminal
    <2> DEFINE c == Class(j)
               Workers == Contract!Working(c)
    <2>4. Workers \in SUBSET ActiveIn(c, s)
      <3> SUFFICES ASSUME NEW i \in Jobs, Class(i) = c, phase[i] = "working"
                   PROVE  i \in ActiveIn(c, s)
        BY DEF Contract!Working, Contract!Jobs, Jobs
      <3>1. state[i] \in Active /\ ~Expired(expires[i], 0)
        BY PhaseFacts, StateCases DEF phase, TypeOK, Terminal
      <3>2. ~Expired(expires[i], s)
        BY <3>1, ExpiredFacts DEF TypeOK
      <3> QED
        BY <3>1, <3>2 DEF ActiveIn, OwnerInv
    <2>5. Cardinality(Workers) < Capacity[c]
      <3> DEFINE Seen == ActiveIn(c, s)
      <3>1. /\ Seen \in SUBSET Jobs /\ Workers \in SUBSET Jobs
            /\ Cardinality(Seen) < Capacity[c]
        BY <2>1, <2>4 DEF Admissible, ActiveIn
      <3>2. c \in Classes
        BY JobsAssumption DEF Class, ResourceOf, Kinds, Classes
      <3>3. Capacity[c] \in Nat
        BY <3>2, CapacityAssumption
      <3> HIDE DEF Workers, Seen, c
      <3>4. /\ Cardinality(Seen) \in Nat /\ Cardinality(Workers) \in Nat
            /\ Cardinality(Workers) <= Cardinality(Seen)
        BY <2>4, <3>1, JobSets DEF Seen
      <3> QED
        BY <3>1, <3>3, <3>4
    <2>6. phase'[j] \in {"working", "lapsed", "parked"}
      <3>1. state'[j] = InitialState(KindOf[j])
        BY <2>1 DEF TypeOK
      <3>2. InitialState(KindOf[j]) \in Active \cup {"awaiting_review"}
        BY StateFacts, JobsAssumption
      <3> QED
        BY <3>1, <3>2, PhaseFacts DEF phase
    <2>7. \A i \in Jobs : phase'[i] = IF i \in {j} THEN phase'[j] ELSE phase[i]
      BY <2>1 DEF phase, TypeOK
    <2>8. Contract!Becomes({j}, phase'[j])
      BY <1>1, <2>7, BecomesStep
    <2>9. j \in Contract!Jobs /\ \A i \in Jobs : [k \in Jobs |-> Class(k)][i] = Class(i)
      BY DEF Contract!Jobs, Jobs
    <2>10. \A i \in 1 .. j - 1 : i \in Jobs
      BY JobsAssumption DEF Jobs
    <2> QED
      BY <2>2, <2>3, <2>5, <2>6, <2>8, <2>9, <2>10, ContractCardinality DEF Contract!Start
  <1> QED
    BY <1>2, <1>3

LEMMA LeavingImplements ==
    ASSUME TypeOK, OwnerInv, NEW j \in Jobs, Leaving(j)
    PROVE  Contract!Settle(j) \/ UNCHANGED <<phase, cancelRequested>>
  <1>1. CASE Complete(j)
    BY <1>1, FinishImplements DEF Complete, Terminal
  <1>2. CASE Fail(j)
    BY <1>2, FinishImplements DEF Fail, Terminal
  <1>3. CASE CancelSession(j)
    BY <1>3, FinishImplements DEF CancelSession, Terminal
  <1>4. CASE StartComplete(j)
    <2>1. \A i \in Jobs : phase'[i] = phase[i]
      <3>1. Lease \in Int /\ ~Expired(Lease, 0)
        BY LeaseAssumption DEF Expired
      <3> QED
        BY <1>4, <3>1, PhaseFacts, StateCases DEF StartComplete, RenewLease, Proceeds,
              SessionValid, phase, TypeOK, OwnerInv
    <2> QED
      BY <1>4, <2>1, StutterStep DEF StartComplete, RenewLease
  <1>5. CASE AwaitReview(j)
    <2>1. CASE UNCHANGED jobRow
      BY <2>1 DEF jobRow, phase
    <2>2. CASE ~ UNCHANGED jobRow
      <3>1. /\ ~cancelRequested[j] /\ UNCHANGED cancelRequested
            /\ state' = [state EXCEPT ![j] = "awaiting_review"] /\ ClearWorker({j})
            /\ SessionValid(j) /\ state[j] \in Active
        BY <1>5, <2>2, AllowedFacts DEF AwaitReview
      <3>2. phase[j] = "working"
        BY <3>1, PhaseFacts DEF phase, SessionValid
      <3>3. \A i \in Jobs : phase'[i] = IF i \in {j} THEN "parked" ELSE phase[i]
        BY <3>1, PhaseFacts DEF ClearWorker, phase, TypeOK
      <3>4. Contract!Becomes({j}, "parked")
        BY <3>1, <3>3, BecomesStep
      <3> QED
        BY <3>1, <3>2, <3>4 DEF Contract!Settle
    <2> QED
      BY <2>1, <2>2
  <1>6. CASE CancelSeen(j) \/ TaskCancelled(j) \/ SessionLost(j) \/ Crash(j)
    BY <1>6 DEF CancelSeen, TaskCancelled, SessionLost, Crash, jobRow, phase
  <1> QED
    BY <1>1, <1>2, <1>3, <1>4, <1>5, <1>6 DEF Leaving

LEMMA ReviewImplements ==
    ASSUME TypeOK, OwnerInv, NEW j \in Jobs,
           NEW outcome \in {"completed", "failed", "awaiting_review"},
           ResolveReview(j, outcome)
    PROVE  Contract!Settle(j)
  <1> DEFINE to == IF outcome = "awaiting_review" THEN "parked" ELSE outcome
  <1>1. phase[j] = "parked" /\ ~cancelRequested[j]
    BY PhaseFacts DEF ResolveReview, phase, OwnerInv
  <1>2. \A i \in Jobs : phase'[i] = IF i \in {j} THEN to ELSE phase[i]
    BY PhaseFacts DEF ResolveReview, phase, TypeOK, Terminal
  <1>3. Contract!Becomes({j}, to)
    BY <1>2, BecomesStep DEF ResolveReview
  <1> QED
    BY <1>1, <1>3 DEF Contract!Settle

LEMMA TickImplements ==
    ASSUME TypeOK, OwnerInv, Tick
    PROVE  Contract!Lapse
  <1> DEFINE S == {j \in Jobs : phase[j] = "working" /\ Expired(expires'[j], 0)}
  <1>1. ASSUME NEW i \in Jobs
        PROVE  phase'[i] = IF i \in S THEN "lapsed" ELSE phase[i]
    <2>1. state'[i] = state[i] /\ (Expired(expires[i], 0) => Expired(expires'[i], 0))
      BY ExpiredFacts DEF Tick, TypeOK
    <2>2. CASE state[i] \in Active
      BY <2>1, <2>2, PhaseFacts DEF phase
    <2>3. CASE state[i] \notin Active
      BY <2>1, <2>3, PhaseFacts, StateCases DEF phase, TypeOK, Terminal
    <2> QED
      BY <2>2, <2>3
  <1>2. Contract!Becomes(S, "lapsed")
    BY <1>1, BecomesStep DEF Tick
  <1>3. S \in SUBSET {j \in Contract!Jobs : phase[j] = "working"}
    BY DEF Contract!Jobs, Jobs
  <1> QED
    BY <1>2, <1>3 DEF Contract!Lapse

LEMMA ContractStep ==
    ASSUME TypeOK, OwnerInv, [Next]_vars
    PROVE  [Contract!Next]_<<phase, cancelRequested>>
  <1> USE DEF Contract!Jobs, Jobs
  <1>1. ASSUME NEW j \in Jobs, Admission(j)
        PROVE  [Contract!Next]_<<phase, cancelRequested>>
    <2>1. CASE Submit(j)
      BY <2>1, SubmitImplements DEF Contract!Next
    <2>2. CASE RenewQueueWaiter(j)
      <3>1. /\ state' = state
            /\ \A i \in Jobs : expires'[i] = expires[i] \/ state[i] \in Terminal \cup {"queued"}
        BY <2>2 DEF RenewQueueWaiter, TypeOK
      <3>2. \A i \in Jobs : phase'[i] = phase[i]
        BY <3>1, PhaseFacts DEF phase
      <3> QED
        BY <2>2, <3>2, StutterStep DEF RenewQueueWaiter
    <2>3. CASE TryAdmit(j)
      BY <2>3, TryAdmitImplements DEF Contract!Next
    <2>4. CASE WaitCancelled(j)
      BY <2>4, CancelImplements DEF WaitCancelled, Contract!Next, jobRow, phase
    <2> QED
      BY <1>1, <2>1, <2>2, <2>3, <2>4 DEF Admission
  <1>2. ASSUME NEW j \in Jobs, OwnerRecovers(j)
        PROVE  [Contract!Next]_<<phase, cancelRequested>>
    BY <1>2, RecoverImplements DEF OwnerRecovers, Contract!Next
  <1>3. ASSUME NEW j \in Jobs, Work(j)
        PROVE  [Contract!Next]_<<phase, cancelRequested>>
    BY <1>3, WorkImplements DEF Contract!Next
  <1>4. ASSUME NEW j \in Jobs, Leaving(j)
        PROVE  [Contract!Next]_<<phase, cancelRequested>>
    BY <1>4, LeavingImplements DEF Contract!Next
  <1>5. ASSUME NEW j \in Jobs, Users(j)
        PROVE  [Contract!Next]_<<phase, cancelRequested>>
    BY <1>5, CancelImplements, ReviewImplements DEF Users, RequestCancel, Contract!Next
  <1>6. CASE Observe
    BY <1>6, RecoverImplements DEF Observe, Contract!Next
  <1>7. CASE Tick
    BY <1>7, TickImplements DEF Contract!Next
  <1>8. CASE UNCHANGED vars
    BY <1>8 DEF vars, phase
  <1> QED
    BY <1>1, <1>2, <1>3, <1>4, <1>5, <1>6, <1>7, <1>8 DEF Next

\* The authority keeps its contract: FIFO starts within the capacity, no success
\* and no parking after a cancellation, lapsed workers only fail, terminal
\* phases stay.
THEOREM AuthorityKeepsContract == Spec => ImplementsContract
  <1>1. Init => Contract!Init
    BY ContractInit
  <1>2. Consistent /\ [Next]_vars => [Contract!Next]_<<phase, cancelRequested>>
    BY ContractStep DEF Consistent
  <1> QED
    BY <1>1, <1>2, AlwaysConsistent, PTL DEF Spec, ImplementsContract, Contract!Spec
=============================================================================
