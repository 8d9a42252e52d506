----------------------------- MODULE JobContract -----------------------------
(***************************************************************************)
(* What the workload authority promises of a job, without leases, queue     *)
(* rows, sessions or clocks: the life of a job as its user may observe it.  *)
(* WorkloadAuthority implements it (WorkloadRefinement).                    *)
(***************************************************************************)
EXTENDS Integers, FiniteSets

CONSTANTS MaxJobs,  \* bound: how many jobs are submitted
          ClassOf,  \* the resource class of each job
          Capacity  \* how many jobs of a class may work at a time

Jobs == 1 .. MaxJobs

VARIABLES phase,   \* where the job is in its life
          flagged  \* its cancellation was requested

\* "lapsed": the worker stopped renewing its lease and nobody noticed yet.
Phases == {"none", "waiting", "working", "lapsed", "parked", "completed",
           "failed", "cancelled"}

Init == /\ phase   = [j \in Jobs |-> "none"]
        /\ flagged = [j \in Jobs |-> FALSE]

Becomes(S, to) ==
    /\ phase' = [j \in Jobs |-> IF j \in S THEN to ELSE phase[j]]
    /\ UNCHANGED flagged

Enter(j) == /\ phase[j] = "none"
            /\ \A i \in 1 .. j - 1 : phase[i] # "none"
            /\ Becomes({j}, "waiting")

Working(class) == {i \in Jobs : ClassOf[i] = class /\ phase[i] = "working"}

\* First come, first served within the capacity of the class.  A review job
\* starts parked; a lease granted too late starts lapsed.
Start(j) == /\ phase[j] = "waiting"
            /\ \A i \in 1 .. j - 1 :
                  ClassOf[i] = ClassOf[j] => phase[i] # "waiting"
            /\ Cardinality(Working(ClassOf[j])) < Capacity[ClassOf[j]]
            /\ \E to \in {"working", "lapsed", "parked"} : Becomes({j}, to)

\* A working job ends as its worker says, a parked one as its reviewer says;
\* neither completes nor parks once the cancellation was requested.
Settle(j) == /\ phase[j] \in {"working", "parked"}
             /\ \/ \E to \in {"failed", "cancelled"} : Becomes({j}, to)
                \/ /\ ~flagged[j]
                   /\ \E to \in {"completed", "parked"} : Becomes({j}, to)

\* A cancellation is immediate when no worker has to answer it.
Ask(j) == /\ phase[j] \in {"waiting", "working", "lapsed", "parked"}
          /\ flagged' = [flagged EXCEPT ![j] = TRUE]
          /\ phase' = [phase EXCEPT ![j] =
                IF @ \in {"waiting", "parked"} THEN "cancelled" ELSE @]

\* Leases run out, together when the clock says so.
Lapse == \E S \in SUBSET {j \in Jobs : phase[j] = "working"} : Becomes(S, "lapsed")

\* What stopped renewing fails; it can come to no other end.
Reap == \E S \in SUBSET {j \in Jobs : phase[j] \in {"waiting", "lapsed"}} :
            Becomes(S, "failed")

Next == \/ \E j \in Jobs : Enter(j) \/ Start(j) \/ Settle(j) \/ Ask(j)
        \/ Lapse \/ Reap

Spec == Init /\ [][Next]_<<phase, flagged>>
=============================================================================
