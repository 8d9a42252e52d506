-------------------------- MODULE MCWorkloadJobDirs --------------------------
(* Constants of the WorkloadJobDirs runs. *)
EXTENDS WorkloadJobDirs, TLC

MCCapacity == [c \in Classes |-> IF c = "review_waiting" THEN MaxJobs ELSE 1]

MCBudget == [p \in Providers |-> 1]

TwoGate1 == <<"gate1", "gate1">>
=============================================================================
