------------------------- MODULE MCWorkloadAuthority -------------------------
(* Constants of the WorkloadAuthority runs. *)
EXTENDS WorkloadRefinement, TLC

\* Gate 1 is fixed at one, Gate 2 at no more than two; the other classes
\* default to 4 and 8 and review waiting is unbounded (more than MaxJobs).
MCCapacity == [c \in Classes |->
    CASE c = "gate1_heavy" -> 1
      [] c = "gate2_local" -> 2
      [] c = "review_waiting" -> MaxJobs
      [] OTHER -> 1]

MCBudget == [p \in Providers |-> 1]

TwoGate1 == <<"gate1", "gate1">>
TwoGate2 == <<"gate2_source", "gate2_domain">>
=============================================================================
