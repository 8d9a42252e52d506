------------------------- MODULE WorkloadRefinement -------------------------
(***************************************************************************)
(* WorkloadAuthority implements JobContract: the rows of workload_jobs and  *)
(* the clock give the phase of every job.                                   *)
(***************************************************************************)
EXTENDS WorkloadAuthority

PhaseOf(row, lease) ==
    CASE row = "absent"          -> "none"
      [] row = "queued"          -> "waiting"
      [] row = "awaiting_review" -> "parked"
      [] row \in Active          -> IF Expired(lease, 0) THEN "lapsed" ELSE "working"
      [] OTHER                   -> row

phase == [j \in Jobs |-> PhaseOf(state[j], expires[j])]

Contract == INSTANCE JobContract WITH
    ClassOf <- [j \in Jobs |-> Class(j)],
    flagged <- cancelRequested

\* Every behaviour of the authority is one the contract allows: FIFO starts
\* within capacity, no success after a cancellation, lapsed workers only fail.
ImplementsContract == Contract!Spec
=============================================================================
