------------------------ MODULE MCFinancialCaseCache ------------------------
(* Constants of the FinancialCaseCache runs. *)
EXTENDS FinancialCaseCache, TLC

CONSTANT v1

OneVersion == {v1}

\* A document that is annotated again while its version stays the same.
AnnotatedTwice == <<<<1, v1>>, <<1, v1>>>>

\* Two documents, of which the first is annotated.
OneOfTwo == <<<<1, v1>>>>

Symmetry == Permutations(Procs)
=============================================================================
