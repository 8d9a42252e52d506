------------------------- MODULE MCCanonicalVersions -------------------------
(* Constants of the CanonicalVersions runs. *)
EXTENDS CanonicalVersions, TLC

CONSTANTS r1, a1, a2, k1, m, c1

OneRun == {r1}
TwoActors == {a1, a2}

OneReader == {k1}
OneChunk  == {c1}

Symmetry == Permutations(Actors)
=============================================================================
