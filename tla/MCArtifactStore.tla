--------------------------- MODULE MCArtifactStore ---------------------------
(* Constants of the ArtifactStore runs. *)
EXTENDS ArtifactStore, TLC

CONSTANTS a1, a2, w1, w2

TwoIds == {a1, a2}

OneWriter  == {w1}
TwoWriters == {w1, w2}

WholeScope == {Ids}

Symmetry == Permutations(Ids) \cup Permutations(Writers)
=============================================================================
