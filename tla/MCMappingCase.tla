---------------------------- MODULE MCMappingCase ----------------------------
(* Constants of the MappingCase runs. *)
EXTENDS MappingCase, TLC

\* No action tells one currency or one version of the instruction from another.
Sameness == Permutations(Currencies) \cup Permutations(Prompts)
=============================================================================
