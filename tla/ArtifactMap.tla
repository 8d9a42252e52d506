----------------------------- MODULE ArtifactMap -----------------------------
(***************************************************************************)
(* What the artifact store promises a reader: a map that is written once    *)
(* per key.  A graph of new keys appears all at once; what a key says never *)
(* changes; a key that is withdrawn is never served again, under any value. *)
(* No files, claims, writers or failures.                                   *)
(***************************************************************************)
CONSTANTS Keys, Values, NoValue

VARIABLES phase, served

Init ==
    /\ phase  = [k \in Keys |-> "new"]
    /\ served = [k \in Keys |-> NoValue]

\* A graph of keys nobody has used begins to be served, as a whole.
Publish(S, x) ==
    /\ \A k \in S : phase[k] = "new"
    /\ phase'  = [k \in Keys |-> IF k \in S THEN "served" ELSE phase[k]]
    /\ served' = [k \in Keys |-> IF k \in S THEN x ELSE served[k]]

\* Keys cease to be served: they expired, or their deletion began.
Withdraw(S) ==
    /\ \A k \in S : phase[k] = "served"
    /\ phase'  = [k \in Keys |-> IF k \in S THEN "withdrawn" ELSE phase[k]]
    /\ served' = [k \in Keys |-> IF k \in S THEN NoValue ELSE served[k]]

\* Withdrawn keys become tombstones.
Forget(S) ==
    /\ \A k \in S : phase[k] = "withdrawn"
    /\ phase' = [k \in Keys |-> IF k \in S THEN "gone" ELSE phase[k]]
    /\ UNCHANGED served

Next ==
    \/ \E S \in SUBSET Keys, x \in Values : Publish(S, x)
    \/ \E S \in SUBSET Keys : Withdraw(S) \/ Forget(S)

Spec == Init /\ [][Next]_<<phase, served>>
=============================================================================
