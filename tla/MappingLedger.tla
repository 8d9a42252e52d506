---------------------------- MODULE MappingLedger ----------------------------
(***************************************************************************)
(* What the mapping case promises of the work on one document: the batches  *)
(* of a plan go to the provider once and in order, a batch that asks for a  *)
(* currency is done only once the user has asserted one for it, and a case  *)
(* that is complete, or a plan that was stopped, stays so.  No revisions,   *)
(* turns, claims or instructions.                                           *)
(***************************************************************************)
EXTENDS Integers

CONSTANT NBatches

Batches == 1 .. NBatches

VARIABLES
    fits,     \* how the document fits into requests
    work,     \* what became of each batch
    asserted, \* the batches, or 0 for the document, the user gave a currency for
    outcome   \* what became of the case

Init ==
    /\ fits \in {"nothing", "one", "batches", "too_large"}
    /\ work     = [b \in Batches |-> "new"]
    /\ asserted = {}
    /\ outcome  = "open"

Becomes(b, to) ==
    /\ work' = [work EXCEPT ![b] = to]
    /\ UNCHANGED <<fits, asserted, outcome>>

\* One after the other; a turn that has claimed a batch does not notice that the
\* plan was stopped.
Send(b) ==
    /\ fits = "batches"
    /\ work[b] = "new"
    /\ \A a \in 1 .. b - 1 : work[a] = "answered"
    /\ Becomes(b, "sent")

Ask(b) ==
    /\ outcome = "open"
    /\ work[b] = "sent"
    /\ Becomes(b, "asked")

\* The user answers a question that was put; it may have been answered meanwhile.
Assert(b) ==
    /\ outcome = "open"
    /\ IF fits = "batches" THEN b > 0 /\ work[b] \in {"asked", "answered"}
                           ELSE b = 0 /\ fits = "one"
    /\ asserted' = asserted \cup {b}
    /\ UNCHANGED <<fits, work, outcome>>

Answer(b) ==
    /\ outcome = "open"
    /\ \/ work[b] = "sent"
       \/ work[b] = "asked" /\ b \in asserted
    /\ Becomes(b, "answered")

Ends(as) ==
    /\ outcome' = as
    /\ UNCHANGED <<fits, work, asserted>>

Complete ==
    /\ outcome = "open"
    /\ fits \in {"one", "batches"}
    /\ fits = "batches" => \A b \in Batches : work[b] = "answered"
    /\ Ends("complete")

Stop == outcome = "open" /\ Ends("stopped")

\* The failure of a request that was already under way.
Reopen == outcome = "stopped" /\ fits = "one" /\ Ends("open")

Next ==
    \/ \E b \in Batches : Send(b) \/ Ask(b) \/ Answer(b)
    \/ \E b \in 0 .. NBatches : Assert(b)
    \/ Complete \/ Stop \/ Reopen

Spec == Init /\ [][Next]_<<fits, work, asserted, outcome>>
=============================================================================
