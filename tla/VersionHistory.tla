--------------------------- MODULE VersionHistory ---------------------------
(***************************************************************************)
(* What the canonical store promises about the versions of a document: a    *)
(* history that only grows, one version for each thing a version is made    *)
(* of, a pointer that moves to whole versions only, and readers who get all *)
(* of the version they asked for unless it was lost.  No parts, processes,  *)
(* transactions or bindings.                                                *)
(***************************************************************************)
EXTENDS Integers

CONSTANTS Runs, MaxVersions, Readers, Nothing

Versions == 1..MaxVersions

VARIABLES
    stage,    \* where a version is in its life
    madeFrom, \* the run, or the base version, it is made from
    active,   \* the active version
    asked,    \* the version a reader asked for
    answer    \* what the reader was told

\* A version is drafted, offered as a whole, loses parts, and is gone.
Stages  == {"none", "draft", "whole", "lost", "gone"}
Offered == {"whole", "lost"}

Init ==
    /\ stage    = [v \in Versions |-> "none"]
    /\ madeFrom = [v \in Versions |-> Nothing]
    /\ active   = Nothing
    /\ asked    = [k \in Readers |-> Nothing]
    /\ answer   = [k \in Readers |-> "none"]

\* Versions are numbered as they come, and nothing is made twice.  A version can
\* be derived from one that was offered and is not itself derived.
Draft(v, r) ==
    /\ \A u \in Versions : stage[u] = "none" <=> u >= v
    /\ \A u \in Versions : madeFrom[u] # r
    /\ r \in Versions => madeFrom[r] \in Runs /\ stage[r] \in Offered \cup {"gone"}
    /\ stage'    = [stage EXCEPT ![v] = "draft"]
    /\ madeFrom' = [madeFrom EXCEPT ![v] = r]
    /\ UNCHANGED <<active, asked, answer>>

Offer(v) ==
    /\ stage[v] = "draft"
    /\ stage' = [stage EXCEPT ![v] = "whole"]
    /\ UNCHANGED <<madeFrom, active, asked, answer>>

\* Nothing that is lost comes back.
Lose(V) ==
    /\ \A v \in V : stage[v] = "whole"
    /\ stage' = [v \in Versions |-> IF v \in V THEN "lost" ELSE stage[v]]
    /\ UNCHANGED <<madeFrom, active, asked, answer>>

\* A whole version is lost before it is gone; the active one takes the pointer along.
Forget(v) ==
    /\ stage[v] \in {"draft", "lost"}
    /\ stage' = [stage EXCEPT ![v] = "gone"]
    /\ active' = IF active = v THEN Nothing ELSE active
    /\ UNCHANGED <<madeFrom, asked, answer>>

Move(v) ==
    /\ stage[v] = "whole"
    /\ active' = v
    /\ UNCHANGED <<stage, madeFrom, asked, answer>>

Ask(k) ==
    /\ asked[k] = Nothing /\ active # Nothing
    /\ asked' = [asked EXCEPT ![k] = active]
    /\ UNCHANGED <<stage, madeFrom, active, answer>>

\* A reader who was told of a version is given all of it, or it was lost meanwhile.
Tell(k) ==
    /\ asked[k] # Nothing /\ answer[k] = "none"
    /\ \/ answer' = [answer EXCEPT ![k] = "whole"]
       \/ stage[asked[k]] # "whole" /\ answer' = [answer EXCEPT ![k] = "refused"]
    /\ UNCHANGED <<stage, madeFrom, active, asked>>

Next ==
    \/ \E V \in SUBSET Versions : Lose(V)
    \/ \E v \in Versions : Offer(v) \/ Forget(v) \/ Move(v)
    \/ \E v \in Versions, r \in Runs \cup Versions : Draft(v, r)
    \/ \E k \in Readers : Ask(k) \/ Tell(k)

Spec == Init /\ [][Next]_<<stage, madeFrom, active, asked, answer>>
=============================================================================
