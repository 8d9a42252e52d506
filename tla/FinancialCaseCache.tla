------------------------- MODULE FinancialCaseCache -------------------------
(***************************************************************************)
(* The Gate 4 SQL projection of the financial facts of one case             *)
(* (broker_reports_gate1/gate4_financial_case_cache.py): rebuilds of the    *)
(* case or of one document, and reads, by several processes, while the      *)
(* canonical version of a document and its financial annotations change.    *)
(*                                                                         *)
(* Upstream are, per document, the active canonical version and the         *)
(* annotation artifacts.  Nobody tells the cache that they changed: every   *)
(* operation derives the current source set (Gate 3 case readiness) from    *)
(* them, one document at a time, and compares it with what it saw before.   *)
(* The only exception are two triggers, which take the facts of annotations *)
(* that expire or are purged.                                              *)
(*                                                                         *)
(* A write is one BEGIN IMMEDIATE transaction.  A read opens none: each of  *)
(* its SELECTs sees the cache of its own moment.                            *)
(*                                                                         *)
(* Generation row and facts of a document are written and deleted together  *)
(* and follow from the annotations, which are immutable: cached[d] is the   *)
(* annotations artifact whose facts are there.                              *)
(***************************************************************************)
EXTENDS Integers, FiniteSets

CONSTANTS
    NDocs,     \* the documents of the case, in the order they are visited
    Versions,  \* canonical versions a document may have active
    MaxAnn,    \* bound: how many annotation artifacts are written
    About,     \* the document and version each of them annotates
    Procs,     \* processes that rebuild and read
    Case,      \* the request to rebuild the case and read it
    Facts,     \* the request for the facts of the case
    None       \* no active version, no annotations, no cached facts

Docs        == 1 .. NDocs
Annotations == 1 .. MaxAnn

ASSUME SizeAssumption  == NDocs \in Nat \ {0} /\ MaxAnn \in Nat
ASSUME AboutAssumption == About \in [Annotations -> Docs \X Versions]
ASSUME NoneAssumption  == None \notin Versions /\ None \notin Annotations
ASSUME RequestAssumption == Case # Facts /\ Case \notin Docs /\ Facts \notin Docs

\* Artifact lifecycles; "gone" is expired, purge_pending or purged.
Lives == {"absent", "ready", "gone"}

\* Gate4FinancialCaseSource: the binding of a document and its reason codes.
Source == [version : Versions \cup {None}, ann : Annotations \cup {None},
           stale : BOOLEAN, incomplete : BOOLEAN]

NoSource == [version |-> None, ann |-> None, stale |-> FALSE, incomplete |-> FALSE]

\* What a process may be asked for; a document is to be rebuilt alone.
Requests == Docs \cup {Case, Facts}

\* Passes over the documents that derive the current source set.
Passes == {"sources", "check", "recheck", "look", "confirm"}

Points == Passes \cup {"idle", "materialize", "write", "clear", "generations",
                       "query", "served", "died"}

VARIABLES
    active,   \* canonical_active_versions, per document
    life,     \* artifact_records.lifecycle_status of annotations
    cached,   \* the annotations whose generation and facts are cached
    pc,       \* where a process stands between two accesses
    request,  \* what it was asked for
    at,       \* the next document of its pass
    want,     \* the source set it goes by
    seen,     \* the source set of its current pass
    rows      \* the annotations whose facts its query returned

upstream == <<active, life>>
local    == <<pc, request, at, want, seen, rows>>
vars     == <<active, life, cached, local>>

Init ==
    /\ active  = [d \in Docs |-> None]
    /\ life    = [n \in Annotations |-> "absent"]
    /\ cached  = [d \in Docs |-> None]
    /\ pc      = [p \in Procs |-> "idle"]
    /\ request = [p \in Procs |-> Facts]
    /\ at      = [p \in Procs |-> 1]
    /\ want    = [p \in Procs |-> [d \in Docs |-> NoSource]]
    /\ seen    = [p \in Procs |-> [d \in Docs |-> NoSource]]
    /\ rows    = [p \in Procs |-> {}]

-----------------------------------------------------------------------------
(* Upstream. *)

Of(d) == {n \in Annotations : About[n][1] = d}

\* Publication, activation, rollback or purge of canonical versions.
MovePointer(d, v) ==
    /\ v # active[d]
    /\ active' = [active EXCEPT ![d] = v]
    /\ UNCHANGED <<life, cached, local>>

\* Gate 3 stores annotations; their numbers are the order of created_at.
Annotate(n) ==
    /\ life[n] = "absent"
    /\ \A m \in 1 .. n - 1 : life[m] # "absent"
    /\ life' = [life EXCEPT ![n] = "ready"]
    /\ UNCHANGED <<active, cached, local>>

\* Annotations expire, are marked for deletion and are purged, each with an update
\* in whose transaction trg_g4_upstream_lifecycle takes the facts away.
WithoutFactsOf(n) == [d \in Docs |-> IF cached[d] = n THEN None ELSE cached[d]]

Withdraw(n) ==
    /\ life[n] # "absent"
    /\ life'   = [life EXCEPT ![n] = "gone"]
    /\ cached' = WithoutFactsOf(n)
    /\ UNCHANGED <<active, local>>

-----------------------------------------------------------------------------
(* The current source set. *)

Current(d) ==
    {n \in Of(d) : life[n] = "ready" /\ active[d] # None /\ About[n][2] = active[d]}

\* The newest annotations of the active version.
Selected(d) ==
    IF Current(d) = {} THEN None
    ELSE CHOOSE n \in Current(d) : \A m \in Current(d) : m <= n

SourceOf(d) ==
    [version    |-> active[d],
     ann        |-> Selected(d),
     stale      |-> \E n \in Of(d) : life[n] = "ready" /\ n \notin Current(d),
     incomplete |-> \E n \in Of(d) : life[n] = "gone"]

\* A request goes over one document or over all; a rebuild of one document
\* compares its binding only.
First(r) == IF r \in Docs THEN r ELSE 1
Last(p)  == IF request[p] \in Docs THEN request[p] ELSE NDocs

NothingSeen == [d \in Docs |-> NoSource]

\* A pass sees its documents one by one and is decided with the last of them.
SeenNow(p) == [seen[p] EXCEPT ![at[p]] = SourceOf(at[p])]

PassEnds(p, pass) == pc[p] = pass /\ at[p] = Last(p)

\* Mutant of See: off by one at the end of the pass.
SeeOneMore(p) ==
    /\ pc[p] \in Passes
    /\ at[p] <= Last(p)
    /\ seen' = [seen EXCEPT ![p] = SeenNow(p)]
    /\ at'   = [at EXCEPT ![p] = @ + 1]
    /\ UNCHANGED <<upstream, cached, pc, request, want, rows>>

\* A document's source is read in one step here.  The code catalogs the case as
\* the pass begins, and then reads the active version and each candidate on their
\* own: it may miss annotations that appear during the pass, and so answer as of
\* its beginning, but those it names were read ready as it came to the document.
See(p) ==
    /\ pc[p] \in Passes
    /\ at[p] < Last(p)
    /\ seen' = [seen EXCEPT ![p] = SeenNow(p)]
    /\ at'   = [at EXCEPT ![p] = @ + 1]
    /\ UNCHANGED <<upstream, cached, pc, request, want, rows>>

\* The source sets agree; for one document, its version and annotations do.
Binding(s) == <<s.version, s.ann>>

Agrees(p) ==
    IF request[p] \in Docs
    THEN Binding(SeenNow(p)[request[p]]) = Binding(want[p][request[p]])
    ELSE SeenNow(p) = want[p]

\* The next part of a request, from its first document on.
Enter(p, point, goesBy) ==
    /\ pc'   = [pc EXCEPT ![p] = point]
    /\ at'   = [at EXCEPT ![p] = First(request[p])]
    /\ want' = [want EXCEPT ![p] = goesBy]
    /\ seen' = [seen EXCEPT ![p] = NothingSeen]
    /\ UNCHANGED request

\* What a request knew ends with it.
Leave(p, point) ==
    /\ pc'      = [pc EXCEPT ![p] = point]
    /\ request' = [request EXCEPT ![p] = Facts]
    /\ at'      = [at EXCEPT ![p] = 1]
    /\ want'    = [want EXCEPT ![p] = NothingSeen]
    /\ seen'    = [seen EXCEPT ![p] = NothingSeen]
    /\ rows'    = [rows EXCEPT ![p] = {}]

-----------------------------------------------------------------------------
(* Requests. *)

Begin(p, r) ==
    /\ pc[p] = "idle"
    /\ request' = [request EXCEPT ![p] = r]
    /\ pc'      = [pc EXCEPT ![p] = IF r = Facts THEN "look" ELSE "sources"]
    /\ at'      = [at EXCEPT ![p] = First(r)]
    /\ UNCHANGED <<upstream, cached, want, seen, rows>>

Fail(p) == Leave(p, "idle") /\ UNCHANGED <<upstream, cached>>

\* A rebuild of a document needs its binding; a rebuild of the case takes the
\* bindings there are.
Selects(p) == request[p] \in Docs => SeenNow(p)[request[p]].ann # None

TakeSources(p) ==
    /\ PassEnds(p, "sources")
    /\ Selects(p)
    /\ Enter(p, "materialize", SeenNow(p))
    /\ UNCHANGED <<upstream, cached, rows>>

NotSelected(p) ==
    /\ PassEnds(p, "sources")
    /\ ~Selects(p)
    /\ Fail(p)

\* A binding is materialized while its annotations can be read and its version
\* is active; a document without one is passed over.
Materializable(p) ==
    LET s == want[p][at[p]]
    IN  s.ann # None => life[s.ann] = "ready" /\ active[at[p]] = s.version

Materialize(p) ==
    /\ pc[p] = "materialize"
    /\ Materializable(p)
    /\ IF at[p] < Last(p)
       THEN at' = [at EXCEPT ![p] = @ + 1] /\ UNCHANGED <<pc, request, want, seen>>
       ELSE Enter(p, "check", want[p])
    /\ UNCHANGED <<upstream, cached, rows>>

MaterializeFails(p) ==
    /\ pc[p] = "materialize"
    /\ ~Materializable(p)
    /\ Fail(p)

Check(p) ==
    /\ PassEnds(p, "check")
    /\ Agrees(p)
    /\ Enter(p, "write", want[p])
    /\ UNCHANGED <<upstream, cached, rows>>

CheckFails(p) ==
    /\ PassEnds(p, "check")
    /\ ~Agrees(p)
    /\ Fail(p)

\* Mutant of Replaced: inserts what is missing, without the delete.
InsertMissing(p) ==
    [d \in Docs |-> IF request[p] \in Docs \ {d} \/ cached[d] # None
                    THEN cached[d] ELSE want[p][d].ann]

\* replace_case and replace_document: one transaction that deletes and inserts.
Replaced(p) ==
    [d \in Docs |-> IF request[p] \in Docs \ {d} THEN cached[d] ELSE want[p][d].ann]

Write(p) ==
    /\ pc[p] = "write"
    /\ cached' = Replaced(p)
    /\ Enter(p, "recheck", want[p])
    /\ UNCHANGED <<upstream, rows>>

\* rebuild_artifact returns; rebuild_case goes on to read the case.
Recheck(p) ==
    /\ PassEnds(p, "recheck")
    /\ Agrees(p)
    /\ IF request[p] \in Docs
       THEN Leave(p, "idle")
       ELSE Enter(p, "look", NothingSeen) /\ UNCHANGED rows
    /\ UNCHANGED <<upstream, cached>>

\* Mutant of RecheckFails: reports the stale rebuild and leaves its facts.
RecheckReports(p) ==
    /\ PassEnds(p, "recheck")
    /\ ~Agrees(p)
    /\ Fail(p)

RecheckFails(p) ==
    /\ PassEnds(p, "recheck")
    /\ ~Agrees(p)
    /\ Enter(p, "clear", want[p])
    /\ UNCHANGED <<upstream, cached, rows>>

\* clear_case and clear_document, in a transaction of their own.
Cleared(r) == [d \in Docs |-> IF r \in Docs \ {d} THEN cached[d] ELSE None]

Clear(p) ==
    /\ pc[p] = "clear"
    /\ cached' = Cleared(request[p])
    /\ Leave(p, "idle")
    /\ UNCHANGED upstream

\* clear_case_cache, on request.
ClearCaseCache ==
    /\ cached' = Cleared(Case)
    /\ UNCHANGED <<upstream, local>>

-----------------------------------------------------------------------------
(* Reads. *)

Look(p) ==
    /\ PassEnds(p, "look")
    /\ Enter(p, "generations", SeenNow(p))
    /\ UNCHANGED <<upstream, cached, rows>>

\* The annotations the source set of p expects to be cached.
Expected(p) == {want[p][d].ann : d \in Docs} \ {None}

\* The first SELECT: the generations are those of the source set, and there are
\* some, or the case may have none.
GenerationsMatch(p) ==
    /\ \A d \in Docs : cached[d] = want[p][d].ann
    /\ request[p] = Case \/ Expected(p) # {}

ReadGenerations(p) ==
    /\ pc[p] = "generations"
    /\ GenerationsMatch(p)
    /\ Enter(p, "query", want[p])
    /\ UNCHANGED <<upstream, cached, rows>>

MissingOrStale(p) ==
    /\ pc[p] = "generations"
    /\ ~GenerationsMatch(p)
    /\ Fail(p)

\* The second SELECT: the facts of the case, of whatever generation they are.
Query(p) ==
    /\ pc[p] = "query"
    /\ rows' = [rows EXCEPT ![p] = {cached[d] : d \in Docs} \ {None}]
    /\ Enter(p, "confirm", want[p])
    /\ UNCHANGED <<upstream, cached>>

Confirm(p) ==
    /\ PassEnds(p, "confirm")
    /\ Agrees(p)
    /\ Enter(p, "served", want[p])
    /\ UNCHANGED <<upstream, cached, rows>>

ConfirmFails(p) ==
    /\ PassEnds(p, "confirm")
    /\ ~Agrees(p)
    /\ Fail(p)

\* The facts are handed over to the caller.
Return(p) == pc[p] = "served" /\ Fail(p)

\* A process may die between any two accesses.  What one leaves behind that had
\* written, and was still to look again, can be told from its want.
Die(p) ==
    /\ pc[p] \notin {"idle", "died"}
    /\ IF pc[p] \in {"recheck", "clear"}
       THEN Enter(p, "died", want[p]) /\ UNCHANGED rows
       ELSE Leave(p, "died")
    /\ UNCHANGED <<upstream, cached>>

-----------------------------------------------------------------------------
Rebuild(p) ==
    \/ TakeSources(p) \/ NotSelected(p) \/ Materialize(p) \/ MaterializeFails(p)
    \/ Check(p) \/ CheckFails(p) \/ Write(p)
    \/ Recheck(p) \/ RecheckFails(p) \/ Clear(p)

Read(p) ==
    \/ Look(p) \/ ReadGenerations(p) \/ MissingOrStale(p)
    \/ Query(p) \/ Confirm(p) \/ ConfirmFails(p) \/ Return(p)

Advance(p) == See(p) \/ Rebuild(p) \/ Read(p)

Upstream ==
    \/ \E d \in Docs, v \in Versions \cup {None} : MovePointer(d, v)
    \/ \E n \in Annotations : Annotate(n) \/ Withdraw(n)

Next ==
    \/ Upstream
    \/ ClearCaseCache
    \/ \E p \in Procs :
          \/ \E r \in Requests : Begin(p, r)
          \/ Advance(p)
          \/ Die(p)

Spec == Init /\ [][Next]_vars

\* A request that runs comes to its end, and each process is asked for the case
\* again and again.
LiveSpec ==
    /\ Spec
    /\ \A p \in Procs : WF_vars(Advance(p)) /\ SF_vars(Begin(p, Case))

-----------------------------------------------------------------------------
(* What must hold. *)

TypeOK ==
    /\ active  \in [Docs -> Versions \cup {None}]
    /\ life    \in [Annotations -> Lives]
    /\ cached  \in [Docs -> Annotations \cup {None}]
    /\ pc      \in [Procs -> Points]
    /\ request \in [Procs -> Requests]
    /\ at      \in [Procs -> Docs]
    /\ want    \in [Procs -> [Docs -> Source]]
    /\ seen    \in [Procs -> [Docs -> Source]]
    /\ rows    \in [Procs -> SUBSET Annotations]

\* p wrote the facts of n for d and will take them away again, unless it died:
\* d is still ahead in its second look, or looked different.
Answers(p, d, n) ==
    /\ want[p][d].ann = n
    /\ request[p] \in {d, Case}
    /\ \/ pc[p] = "recheck" /\ (at[p] <= d \/ seen[p][d].ann # n)
       \/ pc[p] \in {"clear", "died"}

\* Facts of expired or purged annotations are in the cache only for as long as
\* the rebuild that was late to write them is at work, or because it died then.
GoneFactsAreOwned ==
    \A d \in Docs :
        (cached[d] # None /\ life[cached[d]] = "gone") =>
            \E p \in Procs : Answers(p, d, cached[d])

\* Once upstream comes to rest and only requests write to the cache, rebuilds
\* succeed: no late writer or cleaner of another source set is left.
Quiet == UNCHANGED upstream /\ (cached' # cached => pc' # pc)

QuietIsServed ==
    <>[][Quiet]_vars => \A p \in Procs : []<>(pc[p] \in {"served", "died"})

\* The contract of the read boundary: "A missing or stale cache therefore fails
\* closed [...] rather than being returned as the current Financial Case."
NothingStaleIsServed ==
    \A p \in Procs : pc[p] = "served" => rows[p] \subseteq Expected(p)
=============================================================================
