---------------------- MODULE FinancialCaseCache_proofs ----------------------
(***************************************************************************)
(* For any documents, versions, annotations and processes: the types, and   *)
(* that facts of withdrawn annotations are only ever left by a rebuild that *)
(* is still to take them away or that died on the way.                      *)
(***************************************************************************)
EXTENDS FinancialCaseCache, TLAPS, WellFoundedInduction

USE SizeAssumption, AboutAssumption, NoneAssumption, RequestAssumption DEF Docs, Annotations

\* There is a newest of some annotations: their distances from MaxAnn are
\* natural numbers, of which there is a least.
LEMMA NewestExists ==
  ASSUME NEW S \in SUBSET Annotations, S # {}
  PROVE  \E n \in S : \A m \in S : m <= n
<1> DEFINE T == {k \in Nat : MaxAnn - k \in S}
<1> DEFINE R == OpToRel(<, Nat)
<1>1. T \subseteq Nat /\ T # {}
  <2> PICK n \in S : TRUE
    OBVIOUS
  <2>1. n \in Int /\ n <= MaxAnn /\ MaxAnn - n \in Nat /\ MaxAnn - (MaxAnn - n) = n
    OBVIOUS
  <2> QED BY <2>1
<1>2. PICK k \in T : \A j \in T : ~(<<j, k>> \in R)
  <2> HIDE DEF T
  <2> QED BY <1>1, NatLessThanWellFounded, WFMin
<1>3. \A j \in T : ~(j < k)
  BY <1>2 DEF OpToRel
<1>4. MaxAnn - k \in S
  OBVIOUS
<1>5. ASSUME NEW m \in S
      PROVE  m <= MaxAnn - k
  <2>1. m \in Int /\ MaxAnn - m \in Nat /\ MaxAnn - (MaxAnn - m) = m
    OBVIOUS
  <2>2. MaxAnn - m \in T
    BY <2>1
  <2>3. ~(MaxAnn - m < k) /\ k \in Nat
    BY <1>3, <2>2
  <2> QED BY <2>1, <2>3
<1> QED BY <1>4, <1>5

\* What a source set says of a document is a source.
LEMMA SourceIsSource ==
  ASSUME TypeOK, NEW d \in Docs
  PROVE  SourceOf(d) \in Source
<1>1. Current(d) \in SUBSET Annotations
  BY DEF Current, Of
<1>2. Selected(d) \in Annotations \cup {None}
  <2>1. CASE Current(d) = {}
    BY <2>1 DEF Selected
  <2>2. CASE Current(d) # {}
    <3>1. \E n \in Current(d) : \A m \in Current(d) : m <= n
      BY <1>1, <2>2, NewestExists
    <3> QED BY <1>1, <2>2, <3>1 DEF Selected
  <2> QED BY <2>1, <2>2
<1> QED BY <1>2 DEF SourceOf, Source, TypeOK

\* The annotations a source set names for a document can be read.
LEMMA SourceIsReady ==
  ASSUME TypeOK, NEW d \in Docs, SourceOf(d).ann # None
  PROVE  life[SourceOf(d).ann] = "ready"
<1>1. Current(d) \in SUBSET Annotations
  BY DEF Current, Of
<1>2. SourceOf(d).ann = Selected(d) /\ Current(d) # {}
  BY DEF SourceOf, Selected
<1>3. \E n \in Current(d) : \A m \in Current(d) : m <= n
  BY <1>1, <1>2, NewestExists
<1>4. Selected(d) \in Current(d)
  BY <1>2, <1>3 DEF Selected
<1> QED BY <1>2, <1>4 DEF Current

-----------------------------------------------------------------------------
(* Types. *)

\* A process that goes on to the next part of its request keeps the types.
LEMMA EnterTypes ==
  ASSUME TypeOK, NEW p \in Procs, NEW point \in Points, NEW goesBy \in [Docs -> Source],
         Enter(p, point, goesBy)
  PROVE  /\ pc' \in [Procs -> Points]
         /\ request' \in [Procs -> Requests]
         /\ at' \in [Procs -> Docs]
         /\ want' \in [Procs -> [Docs -> Source]]
         /\ seen' \in [Procs -> [Docs -> Source]]
<1>1. NothingSeen \in [Docs -> Source]
  BY DEF NothingSeen, NoSource, Source
<1>2. First(request[p]) \in Docs
  BY DEF First
<1> QED BY <1>1, <1>2 DEF Enter, TypeOK

\* So does one whose request ends.
LEMMA LeaveTypes ==
  ASSUME TypeOK, NEW p \in Procs, NEW point \in Points, Leave(p, point)
  PROVE  /\ pc' \in [Procs -> Points]
         /\ request' \in [Procs -> Requests]
         /\ at' \in [Procs -> Docs]
         /\ want' \in [Procs -> [Docs -> Source]]
         /\ seen' \in [Procs -> [Docs -> Source]]
         /\ rows' \in [Procs -> SUBSET Annotations]
<1>1. NothingSeen \in [Docs -> Source]
  BY DEF NothingSeen, NoSource, Source
<1> QED BY <1>1 DEF Leave, TypeOK, Requests

\* A pass that ends has seen a source set.
LEMMA SeenNowTypes ==
  ASSUME TypeOK, NEW p \in Procs
  PROVE  SeenNow(p) \in [Docs -> Source]
<1>1. at[p] \in Docs /\ seen[p] \in [Docs -> Source]
  BY DEF TypeOK
<1> QED BY <1>1, SourceIsSource DEF SeenNow

\* The points the actions name are points.
LEMMA PointsArePoints ==
  {"idle", "materialize", "write", "clear", "generations", "query", "served", "died",
   "sources", "check", "recheck", "look", "confirm"} = Points
BY DEF Points, Passes

\* The types hold at first.
LEMMA InitTypes == Init => TypeOK
<1> SUFFICES ASSUME Init PROVE TypeOK
  OBVIOUS
<1>1. NoSource \in Source
  BY DEF NoSource, Source
<1> QED BY <1>1 DEF Init, TypeOK, Lives, Points, Requests

\* Changes upstream keep the types,
LEMMA UpstreamTypes ==
  ASSUME TypeOK, Upstream
  PROVE  TypeOK'
<1>1. CASE \E d \in Docs, v \in Versions \cup {None} : MovePointer(d, v)
  BY <1>1 DEF MovePointer, TypeOK, local
<1>2. ASSUME NEW n \in Annotations, Annotate(n)
      PROVE  TypeOK'
  BY <1>2 DEF Annotate, TypeOK, local, Lives
<1>3. ASSUME NEW n \in Annotations, Withdraw(n)
      PROVE  TypeOK'
  BY <1>3 DEF Withdraw, WithoutFactsOf, TypeOK, local, Lives
<1> QED BY <1>1, <1>2, <1>3 DEF Upstream

\* and so do rebuilds
LEMMA RebuildTypes ==
  ASSUME TypeOK, NEW p \in Procs, Rebuild(p)
  PROVE  TypeOK'
<1> USE PointsArePoints
<1>1. want[p] \in [Docs -> Source] /\ SeenNow(p) \in [Docs -> Source]
      /\ NothingSeen \in [Docs -> Source]
  BY SeenNowTypes DEF TypeOK, NothingSeen, NoSource, Source
<1>2. CASE TakeSources(p)
  BY <1>1, <1>2, EnterTypes DEF TakeSources, TypeOK, upstream
<1>3. ASSUME Fail(p)
      PROVE  TypeOK'
  BY <1>3, LeaveTypes DEF Fail, TypeOK, upstream
<1>4. CASE Materialize(p)
  <2>1. CASE at[p] < Last(p)
    <3>1. at[p] + 1 \in Docs
      BY <2>1 DEF TypeOK, Last, Requests
    <3> QED BY <1>4, <2>1, <3>1 DEF Materialize, TypeOK, upstream
  <2>2. CASE ~(at[p] < Last(p))
    BY <1>1, <1>4, <2>2, EnterTypes DEF Materialize, TypeOK, upstream
  <2> QED BY <2>1, <2>2
<1>5. CASE Check(p)
  BY <1>1, <1>5, EnterTypes DEF Check, TypeOK, upstream
<1>6. CASE Write(p)
  <2>1. \A d \in Docs : want[p][d].ann \in Annotations \cup {None}
    BY <1>1 DEF Source
  <2>2. cached' \in [Docs -> Annotations \cup {None}]
    BY <1>6, <2>1 DEF Write, Replaced, TypeOK
  <2> QED BY <1>1, <1>6, <2>2, EnterTypes DEF Write, TypeOK, upstream
<1>7. CASE Recheck(p)
  <2>1. CASE request[p] \in Docs
    BY <1>7, <2>1, LeaveTypes DEF Recheck, TypeOK, upstream
  <2>2. CASE request[p] \notin Docs
    BY <1>1, <1>7, <2>2, EnterTypes DEF Recheck, TypeOK, upstream
  <2> QED BY <2>1, <2>2
<1>8. CASE RecheckFails(p)
  BY <1>1, <1>8, EnterTypes DEF RecheckFails, TypeOK, upstream
<1>9. CASE Clear(p)
  <2>1. cached' \in [Docs -> Annotations \cup {None}]
    BY <1>9 DEF Clear, Cleared, TypeOK
  <2> QED BY <1>9, <2>1, LeaveTypes DEF Clear, TypeOK, upstream
<1> QED BY <1>2, <1>3, <1>4, <1>5, <1>6, <1>7, <1>8, <1>9
        DEF Rebuild, NotSelected, MaterializeFails, CheckFails

\* and reads.
LEMMA ReadTypes ==
  ASSUME TypeOK, NEW p \in Procs, Read(p)
  PROVE  TypeOK'
<1> USE PointsArePoints
<1>1. want[p] \in [Docs -> Source] /\ SeenNow(p) \in [Docs -> Source]
  BY SeenNowTypes DEF TypeOK
<1>2. CASE Look(p)
  BY <1>1, <1>2, EnterTypes DEF Look, TypeOK, upstream
<1>3. ASSUME Fail(p)
      PROVE  TypeOK'
  BY <1>3, LeaveTypes DEF Fail, TypeOK, upstream
<1>4. CASE ReadGenerations(p)
  BY <1>1, <1>4, EnterTypes DEF ReadGenerations, TypeOK, upstream
<1>5. CASE Query(p)
  <2>1. {cached[d] : d \in Docs} \ {None} \in SUBSET Annotations
    BY DEF TypeOK
  <2>2. rows' \in [Procs -> SUBSET Annotations]
    BY <1>5, <2>1 DEF Query, TypeOK
  <2> QED BY <1>1, <1>5, <2>2, EnterTypes DEF Query, TypeOK, upstream
<1>6. CASE Confirm(p)
  BY <1>1, <1>6, EnterTypes DEF Confirm, TypeOK, upstream
<1> QED BY <1>2, <1>3, <1>4, <1>5, <1>6
        DEF Read, MissingOrStale, ConfirmFails, Return

\* Every step keeps the types.
LEMMA TypeStep ==
  ASSUME TypeOK, [Next]_vars
  PROVE  TypeOK'
<1> USE PointsArePoints
<1>1. CASE Upstream
  BY <1>1, UpstreamTypes
<1>2. CASE ClearCaseCache
  BY <1>2 DEF ClearCaseCache, Cleared, TypeOK, upstream, local
<1>3. ASSUME NEW p \in Procs, NEW r \in Requests, Begin(p, r)
      PROVE  TypeOK'
  BY <1>3 DEF Begin, First, TypeOK, upstream
<1>4. ASSUME NEW p \in Procs, See(p)
      PROVE  TypeOK'
  <2>1. SeenNow(p) \in [Docs -> Source]
    BY SeenNowTypes
  <2>2. at[p] + 1 \in Docs
    BY <1>4 DEF See, TypeOK, Last, Requests
  <2> QED BY <1>4, <2>1, <2>2 DEF See, TypeOK, upstream
<1>5. ASSUME NEW p \in Procs, Die(p)
      PROVE  TypeOK'
  <2>1. want[p] \in [Docs -> Source]
    BY DEF TypeOK
  <2>2. CASE pc[p] \in {"recheck", "clear"}
    BY <1>5, <2>1, <2>2, EnterTypes DEF Die, TypeOK, upstream
  <2>3. CASE pc[p] \notin {"recheck", "clear"}
    BY <1>5, <2>3, LeaveTypes DEF Die, TypeOK, upstream
  <2> QED BY <2>2, <2>3
<1>6. CASE UNCHANGED vars
  BY <1>6 DEF vars, upstream, local, TypeOK
<1> QED BY <1>1, <1>2, <1>3, <1>4, <1>5, <1>6, RebuildTypes, ReadTypes DEF Next, Advance

\* The types of the cache and of its processes hold for any case.
THEOREM CacheAlwaysTyped == Spec => []TypeOK
<1>1. TypeOK /\ [Next]_vars => TypeOK'
  BY TypeStep
<1> QED BY InitTypes, <1>1, PTL DEF Spec

-----------------------------------------------------------------------------
(* Facts of withdrawn annotations. *)

\* Only a rebuild writes, and it was asked for a document or for the case.
RebuildsAreAsked ==
    \A p \in Procs :
        pc[p] \in {"sources", "materialize", "check", "write", "recheck", "clear"} =>
            request[p] # Facts

OwnedInv == TypeOK /\ RebuildsAreAsked /\ GoneFactsAreOwned

\* Only who was asked for a rebuild is at work on one.
LEMMA AskedStep ==
  ASSUME OwnedInv, [Next]_vars
  PROVE  RebuildsAreAsked'
<1> USE DEF OwnedInv, TypeOK, RebuildsAreAsked
<1>1. CASE Upstream \/ ClearCaseCache \/ UNCHANGED vars
  BY <1>1 DEF Upstream, MovePointer, Annotate, Withdraw, ClearCaseCache, vars, upstream, local
<1>2. ASSUME NEW p \in Procs, NEW r \in Requests, Begin(p, r)
      PROVE  RebuildsAreAsked'
  BY <1>2 DEF Begin
<1>3. ASSUME NEW p \in Procs, See(p)
      PROVE  RebuildsAreAsked'
  BY <1>3 DEF See
<1>4. ASSUME NEW p \in Procs, Die(p)
      PROVE  RebuildsAreAsked'
  BY <1>4 DEF Die, Enter, Leave
<1>5. ASSUME NEW p \in Procs, Rebuild(p)
      PROVE  RebuildsAreAsked'
  <2>1. CASE Fail(p) \/ Clear(p)
    BY <2>1 DEF Fail, Clear, Leave
  <2>2. CASE Materialize(p)
    BY <2>2 DEF Materialize, Enter
  <2>3. CASE Recheck(p)
    <3>1. CASE request[p] \in Docs
      <4>1. /\ pc' = [pc EXCEPT ![p] = "idle"]
            /\ request' = [request EXCEPT ![p] = Facts]
        BY <2>3, <3>1 DEF Recheck, Leave
      <4> QED BY <4>1
    <3>2. CASE request[p] \notin Docs
      BY <2>3, <3>2 DEF Recheck, Enter
    <3> QED BY <3>1, <3>2
  <2>4. CASE TakeSources(p) \/ Check(p) \/ Write(p) \/ RecheckFails(p)
    BY <2>4 DEF TakeSources, Check, Write, RecheckFails, PassEnds, Enter
  <2> QED BY <1>5, <2>1, <2>2, <2>3, <2>4
          DEF Rebuild, NotSelected, MaterializeFails, CheckFails
<1>6. ASSUME NEW p \in Procs, Read(p)
      PROVE  RebuildsAreAsked'
  <2>1. CASE Fail(p)
    BY <2>1 DEF Fail, Leave
  <2>2. CASE Look(p) \/ ReadGenerations(p) \/ Query(p) \/ Confirm(p)
    BY <2>2 DEF Look, ReadGenerations, Query, Confirm, PassEnds, Enter
  <2> QED BY <1>6, <2>1, <2>2 DEF Read, MissingOrStale, ConfirmFails, Return
<1> QED BY <1>1, <1>2, <1>3, <1>4, <1>5, <1>6 DEF Next, Advance

\* Steps of others leave what p answers for.
Untouched(p) ==
    /\ pc'[p] = pc[p] /\ request'[p] = request[p] /\ at'[p] = at[p]
    /\ want'[p] = want[p] /\ seen'[p] = seen[p]

LEMMA OthersUntouched ==
  ASSUME TypeOK, NEW p \in Procs, NEW q \in Procs \ {p},
         (\E r \in Requests : Begin(p, r)) \/ Advance(p) \/ Die(p)
  PROVE  Untouched(q)
<1> USE DEF TypeOK, Untouched
<1>1. ASSUME NEW point, NEW goesBy, Enter(p, point, goesBy) PROVE Untouched(q)
  BY <1>1 DEF Enter
<1>2. ASSUME NEW point, Leave(p, point) PROVE Untouched(q)
  BY <1>2 DEF Leave
<1>3. CASE \E r \in Requests : Begin(p, r)
  BY <1>3 DEF Begin
<1>4. CASE See(p)
  BY <1>4 DEF See
<1>5. CASE Die(p)
  BY <1>1, <1>2, <1>5 DEF Die
<1>6. CASE Fail(p) \/ Clear(p)
  BY <1>2, <1>6 DEF Fail, Clear
<1>7. CASE Materialize(p)
  BY <1>1, <1>7 DEF Materialize
<1>8. CASE Recheck(p)
  BY <1>1, <1>2, <1>8 DEF Recheck
<1>9. CASE TakeSources(p) \/ Check(p) \/ Write(p) \/ RecheckFails(p)
  BY <1>1, <1>9 DEF TakeSources, Check, Write, RecheckFails
<1>10. CASE Look(p) \/ ReadGenerations(p) \/ Query(p) \/ Confirm(p)
  BY <1>1, <1>10 DEF Look, ReadGenerations, Query, Confirm
<1> QED BY <1>3, <1>4, <1>5, <1>6, <1>7, <1>8, <1>9, <1>10
        DEF Advance, Rebuild, Read, NotSelected, MaterializeFails, CheckFails,
            MissingOrStale, ConfirmFails, Return

\* A step that writes nothing, of a process that answers for nothing.
LEMMA NothingToAnswer ==
  ASSUME OwnedInv, NEW p \in Procs, UNCHANGED <<life, cached>>,
         pc[p] \notin {"recheck", "clear", "died"},
         (\E r \in Requests : Begin(p, r)) \/ Advance(p) \/ Die(p)
  PROVE  GoneFactsAreOwned'
<1> SUFFICES ASSUME NEW d \in Docs, cached[d] # None, life[cached[d]] = "gone"
             PROVE  \E q \in Procs : Answers(q, d, cached[d])'
  BY DEF GoneFactsAreOwned
<1>1. PICK q \in Procs : Answers(q, d, cached[d])
  BY DEF OwnedInv, GoneFactsAreOwned
<1>2. q \in Procs \ {p}
  BY <1>1 DEF Answers
<1>3. Untouched(q)
  BY <1>2, OthersUntouched DEF OwnedInv
<1>4. Answers(q, d, cached[d])'
  BY <1>1, <1>3 DEF Answers, Untouched
<1> QED BY <1>4

\* What the second look of p sees of a document is not withdrawn.
LEMMA SeenIsReady ==
  ASSUME TypeOK, NEW d \in Docs, NEW n \in Annotations, life[n] = "gone"
  PROVE  SourceOf(d).ann # n
BY SourceIsReady

\* Every step keeps withdrawn facts owned.
LEMMA OwnedStep ==
  ASSUME OwnedInv, [Next]_vars
  PROVE  GoneFactsAreOwned'
<1> USE DEF OwnedInv
<1>1. CASE Upstream \/ ClearCaseCache \/ UNCHANGED vars
  <2> SUFFICES ASSUME NEW d \in Docs, cached'[d] # None, life'[cached'[d]] = "gone"
               PROVE  \E q \in Procs : Answers(q, d, cached[d])'
    BY DEF GoneFactsAreOwned
  <2>1. UNCHANGED local
    BY <1>1 DEF Upstream, MovePointer, Annotate, Withdraw, ClearCaseCache, vars
  <2>2. cached'[d] = cached[d] /\ life[cached[d]] = "gone"
    <3>1. CASE \E e \in Docs, v \in Versions \cup {None} : MovePointer(e, v)
      BY <3>1 DEF MovePointer
    <3>2. ASSUME NEW n \in Annotations, Annotate(n)
          PROVE  cached'[d] = cached[d] /\ life[cached[d]] = "gone"
      BY <3>2 DEF Annotate, TypeOK
    <3>3. ASSUME NEW n \in Annotations, Withdraw(n)
          PROVE  cached'[d] = cached[d] /\ life[cached[d]] = "gone"
      BY <3>3 DEF Withdraw, WithoutFactsOf, TypeOK
    <3>4. CASE ClearCaseCache
      BY <3>4 DEF ClearCaseCache, Cleared, TypeOK
    <3>5. CASE UNCHANGED vars
      BY <3>5 DEF vars, upstream
    <3> QED BY <1>1, <3>1, <3>2, <3>3, <3>4, <3>5 DEF Upstream
  <2>3. PICK q \in Procs : Answers(q, d, cached[d])
    BY <2>2 DEF GoneFactsAreOwned
  <2> QED BY <2>1, <2>2, <2>3 DEF Answers, local
<1>2. ASSUME NEW p \in Procs, NEW r \in Requests, Begin(p, r)
      PROVE  GoneFactsAreOwned'
  BY <1>2, NothingToAnswer DEF Begin, upstream
<1>3. ASSUME NEW p \in Procs, See(p)
      PROVE  GoneFactsAreOwned'
  <2> SUFFICES ASSUME NEW d \in Docs, cached[d] # None, life[cached[d]] = "gone"
               PROVE  \E q \in Procs : Answers(q, d, cached[d])'
    BY <1>3 DEF GoneFactsAreOwned, See, upstream
  <2>1. PICK q \in Procs : Answers(q, d, cached[d])
    BY DEF GoneFactsAreOwned
  <2>2. CASE q # p
    <3>1. Untouched(q)
      BY <1>3, <2>2, OthersUntouched DEF Advance
    <3> QED BY <1>3, <2>1, <3>1 DEF See, Answers, Untouched
  <2>3. CASE q = p /\ d = at[p]
    <3>1. seen'[p][d] = SourceOf(d)
      BY <1>3, <2>3 DEF See, SeenNow, TypeOK
    <3>2. SourceOf(d).ann # cached[d]
      BY SeenIsReady DEF TypeOK
    <3> QED BY <1>3, <2>1, <2>3, <3>1, <3>2 DEF Answers, See
  <2>4. CASE q = p /\ d # at[p]
    <3>1. seen'[p][d] = seen[p][d] /\ at'[p] = at[p] + 1 /\ at[p] \in Docs
      BY <1>3, <2>4 DEF See, SeenNow, TypeOK
    <3>2. at[p] <= d => at'[p] <= d
      BY <2>4, <3>1
    <3> QED BY <1>3, <2>1, <2>4, <3>1, <3>2 DEF Answers, See
  <2> QED BY <2>2, <2>3, <2>4
<1>4. ASSUME NEW p \in Procs, Die(p)
      PROVE  GoneFactsAreOwned'
  <2>1. CASE pc[p] \notin {"recheck", "clear"}
    BY <1>4, <2>1, NothingToAnswer DEF Die, upstream
  <2>2. CASE pc[p] \in {"recheck", "clear"}
    <3> SUFFICES ASSUME NEW d \in Docs, cached[d] # None, life[cached[d]] = "gone"
                 PROVE  \E q \in Procs : Answers(q, d, cached[d])'
      BY <1>4 DEF GoneFactsAreOwned, Die, upstream
    <3>1. PICK q \in Procs : Answers(q, d, cached[d])
      BY DEF GoneFactsAreOwned
    <3>2. CASE q # p
      <4>1. Untouched(q)
        BY <1>4, <3>2, OthersUntouched
      <4> QED BY <1>4, <3>1, <4>1 DEF Die, Answers, Untouched
    <3>3. CASE q = p
      BY <1>4, <2>2, <3>1, <3>3 DEF Answers, Die, Enter, TypeOK
    <3> QED BY <3>2, <3>3
  <2> QED BY <2>1, <2>2
<1>5. ASSUME NEW p \in Procs, Write(p)
      PROVE  GoneFactsAreOwned'
  <2> SUFFICES ASSUME NEW d \in Docs, cached'[d] # None, life[cached'[d]] = "gone"
               PROVE  \E q \in Procs : Answers(q, d, cached[d])'
    BY <1>5 DEF GoneFactsAreOwned, Write, upstream
  <2>1. CASE request[p] \in Docs \ {d}
    <3>1. cached'[d] = cached[d]
      BY <1>5, <2>1 DEF Write, Replaced
    <3>2. PICK q \in Procs : Answers(q, d, cached[d])
      BY <3>1 DEF GoneFactsAreOwned
    <3>3. q \in Procs \ {p}
      BY <1>5, <3>2 DEF Answers, Write
    <3>4. Untouched(q)
      BY <1>5, <3>3, OthersUntouched DEF Advance, Rebuild
    <3> QED BY <3>1, <3>2, <3>4 DEF Answers, Untouched
  <2>2. CASE request[p] \notin Docs \ {d}
    <3>1. cached'[d] = want[p][d].ann
      BY <1>5, <2>2 DEF Write, Replaced
    <3>2. request[p] \in {d, Case}
      BY <1>5, <2>2 DEF Write, RebuildsAreAsked, TypeOK, Requests
    <3>3. First(request[p]) <= d
      BY <3>2 DEF First
    <3> QED BY <1>5, <3>1, <3>2, <3>3 DEF Answers, Write, Enter, TypeOK
  <2> QED BY <2>1, <2>2
<1>6. ASSUME NEW p \in Procs, Recheck(p)
      PROVE  GoneFactsAreOwned'
  <2> SUFFICES ASSUME NEW d \in Docs, cached[d] # None, life[cached[d]] = "gone"
               PROVE  \E q \in Procs : Answers(q, d, cached[d])'
    BY <1>6 DEF GoneFactsAreOwned, Recheck, upstream
  <2>1. PICK q \in Procs : Answers(q, d, cached[d])
    BY DEF GoneFactsAreOwned
  <2>2. ASSUME q = p
        PROVE  FALSE
    <3>1. pc[p] = "recheck" /\ want[p][d].ann = cached[d] /\ request[p] \in {d, Case}
          /\ (at[p] <= d \/ seen[p][d].ann # cached[d])
      BY <1>6, <2>1, <2>2 DEF Answers, Recheck, PassEnds
    <3>2. SeenNow(p)[d].ann = want[p][d].ann
      BY <1>6, <3>1 DEF Recheck, Agrees, Binding
    <3>3. SourceOf(d).ann # cached[d]
      BY SeenIsReady DEF TypeOK
    <3>4. at[p] # d
      BY <3>1, <3>2, <3>3 DEF SeenNow, TypeOK
    <3>5. seen[p][d].ann = cached[d]
      BY <3>1, <3>2, <3>4 DEF SeenNow, TypeOK
    <3>6. at[p] = Last(p) /\ request[p] = Case /\ d <= NDocs
      <4>1. at[p] = Last(p)
        BY <1>6 DEF Recheck, PassEnds
      <4>2. CASE request[p] = d
        BY <3>4, <4>1, <4>2 DEF Last
      <4> QED BY <3>1, <4>1, <4>2
    <3> QED BY <3>1, <3>4, <3>5, <3>6 DEF Last
  <2>3. Untouched(q)
    BY <1>6, <2>2, OthersUntouched DEF Advance, Rebuild
  <2> QED BY <1>6, <2>1, <2>3 DEF Recheck, Answers, Untouched
<1>7. ASSUME NEW p \in Procs, RecheckFails(p)
      PROVE  GoneFactsAreOwned'
  <2> SUFFICES ASSUME NEW d \in Docs, cached[d] # None, life[cached[d]] = "gone"
               PROVE  \E q \in Procs : Answers(q, d, cached[d])'
    BY <1>7 DEF GoneFactsAreOwned, RecheckFails, upstream
  <2>1. PICK q \in Procs : Answers(q, d, cached[d])
    BY DEF GoneFactsAreOwned
  <2>2. CASE q # p
    <3>1. Untouched(q)
      BY <1>7, <2>2, OthersUntouched DEF Advance, Rebuild
    <3> QED BY <1>7, <2>1, <3>1 DEF RecheckFails, Answers, Untouched
  <2>3. CASE q = p
    BY <1>7, <2>1, <2>3 DEF Answers, RecheckFails, Enter, TypeOK
  <2> QED BY <2>2, <2>3
<1>8. ASSUME NEW p \in Procs, Clear(p)
      PROVE  GoneFactsAreOwned'
  <2> SUFFICES ASSUME NEW d \in Docs, cached'[d] # None, life[cached'[d]] = "gone"
               PROVE  \E q \in Procs : Answers(q, d, cached[d])'
    BY <1>8 DEF GoneFactsAreOwned, Clear, upstream
  <2>1. cached'[d] = cached[d] /\ request[p] \in Docs \ {d}
    BY <1>8 DEF Clear, Cleared, TypeOK
  <2>2. PICK q \in Procs : Answers(q, d, cached[d])
    BY <2>1 DEF GoneFactsAreOwned
  <2>3. q \in Procs \ {p}
    BY <2>1, <2>2 DEF Answers
  <2>4. Untouched(q)
    BY <1>8, <2>3, OthersUntouched DEF Advance, Rebuild
  <2> QED BY <2>1, <2>2, <2>4 DEF Answers, Untouched
<1>9. ASSUME NEW p \in Procs,
             TakeSources(p) \/ NotSelected(p) \/ Materialize(p) \/ MaterializeFails(p)
             \/ Check(p)
      PROVE  GoneFactsAreOwned'
  <2>1. Advance(p)
    BY <1>9 DEF Advance, Rebuild
  <2>2. pc[p] \in {"sources", "materialize", "check"}
    BY <1>9 DEF TakeSources, NotSelected, Materialize, MaterializeFails, Check, PassEnds
  <2>3. UNCHANGED <<life, cached>>
    BY <1>9 DEF TakeSources, NotSelected, Materialize, MaterializeFails, Check, Fail, upstream
  <2> QED BY <2>1, <2>2, <2>3, NothingToAnswer
<1>10. ASSUME NEW p \in Procs, CheckFails(p) \/ Read(p)
       PROVE  GoneFactsAreOwned'
  <2>1. Advance(p)
    BY <1>10 DEF Advance, Rebuild
  <2>2. pc[p] \in {"check", "look", "generations", "query", "confirm", "served"}
    BY <1>10 DEF Read, Look, ReadGenerations, MissingOrStale, Query, Confirm, ConfirmFails,
                 Return, CheckFails, PassEnds
  <2>3. UNCHANGED <<life, cached>>
    BY <1>10 DEF Read, Look, ReadGenerations, MissingOrStale, Query, Confirm, ConfirmFails,
                 Return, CheckFails, Fail, upstream
  <2> QED BY <2>1, <2>2, <2>3, NothingToAnswer
<1> QED BY <1>1, <1>2, <1>3, <1>4, <1>5, <1>6, <1>7, <1>8, <1>9, <1>10
        DEF Next, Advance, Rebuild

\* Whatever rebuilds do and in whatever order annotations are withdrawn, facts of
\* withdrawn annotations are only left by a rebuild that is still at work or died.
THEOREM GoneFactsAlwaysOwned == Spec => []GoneFactsAreOwned
<1>1. Init => OwnedInv
  <2> SUFFICES ASSUME Init PROVE OwnedInv
    OBVIOUS
  <2>1. RebuildsAreAsked /\ GoneFactsAreOwned
    BY DEF Init, RebuildsAreAsked, GoneFactsAreOwned
  <2> QED BY <2>1, InitTypes DEF OwnedInv
<1>2. OwnedInv /\ [Next]_vars => OwnedInv'
  BY TypeStep, AskedStep, OwnedStep DEF OwnedInv
<1>3. OwnedInv => GoneFactsAreOwned
  BY DEF OwnedInv
<1> QED BY <1>1, <1>2, <1>3, PTL DEF Spec
=============================================================================
