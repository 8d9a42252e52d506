----------------------- MODULE CanonicalVersions_proofs -----------------------
(***************************************************************************)
(* The invariant of the canonical versions and what follows from it: that   *)
(* they implement VersionHistory, over artifacts that live as ArtifactMap   *)
(* says.                                                                    *)
(***************************************************************************)
EXTENDS CanonicalVersions, TLAPS

\* Every step keeps the types.
LEMMA TypeStep ==
    TypeOK /\ (\A a \in Actors : ActorInv(a)) /\ (\A k \in Readers : ReaderInv(k))
    /\ [Next]_vars => TypeOK'
<1> SUFFICES ASSUME TypeOK, \A a \in Actors : ActorInv(a),
                \A k \in Readers : ReaderInv(k), [Next]_vars
         PROVE TypeOK'
  OBVIOUS
<1> USE ModesAreKnown
<1> USE DEF TypeOK, Lives, Linked, Parts, graphVars, actorVars, readerVars
<1>0. ASSUME NEW a \in Actors,
             pc[a] \in {"storing", "stored", "aborting", "sealing", "selected", "activating"}
      PROVE target[a] \in Versions
  BY <1>0 DEF ActorInv
<1>1. ASSUME NEW a \in Actors,
             SeeBase(a)
      PROVE TypeOK'
  BY <1>0, <1>1 DEF SeeBase
<1>2. ASSUME NEW a \in Actors, NEW r \in Runs \cup Versions, NEW how \in Modes,
             Reserve(a, r, how)
      PROVE TypeOK'
  <2>1. PICK v \in Versions :
              /\ status' = [status EXCEPT ![v] = "CANDIDATE"]
              /\ owner'  = [owner EXCEPT ![v] = r]
              /\ target' = [target EXCEPT ![a] = v]
    BY <1>2 DEF Reserve
  <2>2. /\ status' \in [Versions -> {"none", "CANDIDATE", "PURGED"} \cup Linked]
        /\ owner' \in [Versions -> Runs \cup Versions \cup {Nothing}]
        /\ target' \in [Actors -> Versions \cup {Nothing}]
    BY <2>1
  <2>3. QED
    BY <1>2, <2>2 DEF Reserve
<1>3. ASSUME NEW a \in Actors, NEW r \in Runs \cup Versions, NEW how \in Modes,
             Resume(a, r, how)
      PROVE TypeOK'
  <2>1. CASE Done(a)
    BY <1>3, <2>1 DEF Resume, Done
  <2>2. CASE \E v \in Versions :
                /\ pc'     = [pc EXCEPT ![a] = "storing"]
                /\ mode'   = [mode EXCEPT ![a] = how]
                /\ target' = [target EXCEPT ![a] = v]
                /\ UNCHANGED <<op, expected, written>>
    <3>1. target' \in [Actors -> Versions \cup {Nothing}]
      BY <2>2
    <3>2. mode' \in [Actors -> {"batch", "stream"}]
      BY <2>2
    <3>3. pc' \in [Actors -> {"idle", "deriving", "storing", "stored", "aborting",
                              "sealing", "selected", "activating"}]
      BY <2>2
    <3>4. UNCHANGED <<source, graphVars, op, expected, written, readerVars>>
      BY <1>3, <2>2 DEF Resume
    <3>5. QED
      BY <3>1, <3>2, <3>3, <3>4
  <2>3. QED
    BY <1>3, <2>1, <2>2 DEF Resume
<1>4. ASSUME NEW a \in Actors,
             StoreGraph(a)
      PROVE TypeOK'
  <2>1. life' \in [Versions -> [Parts -> Lives]]
    <3>1. CASE UNCHANGED life
      BY <3>1
    <3>2. CASE life' = [life EXCEPT ![target[a]] = [p \in Parts |-> "ready"]]
      <4>1. [p \in Parts |-> "ready"] \in [Parts -> Lives]
        OBVIOUS
      <4>2. QED
        BY <1>0, <3>2, <4>1
    <3>3. QED
      BY <1>4, <3>1, <3>2 DEF StoreGraph
  <2>2. pc' \in [Actors -> {"idle", "deriving", "storing", "stored", "aborting",
                               "sealing", "selected", "activating"}]
    BY <1>0, <1>4 DEF StoreGraph
  <2>3. QED
    BY <1>4, <2>1, <2>2 DEF StoreGraph
<1>5. ASSUME NEW a \in Actors, NEW p \in Parts,
             StorePart(a, p)
      PROVE TypeOK'
  <2>1. life' \in [Versions -> [Parts -> Lives]]
    BY <1>0, <1>5 DEF StorePart
  <2>2. written' \in [Actors -> SUBSET Parts]
    BY <1>0, <1>5 DEF StorePart
  <2>3. pc' \in [Actors -> {"idle", "deriving", "storing", "stored", "aborting",
                               "sealing", "selected", "activating"}]
    BY <1>0, <1>5 DEF StorePart
  <2>4. QED
    BY <1>5, <2>1, <2>2, <2>3 DEF StorePart
<1>6. ASSUME NEW a \in Actors,
             Finalize(a)
      PROVE TypeOK'
  <2>1. bound' \in [Versions -> SUBSET Parts]
    <3>1. CASE UNCHANGED bound
      BY <3>1
    <3>2. CASE bound' = [bound EXCEPT ![target[a]] = Parts]
      BY <1>0, <3>2
    <3>3. QED
      BY <1>6, <3>1, <3>2 DEF Finalize
  <2>2. status' \in [Versions -> {"none", "CANDIDATE", "PURGED"} \cup Linked]
    <3>1. CASE UNCHANGED status
      BY <3>1
    <3>2. CASE status' = [status EXCEPT ![target[a]] = "VALIDATED"]
      BY <1>0, <3>2
    <3>3. QED
      BY <1>6, <3>1, <3>2 DEF Finalize
  <2>3. pc' \in [Actors -> {"idle", "deriving", "storing", "stored", "aborting",
                               "sealing", "selected", "activating"}]
    BY <1>0, <1>6 DEF Finalize, AfterFinalize, Done
  <2>4. mode' \in [Actors -> {"batch", "stream"}]
    BY <1>0, <1>6 DEF Finalize, AfterFinalize, Done
  <2>5. op' \in [Actors -> {"ACTIVATE", "ROLLBACK"}]
    BY <1>0, <1>6 DEF Finalize, AfterFinalize, Done
  <2>6. target' \in [Actors -> Versions \cup {Nothing}]
    BY <1>0, <1>6 DEF Finalize, AfterFinalize, Done
  <2>7. expected' \in [Actors -> Versions \cup {Nothing}]
    BY <1>0, <1>6 DEF Finalize, AfterFinalize, Done
  <2>8. written' \in [Actors -> SUBSET Parts]
    BY <1>0, <1>6 DEF Finalize, AfterFinalize, Done
  <2>9. QED
    BY <1>6, <2>1, <2>2, <2>3, <2>4, <2>5, <2>6, <2>7, <2>8 DEF Finalize, AfterFinalize, Done
<1>7. ASSUME NEW a \in Actors,
             PublishFails(a)
      PROVE TypeOK'
  <2>1. CASE Done(a)
    BY <1>7, <2>1 DEF PublishFails, Done
  <2>2. CASE pc' = [pc EXCEPT ![a] = "aborting"] /\ UNCHANGED <<mode, op, target, expected, written>>
    BY <1>7, <2>2 DEF PublishFails
  <2>3. QED
    BY <1>7, <2>1, <2>2 DEF PublishFails
<1>8. ASSUME NEW a \in Actors,
             AbortMark(a)
      PROVE TypeOK'
  <2>1. life' \in [Versions -> [Parts -> Lives]]
    <3>1. CASE UNCHANGED life
      BY <3>1
    <3>2. CASE life' = [life EXCEPT ![target[a]] = [p \in Parts |->
                   IF p \in written[a] THEN "marked" ELSE life[target[a]][p]]]
      <4>1. target[a] \in Versions
        BY <1>0, <1>8 DEF AbortMark
      <4>2. [p \in Parts |-> IF p \in written[a] THEN "marked" ELSE life[target[a]][p]]
               \in [Parts -> Lives]
        BY <4>1
      <4>3. QED
        BY <3>2, <4>2
    <3>3. QED
      BY <1>8, <3>1, <3>2 DEF AbortMark
  <2>2. pc' \in [Actors -> {"idle", "deriving", "storing", "stored", "aborting",
                               "sealing", "selected", "activating"}]
    BY <1>0, <1>8 DEF AbortMark, Done
  <2>3. mode' \in [Actors -> {"batch", "stream"}]
    BY <1>0, <1>8 DEF AbortMark, Done
  <2>4. op' \in [Actors -> {"ACTIVATE", "ROLLBACK"}]
    BY <1>0, <1>8 DEF AbortMark, Done
  <2>5. target' \in [Actors -> Versions \cup {Nothing}]
    BY <1>0, <1>8 DEF AbortMark, Done
  <2>6. expected' \in [Actors -> Versions \cup {Nothing}]
    BY <1>0, <1>8 DEF AbortMark, Done
  <2>7. written' \in [Actors -> SUBSET Parts]
    BY <1>0, <1>8 DEF AbortMark, Done
  <2>8. QED
    BY <1>8, <2>1, <2>2, <2>3, <2>4, <2>5, <2>6, <2>7 DEF AbortMark, Done
<1>9. ASSUME NEW a \in Actors,
             AbortSeal(a)
      PROVE TypeOK'
  BY <1>0, <1>9, SMTT(20) DEF AbortSeal, Done
<1>10. ASSUME NEW a \in Actors,
             Crash(a)
      PROVE TypeOK'
  BY <1>0, <1>10 DEF Crash, Done
<1>11. ASSUME NEW a \in Actors, NEW v \in Versions,
             Select(a, v)
      PROVE TypeOK'
  BY <1>0, <1>11 DEF Select
<1>12. ASSUME NEW a \in Actors,
             SeePrevious(a)
      PROVE TypeOK'
  BY <1>0, <1>12 DEF SeePrevious
<1>13. ASSUME NEW a \in Actors, NEW v \in Versions,
             AskRollback(a, v)
      PROVE TypeOK'
  BY <1>0, <1>13 DEF AskRollback
<1>14. ASSUME NEW a \in Actors,
             Activate(a)
      PROVE TypeOK'
  <2>1. status' \in [Versions -> {"none", "CANDIDATE", "PURGED"} \cup Linked]
    BY <1>0, <1>14 DEF Activate, Done
  <2>2. pointer' \in Versions \cup {Nothing}
    BY <1>0, <1>14 DEF Activate, Done
  <2>3. QED
    BY <1>14, <2>1, <2>2 DEF Activate, Done
<1>15. ASSUME NEW v \in Versions, NEW S \in SUBSET Parts,
             Expire(v, S)
      PROVE TypeOK'
  BY <1>0, <1>15 DEF Expire
<1>16. ASSUME NEW r \in Runs,
             ExpireSource(r)
      PROVE TypeOK'
  BY <1>0, <1>16 DEF ExpireSource
<1>17. ASSUME NEW R \in SUBSET (Runs \cup Versions),
             Claim(R)
      PROVE TypeOK'
  BY <1>0, <1>17 DEF Claim
<1>18. ASSUME NEW v \in Versions, NEW p \in Parts,
             Seal(v, p)
      PROVE TypeOK'
  BY <1>0, <1>18 DEF Seal
<1>19. ASSUME NEW k \in Readers,
             ReadActive(k)
      PROVE TypeOK'
  BY <1>0, <1>19 DEF ReadActive
<1>20. ASSUME NEW k \in Readers,
             OpenManifest(k)
      PROVE TypeOK'
  <2>1. rpc' \in [Readers -> {"idle", "manifest", "listing", "chunks", "read", "failed"}]
    <3>1. CASE rpc' = [rpc EXCEPT ![k] = "listing"]
      BY <3>1
    <3>2. CASE rpc' = [rpc EXCEPT ![k] = "failed"]
      BY <3>2
    <3>3. QED
      BY <1>20, <3>1, <3>2 DEF OpenManifest
  <2>2. got' \in [Readers -> SUBSET Parts]
    BY <1>0, <1>20 DEF OpenManifest
  <2>3. QED
    BY <1>20, <2>1, <2>2 DEF OpenManifest
<1>21. ASSUME NEW k \in Readers,
             ListChunks(k)
      PROVE TypeOK'
  <2>1. rpc' \in [Readers -> {"idle", "manifest", "listing", "chunks", "read", "failed"}]
    BY <1>0, <1>21, SMTT(20) DEF ListChunks
  <2>2. listed' \in [Readers -> SUBSET Chunks]
    <3>1. CASE UNCHANGED listed
      BY <3>1
    <3>2. CASE listed' = [listed EXCEPT ![k] = bound[reading[k]] \ {Manifest}]
      <4>1. reading[k] \in Versions
        BY <1>21 DEF ListChunks, ReaderInv
      <4>2. QED
        BY <3>2, <4>1
    <3>3. QED
      BY <1>21, <3>1, <3>2 DEF ListChunks
  <2>3. QED
    BY <1>21, <2>1, <2>2 DEF ListChunks
<1>22. ASSUME NEW k \in Readers, NEW p \in Chunks,
             ReadChunk(k, p)
      PROVE TypeOK'
  <2>1. rpc' \in [Readers -> {"idle", "manifest", "listing", "chunks", "read", "failed"}]
    BY <1>0, <1>22 DEF ReadChunk
  <2>2. got' \in [Readers -> SUBSET Parts]
    BY <1>0, <1>22 DEF ReadChunk
  <2>3. QED
    BY <1>22, <2>1, <2>2 DEF ReadChunk
<1>23. ASSUME NEW k \in Readers,
             Validated(k)
      PROVE TypeOK'
  BY <1>0, <1>23 DEF Validated
<1>24. ASSUME NEW a \in Actors, ActorStep(a)
      PROVE TypeOK'
  BY <1>24, <1>1, <1>2, <1>3, <1>4, <1>5, <1>6, <1>7, <1>8, <1>9, <1>10, <1>11,
     <1>12, <1>13, <1>14 DEF ActorStep
<1>25. ASSUME RetentionStep
      PROVE TypeOK'
  <2>1. \A R \in {Runs \cup Versions} \cup {{r} : r \in Runs \cup Versions} :
           R \in SUBSET (Runs \cup Versions)
    OBVIOUS
  <2>2. CASE \E v \in Versions, S \in SUBSET Parts : Expire(v, S)
    BY <1>15, <2>2
  <2>3. CASE \E r \in Runs : ExpireSource(r)
    BY <1>16, <2>3
  <2>4. CASE \E R \in {Runs \cup Versions} \cup {{r} : r \in Runs \cup Versions} : Claim(R)
    BY <1>17, <2>1, <2>4
  <2>5. CASE \E v \in Versions, p \in Parts : Seal(v, p)
    BY <1>18, <2>5
  <2>6. QED
    BY <1>25, <2>2, <2>3, <2>4, <2>5 DEF RetentionStep
<1>26. ASSUME NEW k \in Readers, ReaderStep(k)
      PROVE TypeOK'
  BY <1>26, <1>19, <1>20, <1>21, <1>22, <1>23 DEF ReaderStep
<1>27. CASE UNCHANGED vars
  BY <1>27 DEF vars
<1>28. QED
  BY <1>24, <1>25, <1>26, <1>27 DEF Next

\* The end of an abort takes only what is not linked.
LEMMA SealedGraph ==
    ASSUME TypeOK, NEW a \in Actors, AbortSeal(a), ActorInv(a),
           NEW u \in Versions, GraphInv(u), LostTogether(u)
    PROVE  GraphInv(u)' /\ LostTogether(u)'
<1>1. \A p \in Parts : life'[u][p] =
         IF u = target[a] /\ p \in written[a] /\ life[u][p] \in {"marked", "pending"}
         THEN "purged" ELSE life[u][p]
  BY DEF AbortSeal, TypeOK
<1>2. status'[u] = IF u = target[a] /\ status[u] = "CANDIDATE" THEN "PURGED" ELSE status[u]
  BY DEF AbortSeal, TypeOK
<1>3. owner'[u] = owner[u] /\ bound'[u] = bound[u]
  BY DEF AbortSeal
<1>4. CASE status[u] \in Linked
  <2>1. status'[u] = status[u]
    BY <1>2, <1>4 DEF Linked
  <2>2. u = target[a] => written[a] = {}
    BY <1>4 DEF AbortSeal, ActorInv
  <2>3. \A p \in Parts : life'[u][p] = life[u][p]
    BY <1>1, <2>2
  <2>4. QED
    BY <1>3, <2>1, <2>3 DEF GraphInv, LostTogether
<1>5. CASE status[u] \notin Linked
  <2>1. status'[u] \notin Linked
    BY <1>2, <1>5 DEF Linked
  <2>2. status[u] = "none" => u # target[a]
    BY DEF AbortSeal, ActorInv
  <2>3. status'[u] = "none" <=> status[u] = "none"
    BY <1>2
  <2>4. status[u] = "none" => \A p \in Parts : life'[u][p] = life[u][p]
    BY <1>1, <2>2
  <2>5. QED
    BY <1>3, <1>5, <2>1, <2>3, <2>4 DEF GraphInv, LostTogether
<1>6. QED
  BY <1>4, <1>5

\* A reader is left alone by what neither restores a part nor unlinks its version.
LEMMA ReaderKept ==
    ASSUME TypeOK, NEW k \in Readers, ReaderInv(k), UNCHANGED readerVars,
           NEW v \in Versions,
           \A u \in Versions : status[u] \in Linked => status'[u] = status[u],
           \A u \in Versions : u # v => life'[u] = life[u],
           \A p \in Parts : life[v][p] # "absent" =>
              life'[v][p] = life[v][p] \/ life'[v][p] \notin {"absent", "ready"}
    PROVE  ReaderInv(k)'
<1>1. ASSUME NEW u \in Versions, \A p \in Parts : life[u][p] # "absent"
      PROVE  /\ \A p \in Parts : life'[u][p] # "absent"
             /\ Lost(u) => Lost(u)'
  BY <1>1 DEF Lost
<1>2. rpc[k] # "idle" => reading[k] \in Versions
  BY DEF ReaderInv, TypeOK
<1>3. UNCHANGED <<rpc, reading, listed, got>>
  BY DEF readerVars
<1>4. QED
  BY <1>1, <1>2, <1>3 DEF ReaderInv

\* Every step keeps the invariant.
LEMMA VersionsStep == VersionsInv /\ [Next]_vars => VersionsInv'
<1> SUFFICES ASSUME VersionsInv, [Next]_vars PROVE VersionsInv'
  OBVIOUS
<1>0. TypeOK /\ TypeOK'
  BY TypeStep DEF VersionsInv
<1>a. ASSUME NEW a \in Actors, AbortSeal(a), NEW u \in Versions
      PROVE GraphInv(u)' /\ LostTogether(u)'
  BY <1>0, <1>a, SealedGraph DEF VersionsInv
<1>b. ASSUME NEW a \in Actors, StoreGraph(a), NEW j \in Readers
      PROVE ReaderInv(j)'
  <2>1. target[a] \in Versions
    BY <1>b DEF VersionsInv, ActorInv, StoreGraph, TypeOK
  <2>2. /\ \A u \in Versions : u # target[a] => life'[u] = life[u]
        /\ \A p \in Parts : life[target[a]][p] # "absent" =>
                               life'[target[a]][p] = life[target[a]][p]
    BY <1>0, <1>b, <2>1 DEF StoreGraph, TypeOK
  <2>3. QED
    BY <1>0, <1>b, <2>1, <2>2, ReaderKept DEF VersionsInv, StoreGraph
<1>c. ASSUME NEW a \in Actors, AbortSeal(a), NEW j \in Readers
      PROVE ReaderInv(j)'
  <2>1. target[a] \in Versions
    BY <1>c DEF VersionsInv, ActorInv, AbortSeal, TypeOK
  <2>2. /\ \A u \in Versions : u # target[a] => life'[u] = life[u]
        /\ \A p \in Parts : \/ life'[target[a]][p] = life[target[a]][p]
                            \/ life'[target[a]][p] = "purged"
    BY <1>0, <1>c, <2>1 DEF AbortSeal, TypeOK
  <2>3. \A u \in Versions : status[u] \in Linked => status'[u] = status[u]
    BY <1>0, <1>c, <2>1 DEF AbortSeal, TypeOK, Linked
  <2>4. QED
    BY <1>0, <1>c, <2>1, <2>2, <2>3, ReaderKept DEF VersionsInv, AbortSeal
<1> USE <1>0, ModesAreKnown, NothingIsNoVersion, RunsAreNoVersions, ManifestIsNoChunk
<1> USE DEF VersionsInv, TypeOK, PointerIsActive, GraphInv, LostTogether, ActorInv,
            ReaderInv, Lost, Linked, Parts, graphVars, actorVars, readerVars
<1>1. ASSUME NEW a \in Actors,
             SeeBase(a)
      PROVE VersionsInv'
  <2> USE <1>1 DEF SeeBase
  <2>1. PointerIsActive'
    OBVIOUS
  <2>2. ASSUME NEW u \in Versions PROVE GraphInv(u)' /\ LostTogether(u)'
    OBVIOUS
  <2>3. ASSUME NEW b \in Actors PROVE ActorInv(b)'
    OBVIOUS
  <2>4. ASSUME NEW j \in Readers PROVE ReaderInv(j)'
    OBVIOUS
  <2>5. QED
    BY <2>1, <2>2, <2>3, <2>4
<1>2. ASSUME NEW a \in Actors, NEW r \in Runs \cup Versions, NEW how \in Modes,
             Reserve(a, r, how)
      PROVE VersionsInv'
  <2>1. PICK v \in Versions :
              /\ \A u \in Versions : status[u] = "none" <=> u >= v
              /\ status' = [status EXCEPT ![v] = "CANDIDATE"]
              /\ owner'  = [owner EXCEPT ![v] = r]
              /\ target' = [target EXCEPT ![a] = v]
    BY <1>2 DEF Reserve
  <2>2. status[v] = "none"
    <3>1. v \in Int
      BY MaxVersionsIsNat DEF Versions
    <3>2. QED
      BY <2>1, <3>1
  <2>3. /\ pc'   = [pc EXCEPT ![a] = "storing"]
        /\ mode' = [mode EXCEPT ![a] = how]
        /\ UNCHANGED <<source, life, bound, pointer, op, expected, written, readerVars>>
        /\ \/ pc[a] = "idle" /\ r \in Runs
           \/ pc[a] = "deriving" /\ r = expected[a]
    BY <1>2 DEF Reserve, MayReserve
  <2>4. PointerIsActive'
    BY <2>1, <2>2, <2>3
  <2>5. ASSUME NEW u \in Versions PROVE GraphInv(u)' /\ LostTogether(u)'
    BY <2>1, <2>2, <2>3
  <2>6. ASSUME NEW b \in Actors PROVE ActorInv(b)'
    <3>1. CASE b = a
      <4>1. /\ pc'[a] = "storing" /\ target'[a] = v /\ status'[v] = "CANDIDATE"
            /\ owner'[v] = r /\ expected'[a] = expected[a]
        BY <2>1, <2>3
      <4>2. pc[a] = "idle" => expected[a] = Nothing
        OBVIOUS
      <4>3. QED
        BY <2>3, <3>1, <4>1, <4>2
    <3>2. CASE b # a
      <4>1. /\ pc'[b] = pc[b] /\ target'[b] = target[b] /\ expected'[b] = expected[b]
            /\ written'[b] = written[b] /\ op'[b] = op[b]
        BY <2>1, <2>3, <3>2
      <4>2. CASE target[b] = v
        BY <2>1, <2>2, <2>3, <4>1, <4>2
      <4>3. CASE target[b] # v
        BY <2>1, <2>3, <4>1, <4>3
      <4>4. QED
        BY <4>2, <4>3
    <3>3. QED
      BY <3>1, <3>2
  <2>7. ASSUME NEW j \in Readers PROVE ReaderInv(j)'
    BY <2>1, <2>2, <2>3
  <2>8. QED
    BY <2>4, <2>5, <2>6, <2>7
<1>3. ASSUME NEW a \in Actors, NEW r \in Runs \cup Versions, NEW how \in Modes,
             Resume(a, r, how)
      PROVE VersionsInv'
  <2> USE <1>3 DEF Resume, MayReserve, Done
  <2>1. PointerIsActive'
    OBVIOUS
  <2>2. ASSUME NEW u \in Versions PROVE GraphInv(u)' /\ LostTogether(u)'
    OBVIOUS
  <2>3. ASSUME NEW b \in Actors PROVE ActorInv(b)'
    BY SMTT(20)
  <2>4. ASSUME NEW j \in Readers PROVE ReaderInv(j)'
    OBVIOUS
  <2>5. QED
    BY <2>1, <2>2, <2>3, <2>4
<1>4. ASSUME NEW a \in Actors,
             StoreGraph(a)
      PROVE VersionsInv'
  <2> USE <1>4 DEF StoreGraph
  <2>1. PointerIsActive'
    OBVIOUS
  <2>2. ASSUME NEW u \in Versions PROVE GraphInv(u)' /\ LostTogether(u)'
    OBVIOUS
  <2>3. ASSUME NEW b \in Actors PROVE ActorInv(b)'
    OBVIOUS
  <2>4. ASSUME NEW j \in Readers PROVE ReaderInv(j)'
    BY <1>b
  <2>5. QED
    BY <2>1, <2>2, <2>3, <2>4
<1>5. ASSUME NEW a \in Actors, NEW p \in Parts,
             StorePart(a, p)
      PROVE VersionsInv'
  <2> USE <1>5 DEF StorePart
  <2>1. PointerIsActive'
    OBVIOUS
  <2>2. ASSUME NEW u \in Versions PROVE GraphInv(u)' /\ LostTogether(u)'
    OBVIOUS
  <2>3. ASSUME NEW b \in Actors PROVE ActorInv(b)'
    OBVIOUS
  <2>4. ASSUME NEW j \in Readers PROVE ReaderInv(j)'
    OBVIOUS
  <2>5. QED
    BY <2>1, <2>2, <2>3, <2>4
<1>6. ASSUME NEW a \in Actors,
             Finalize(a)
      PROVE VersionsInv'
  <2> USE <1>6 DEF Finalize, AfterFinalize, Done
  <2>1. PointerIsActive'
    OBVIOUS
  <2>2. ASSUME NEW u \in Versions PROVE GraphInv(u)' /\ LostTogether(u)'
    OBVIOUS
  <2>3. ASSUME NEW b \in Actors PROVE ActorInv(b)'
    <3>1. /\ target[a] \in Versions
          /\ \A u \in Versions \ {target[a]} : status'[u] = status[u]
          /\ status'[target[a]] = "VALIDATED"
          /\ UNCHANGED <<life, owner>>
      OBVIOUS
    <3>2. CASE b = a
      <4>1. CASE expected[a] = Nothing
        BY <3>1, <3>2, <4>1
      <4>2. CASE expected[a] # Nothing
        BY <3>1, <3>2, <4>2
      <4>3. QED
        BY <4>1, <4>2
    <3>3. CASE b # a
      <4>1. /\ pc'[b] = pc[b] /\ target'[b] = target[b] /\ expected'[b] = expected[b]
            /\ written'[b] = written[b] /\ op'[b] = op[b]
        BY <3>3
      <4>2. CASE target[b] = target[a]
        <5>1. pc[b] = "sealing" /\ written[b] # {} => FALSE
          BY <4>2
        <5>2. status[target[b]] # "none" /\ status'[target[b]] # "none"
          BY <3>1, <4>2
        <5>3. QED
          BY <3>1, <4>1, <4>2, <5>1, <5>2
      <4>3. CASE target[b] # target[a]
        BY <3>1, <4>1, <4>3
      <4>4. QED
        BY <4>2, <4>3
    <3>4. QED
      BY <3>2, <3>3
  <2>4. ASSUME NEW j \in Readers PROVE ReaderInv(j)'
    OBVIOUS
  <2>5. QED
    BY <2>1, <2>2, <2>3, <2>4
<1>7. ASSUME NEW a \in Actors,
             PublishFails(a)
      PROVE VersionsInv'
  <2> USE <1>7 DEF PublishFails, Done
  <2>1. PointerIsActive'
    OBVIOUS
  <2>2. ASSUME NEW u \in Versions PROVE GraphInv(u)' /\ LostTogether(u)'
    OBVIOUS
  <2>3. ASSUME NEW b \in Actors PROVE ActorInv(b)'
    OBVIOUS
  <2>4. ASSUME NEW j \in Readers PROVE ReaderInv(j)'
    OBVIOUS
  <2>5. QED
    BY <2>1, <2>2, <2>3, <2>4
<1>8. ASSUME NEW a \in Actors,
             AbortMark(a)
      PROVE VersionsInv'
  <2> USE <1>8 DEF AbortMark, Done
  <2>1. PointerIsActive'
    OBVIOUS
  <2>2. ASSUME NEW u \in Versions PROVE GraphInv(u)' /\ LostTogether(u)'
    OBVIOUS
  <2>3. ASSUME NEW b \in Actors PROVE ActorInv(b)'
    OBVIOUS
  <2>4. ASSUME NEW j \in Readers PROVE ReaderInv(j)'
    OBVIOUS
  <2>5. QED
    BY <2>1, <2>2, <2>3, <2>4
<1>9. ASSUME NEW a \in Actors,
             AbortSeal(a)
      PROVE VersionsInv'
  <2> USE <1>9 DEF AbortSeal, Done
  <2>1. PointerIsActive'
    OBVIOUS
  <2>2. ASSUME NEW u \in Versions PROVE GraphInv(u)' /\ LostTogether(u)'
    <3> HIDE DEF VersionsInv, TypeOK, GraphInv, LostTogether, AbortSeal, Done
    <3>1. QED
      BY <1>9, <1>a
  <2>3. ASSUME NEW b \in Actors PROVE ActorInv(b)'
    OBVIOUS
  <2>4. ASSUME NEW j \in Readers PROVE ReaderInv(j)'
    BY <1>c
  <2>5. QED
    BY <2>1, <2>2, <2>3, <2>4
<1>10. ASSUME NEW a \in Actors,
             Crash(a)
      PROVE VersionsInv'
  <2> USE <1>10 DEF Crash, Done
  <2>1. PointerIsActive'
    OBVIOUS
  <2>2. ASSUME NEW u \in Versions PROVE GraphInv(u)' /\ LostTogether(u)'
    OBVIOUS
  <2>3. ASSUME NEW b \in Actors PROVE ActorInv(b)'
    OBVIOUS
  <2>4. ASSUME NEW j \in Readers PROVE ReaderInv(j)'
    OBVIOUS
  <2>5. QED
    BY <2>1, <2>2, <2>3, <2>4
<1>11. ASSUME NEW a \in Actors, NEW v \in Versions,
             Select(a, v)
      PROVE VersionsInv'
  <2> USE <1>11 DEF Select
  <2>1. PointerIsActive'
    OBVIOUS
  <2>2. ASSUME NEW u \in Versions PROVE GraphInv(u)' /\ LostTogether(u)'
    OBVIOUS
  <2>3. ASSUME NEW b \in Actors PROVE ActorInv(b)'
    OBVIOUS
  <2>4. ASSUME NEW j \in Readers PROVE ReaderInv(j)'
    OBVIOUS
  <2>5. QED
    BY <2>1, <2>2, <2>3, <2>4
<1>12. ASSUME NEW a \in Actors,
             SeePrevious(a)
      PROVE VersionsInv'
  <2> USE <1>12 DEF SeePrevious
  <2>1. PointerIsActive'
    OBVIOUS
  <2>2. ASSUME NEW u \in Versions PROVE GraphInv(u)' /\ LostTogether(u)'
    OBVIOUS
  <2>3. ASSUME NEW b \in Actors PROVE ActorInv(b)'
    OBVIOUS
  <2>4. ASSUME NEW j \in Readers PROVE ReaderInv(j)'
    OBVIOUS
  <2>5. QED
    BY <2>1, <2>2, <2>3, <2>4
<1>13. ASSUME NEW a \in Actors, NEW v \in Versions,
             AskRollback(a, v)
      PROVE VersionsInv'
  <2> USE <1>13 DEF AskRollback
  <2>1. PointerIsActive'
    OBVIOUS
  <2>2. ASSUME NEW u \in Versions PROVE GraphInv(u)' /\ LostTogether(u)'
    OBVIOUS
  <2>3. ASSUME NEW b \in Actors PROVE ActorInv(b)'
    OBVIOUS
  <2>4. ASSUME NEW j \in Readers PROVE ReaderInv(j)'
    OBVIOUS
  <2>5. QED
    BY <2>1, <2>2, <2>3, <2>4
<1>14. ASSUME NEW a \in Actors,
             Activate(a)
      PROVE VersionsInv'
  <2> USE <1>14 DEF Activate, Done
  <2>1. PointerIsActive'
    OBVIOUS
  <2>2. ASSUME NEW u \in Versions PROVE GraphInv(u)' /\ LostTogether(u)'
    OBVIOUS
  <2>3. ASSUME NEW b \in Actors PROVE ActorInv(b)'
    OBVIOUS
  <2>4. ASSUME NEW j \in Readers PROVE ReaderInv(j)'
    OBVIOUS
  <2>5. QED
    BY <2>1, <2>2, <2>3, <2>4
<1>15. ASSUME NEW v \in Versions, NEW S \in SUBSET Parts,
             Expire(v, S)
      PROVE VersionsInv'
  <2> USE <1>15 DEF Expire
  <2>1. PointerIsActive'
    OBVIOUS
  <2>2. ASSUME NEW u \in Versions PROVE GraphInv(u)' /\ LostTogether(u)'
    OBVIOUS
  <2>3. ASSUME NEW b \in Actors PROVE ActorInv(b)'
    OBVIOUS
  <2>4. ASSUME NEW j \in Readers PROVE ReaderInv(j)'
    OBVIOUS
  <2>5. QED
    BY <2>1, <2>2, <2>3, <2>4
<1>16. ASSUME NEW r \in Runs,
             ExpireSource(r)
      PROVE VersionsInv'
  <2> USE <1>16 DEF ExpireSource
  <2>1. PointerIsActive'
    OBVIOUS
  <2>2. ASSUME NEW u \in Versions PROVE GraphInv(u)' /\ LostTogether(u)'
    OBVIOUS
  <2>3. ASSUME NEW b \in Actors PROVE ActorInv(b)'
    OBVIOUS
  <2>4. ASSUME NEW j \in Readers PROVE ReaderInv(j)'
    OBVIOUS
  <2>5. QED
    BY <2>1, <2>2, <2>3, <2>4
<1>17. ASSUME NEW R \in SUBSET (Runs \cup Versions),
             Claim(R)
      PROVE VersionsInv'
  <2> USE <1>17 DEF Claim
  <2>1. PointerIsActive'
    OBVIOUS
  <2>2. ASSUME NEW u \in Versions PROVE GraphInv(u)' /\ LostTogether(u)'
    <3>1. /\ UNCHANGED <<status, owner, bound, pointer>>
          /\ \A p \in Parts : life'[u][p] =
                IF owner[u] \in R /\ life[u][p] \in {"ready", "expired", "marked"}
                THEN "pending" ELSE life[u][p]
      OBVIOUS
    <3>2. CASE owner[u] \in R
      <4>1. owner[u] # Nothing /\ status[u] # "none"
        BY <3>2
      <4>2. status[u] \in Linked => \A p \in Parts : life'[u][p] \in {"pending", "purged"}
        BY <3>1, <3>2 DEF Lives
      <4>3. GraphInv(u)'
        BY <3>1, <4>1
      <4>4. QED
        BY <3>1, <4>2, <4>3
    <3>3. CASE owner[u] \notin R
      BY <3>1, <3>3
    <3>4. QED
      BY <3>2, <3>3
  <2>3. ASSUME NEW b \in Actors PROVE ActorInv(b)'
    OBVIOUS
  <2>4. ASSUME NEW j \in Readers PROVE ReaderInv(j)'
    OBVIOUS
  <2>5. QED
    BY <2>1, <2>2, <2>3, <2>4
<1>18. ASSUME NEW v \in Versions, NEW p \in Parts,
             Seal(v, p)
      PROVE VersionsInv'
  <2> USE <1>18 DEF Seal
  <2>1. PointerIsActive'
    OBVIOUS
  <2>2. ASSUME NEW u \in Versions PROVE GraphInv(u)' /\ LostTogether(u)'
    OBVIOUS
  <2>3. ASSUME NEW b \in Actors PROVE ActorInv(b)'
    OBVIOUS
  <2>4. ASSUME NEW j \in Readers PROVE ReaderInv(j)'
    OBVIOUS
  <2>5. QED
    BY <2>1, <2>2, <2>3, <2>4
<1>19. ASSUME NEW k \in Readers,
             ReadActive(k)
      PROVE VersionsInv'
  <2> USE <1>19 DEF ReadActive
  <2>1. PointerIsActive'
    OBVIOUS
  <2>2. ASSUME NEW u \in Versions PROVE GraphInv(u)' /\ LostTogether(u)'
    OBVIOUS
  <2>3. ASSUME NEW b \in Actors PROVE ActorInv(b)'
    OBVIOUS
  <2>4. ASSUME NEW j \in Readers PROVE ReaderInv(j)'
    OBVIOUS
  <2>5. QED
    BY <2>1, <2>2, <2>3, <2>4
<1>20. ASSUME NEW k \in Readers,
             OpenManifest(k)
      PROVE VersionsInv'
  <2> USE <1>20 DEF OpenManifest, Served
  <2>1. PointerIsActive'
    OBVIOUS
  <2>2. ASSUME NEW u \in Versions PROVE GraphInv(u)' /\ LostTogether(u)'
    OBVIOUS
  <2>3. ASSUME NEW b \in Actors PROVE ActorInv(b)'
    OBVIOUS
  <2>4. ASSUME NEW j \in Readers PROVE ReaderInv(j)'
    OBVIOUS
  <2>5. QED
    BY <2>1, <2>2, <2>3, <2>4
<1>21. ASSUME NEW k \in Readers,
             ListChunks(k)
      PROVE VersionsInv'
  <2> USE <1>21 DEF ListChunks
  <2>1. PointerIsActive'
    OBVIOUS
  <2>2. ASSUME NEW u \in Versions PROVE GraphInv(u)' /\ LostTogether(u)'
    OBVIOUS
  <2>3. ASSUME NEW b \in Actors PROVE ActorInv(b)'
    OBVIOUS
  <2>4. ASSUME NEW j \in Readers PROVE ReaderInv(j)'
    <3>1. CASE j = k /\ status[reading[k]] \in Linked
      <4>1. rpc'[k] = "chunks" /\ listed'[k] = bound[reading[k]] \ {Manifest}
        BY <3>1
      <4>2. CASE bound[reading[k]] = Parts
        BY <3>1, <4>1, <4>2
      <4>3. CASE bound[reading[k]] # Parts
        <5>1. PICK p \in Parts : p \notin bound[reading[k]]
          BY <3>1, <4>3
        <5>2. life[reading[k]][p] = "purged"
          BY <3>1, <5>1
        <5>3. QED
          BY <3>1, <4>1, <5>2
      <4>4. QED
        BY <4>2, <4>3
    <3>2. CASE j = k /\ status[reading[k]] \notin Linked
      BY <3>2
    <3>3. CASE j # k
      BY <3>3
    <3>4. QED
      BY <3>1, <3>2, <3>3
  <2>5. QED
    BY <2>1, <2>2, <2>3, <2>4
<1>22. ASSUME NEW k \in Readers, NEW p \in Chunks,
             ReadChunk(k, p)
      PROVE VersionsInv'
  <2> USE <1>22 DEF ReadChunk, Served
  <2>1. PointerIsActive'
    OBVIOUS
  <2>2. ASSUME NEW u \in Versions PROVE GraphInv(u)' /\ LostTogether(u)'
    OBVIOUS
  <2>3. ASSUME NEW b \in Actors PROVE ActorInv(b)'
    OBVIOUS
  <2>4. ASSUME NEW j \in Readers PROVE ReaderInv(j)'
    <3>1. CASE j # k
      BY <3>1
    <3>2. CASE j = k /\ Served(reading[k], p)
      BY <3>2
    <3>3. CASE j = k /\ ~Served(reading[k], p)
      <4>1. rpc' = [rpc EXCEPT ![k] = "failed"] /\ UNCHANGED <<got, reading, listed, life, status>>
        BY <3>3
      <4>2. Lost(reading[k])
        <5>1. reading[k] \in Versions /\ p \in Parts
          OBVIOUS
        <5>2. CASE status[reading[k]] \notin Linked
          BY <5>2
        <5>3. CASE status[reading[k]] \in Linked
          <6>1. p \notin bound[reading[k]] \/ life[reading[k]][p] # "ready"
            BY <3>3, <5>3
          <6>2. p \notin bound[reading[k]] => life[reading[k]][p] = "purged"
            BY <5>1, <5>3
          <6>3. QED
            BY <5>1, <6>1, <6>2
        <5>4. QED
          BY <5>2, <5>3
      <4>3. QED
        BY <3>3, <4>1, <4>2
    <3>4. QED
      BY <3>1, <3>2, <3>3
  <2>5. QED
    BY <2>1, <2>2, <2>3, <2>4
<1>23. ASSUME NEW k \in Readers,
             Validated(k)
      PROVE VersionsInv'
  <2> USE <1>23 DEF Validated
  <2>1. PointerIsActive'
    OBVIOUS
  <2>2. ASSUME NEW u \in Versions PROVE GraphInv(u)' /\ LostTogether(u)'
    OBVIOUS
  <2>3. ASSUME NEW b \in Actors PROVE ActorInv(b)'
    OBVIOUS
  <2>4. ASSUME NEW j \in Readers PROVE ReaderInv(j)'
    OBVIOUS
  <2>5. QED
    BY <2>1, <2>2, <2>3, <2>4
<1>24. ASSUME NEW a \in Actors, ActorStep(a)
      PROVE VersionsInv'
  <2> HIDE <1>0 DEF VersionsInv, TypeOK, PointerIsActive, GraphInv, LostTogether,
                    ActorInv, ReaderInv, Lost, Linked, Parts
  <2>1. QED
    BY <1>24, <1>1, <1>2, <1>3, <1>4, <1>5, <1>6, <1>7, <1>8, <1>9, <1>10, <1>11,
       <1>12, <1>13, <1>14 DEF ActorStep
<1>25. ASSUME RetentionStep
      PROVE VersionsInv'
  <2>1. \A R \in {Runs \cup Versions} \cup {{r} : r \in Runs \cup Versions} :
           R \in SUBSET (Runs \cup Versions)
    OBVIOUS
  <2>2. CASE \E v \in Versions, S \in SUBSET Parts : Expire(v, S)
    BY <1>15, <2>2
  <2>3. CASE \E r \in Runs : ExpireSource(r)
    BY <1>16, <2>3
  <2>4. CASE \E R \in {Runs \cup Versions} \cup {{r} : r \in Runs \cup Versions} : Claim(R)
    BY <1>17, <2>1, <2>4
  <2>5. CASE \E v \in Versions, p \in Parts : Seal(v, p)
    BY <1>18, <2>5
  <2>6. QED
    BY <1>25, <2>2, <2>3, <2>4, <2>5 DEF RetentionStep
<1>26. ASSUME NEW k \in Readers, ReaderStep(k)
      PROVE VersionsInv'
  BY <1>26, <1>19, <1>20, <1>21, <1>22, <1>23 DEF ReaderStep
<1>27. CASE UNCHANGED vars
  <2> USE <1>27 DEF vars
  <2>1. PointerIsActive'
    OBVIOUS
  <2>2. ASSUME NEW u \in Versions PROVE GraphInv(u)' /\ LostTogether(u)'
    OBVIOUS
  <2>3. ASSUME NEW b \in Actors PROVE ActorInv(b)'
    OBVIOUS
  <2>4. ASSUME NEW j \in Readers PROVE ReaderInv(j)'
    OBVIOUS
  <2>5. QED
    BY <2>1, <2>2, <2>3, <2>4
<1>28. QED
  BY <1>24, <1>25, <1>26, <1>27 DEF Next

\* Canonical versions, pointer, actors and readers always agree.
THEOREM VersionsAlwaysConsistent == Spec => []VersionsInv
<1>1. Init => VersionsInv
  BY NothingIsNoVersion DEF Init, VersionsInv, TypeOK, PointerIsActive, GraphInv,
     LostTogether, ActorInv, ReaderInv, Lives, Linked, Versions
<1>2. VersionsInv /\ [Next]_vars => VersionsInv'
  BY VersionsStep
<1>3. QED
  BY <1>1, <1>2, PTL DEF Spec

\* There is never an ACTIVE version that the pointer is not at, nor a pointer at
\* one that is not ACTIVE.
THEOREM PointerIsAlwaysActive == Spec => []PointerIsActive
<1>1. VersionsInv => PointerIsActive
  BY DEF VersionsInv
<1>2. QED
  BY <1>1, VersionsAlwaysConsistent, PTL

\* A reader of a once active version fails only if artifacts of it are going.
THEOREM ReadersAlwaysServed == Spec => []ReadersFailOnlyOnLoss
<1>1. VersionsInv => ReadersFailOnlyOnLoss
  BY DEF VersionsInv, ReaderInv, ReadersFailOnlyOnLoss
<1>2. QED
  BY <1>1, VersionsAlwaysConsistent, PTL

\* Whatever is bound and all ready is the whole version.
LEMMA BoundIsWhole ==
    ASSUME VersionsInv, NEW v \in Versions, status[v] \in Linked,
           \A p \in bound[v] : life[v][p] = "ready"
    PROVE  \A p \in Parts : life[v][p] = "ready"
<1>1. PICK q \in Parts : q \in bound[v]
  BY DEF VersionsInv, TypeOK, GraphInv
<1>2. life[v][q] = "ready"
  BY <1>1
<1>3. \A p \in Parts : life[v][p] # "purged"
  BY <1>1, <1>2 DEF VersionsInv, LostTogether
<1>4. QED
  BY <1>3 DEF VersionsInv, GraphInv

\* The pointer moves only in an activation.
LEMMA PointerMoves ==
    ASSUME VersionsInv, [Next]_vars, NEW v \in Versions, pointer' = v, pointer # v
    PROVE  \E a \in Actors :
              /\ Activate(a) /\ target[a] = v /\ status[v] \in Linked
              /\ pointer = expected[a]
              /\ \A p \in bound[v] : life[v][p] = "ready"
<1>1. PICK a \in Actors : Activate(a)
  <2>1. ASSUME NEW a \in Actors, ActorStep(a), ~Activate(a)
        PROVE  pointer' = pointer
    <3>1. ASSUME NEW r \in Runs \cup Versions, NEW how \in Modes,
                 Reserve(a, r, how) \/ Resume(a, r, how)
          PROVE  pointer' = pointer
      BY <3>1 DEF Reserve, Resume, graphVars
    <3>2. ASSUME NEW p \in Parts, StorePart(a, p)
          PROVE  pointer' = pointer
      BY <3>2 DEF StorePart
    <3>3. ASSUME NEW u \in Versions, Select(a, u) \/ AskRollback(a, u)
          PROVE  pointer' = pointer
      BY <3>3 DEF Select, AskRollback, graphVars
    <3>4. CASE SeeBase(a) \/ PublishFails(a) \/ Crash(a) \/ SeePrevious(a)
      BY <3>4 DEF SeeBase, PublishFails, Crash, SeePrevious, graphVars
    <3>5. CASE StoreGraph(a) \/ Finalize(a) \/ AbortMark(a) \/ AbortSeal(a)
      BY <3>5 DEF StoreGraph, Finalize, AbortMark, AbortSeal
    <3>6. QED
      BY <2>1, <3>1, <3>2, <3>3, <3>4, <3>5 DEF ActorStep
  <2>2. CASE RetentionStep
    <3>1. pointer' \in {pointer, Nothing}
      BY <2>2 DEF RetentionStep, Expire, ExpireSource, Claim, Seal, graphVars
    <3>2. QED
      BY <3>1, NothingIsNoVersion
  <2>3. ASSUME NEW k \in Readers, ReaderStep(k)
        PROVE  pointer' = pointer
    BY <2>3 DEF ReaderStep, ReadActive, OpenManifest, ListChunks, Validated, ReadChunk,
       graphVars
  <2>4. CASE UNCHANGED vars
    BY <2>4 DEF vars
  <2>5. QED
    BY <2>1, <2>2, <2>3, <2>4 DEF Next
<1>2. QED
  BY <1>1 DEF Activate

\* Nothing but whole and readable versions is ever activated.
THEOREM OnlyWholeIsActivated == Spec => ActivatedIsWhole
<1>1. VersionsInv /\ [Next]_vars =>
        [\A v \in Versions : pointer' = v /\ pointer # v =>
            \A p \in Parts : life[v][p] = "ready"]_vars
  BY PointerMoves, BoundIsWhole
<1>2. QED
  BY <1>1, VersionsAlwaysConsistent, PTL DEF Spec, ActivatedIsWhole

\* A derived version takes the place of its base and of no other.
THEOREM FinalAlwaysReplacesBase == Spec => FinalReplacesBase
<1>1. ASSUME VersionsInv, NEW a \in Actors, NEW v \in Versions, Activate(a),
             op[a] = "ACTIVATE", pointer' = v, pointer # v, owner[v] \in Versions
      PROVE  pointer = owner[v]
  <2>1. target[a] = v /\ pointer = expected[a] /\ pc[a] = "activating"
    BY <1>1 DEF Activate
  <2>2. QED
    BY <1>1, <2>1, RunsAreNoVersions DEF VersionsInv, ActorInv
<1>2. VersionsInv /\ [Next]_vars =>
        [\A a \in Actors, v \in Versions :
            /\ Activate(a) /\ op[a] = "ACTIVATE"
            /\ pointer' = v /\ pointer # v /\ owner[v] \in Versions
            => pointer = owner[v]]_vars
  BY <1>1
<1>3. QED
  BY <1>2, VersionsAlwaysConsistent, PTL DEF Spec, FinalReplacesBase

\* A reader is never given a part of a version as the whole.
THEOREM ReadsAreWhole == Spec => []ReadIsWhole
<1>1. Init => ReadIsWhole
  BY DEF Init, ReadIsWhole
<1>2. ASSUME TypeOK, ReadIsWhole, [Next]_vars PROVE ReadIsWhole'
  <2>1. ASSUME NEW k \in Readers, ReaderStep(k) PROVE ReadIsWhole'
    <3>1. ASSUME NEW j \in Readers, rpc'[j] = "read" PROVE got'[j] = Parts
      <4>1. CASE rpc[j] = "read"
        <5>1. got'[j] = got[j]
          BY <1>2, <2>1, <4>1 DEF ReaderStep, ReadActive, OpenManifest, ListChunks,
             ReadChunk, Validated, TypeOK
        <5>2. QED
          BY <1>2, <4>1, <5>1 DEF ReadIsWhole
      <4>2. CASE rpc[j] # "read"
        BY <1>2, <2>1, <3>1, <4>2 DEF ReaderStep, ReadActive, OpenManifest,
           ListChunks, ReadChunk, Validated, TypeOK
      <4>3. QED
        BY <4>1, <4>2
    <3>2. QED
      BY <3>1 DEF ReadIsWhole
  <2>2. ASSUME NEW a \in Actors, ActorStep(a) PROVE UNCHANGED readerVars
    BY <2>2 DEF ActorStep, SeeBase, StoreGraph, Finalize, PublishFails, AbortMark,
       AbortSeal, Crash, SeePrevious, Activate, Reserve, Resume, StorePart, Select,
       AskRollback
  <2>3. CASE RetentionStep
    BY <1>2, <2>3 DEF RetentionStep, Expire, ExpireSource, Claim, Seal, readerVars,
       ReadIsWhole
  <2>4. QED
    BY <1>2, <2>1, <2>2, <2>3 DEF Next, vars, readerVars, ReadIsWhole
<1>3. VersionsInv => TypeOK
  BY DEF VersionsInv
<1>4. QED
  BY <1>1, <1>2, <1>3, VersionsAlwaysConsistent, PTL DEF Spec

-----------------------------------------------------------------------------
(* The versions implement the history. *)

\* The version an actor saw active was offered, and is offered or gone; the base
\* of a derived version was made by a run; a reader has a version once it asks.
HistoryInv ==
    /\ \A a \in Actors : expected[a] # Nothing =>
          status[expected[a]] \in Linked \cup {"PURGED"}
    /\ \A a \in Actors : pc[a] = "deriving" => owner[expected[a]] \in Runs
    /\ \A k \in Readers : rpc[k] = "idle" => reading[k] = Nothing

\* What was offered stays offered, or is gone; what has an owner keeps it.
LEMMA OfferedForGood ==
    ASSUME TypeOK, \A v \in Versions : GraphInv(v), [Next]_vars,
           NEW v \in Versions, status[v] \in Linked \cup {"PURGED"}
    PROVE  status'[v] \in Linked \cup {"PURGED"} /\ owner'[v] = owner[v]
<1> USE DEF TypeOK, Linked
<1>1. ASSUME NEW a \in Actors, ActorStep(a)
      PROVE status'[v] \in Linked \cup {"PURGED"} /\ owner'[v] = owner[v]
  <2>1. ASSUME NEW r \in Runs \cup Versions, NEW how \in Modes, Reserve(a, r, how)
        PROVE status'[v] \in Linked \cup {"PURGED"} /\ owner'[v] = owner[v]
    <3>1. PICK u \in Versions : /\ \A w \in Versions : status[w] = "none" <=> w >= u
                                /\ status' = [status EXCEPT ![u] = "CANDIDATE"]
                                /\ owner'  = [owner EXCEPT ![u] = r]
      BY <2>1 DEF Reserve
    <3>2. status[u] = "none"
      BY <3>1, MaxVersionsIsNat DEF Versions
    <3>3. QED
      BY <3>1, <3>2
  <2>2. ASSUME NEW r \in Runs \cup Versions, NEW how \in Modes, Resume(a, r, how)
        PROVE UNCHANGED <<status, owner>>
    BY <2>2 DEF Resume, graphVars
  <2>3. ASSUME NEW p \in Parts, StorePart(a, p) PROVE UNCHANGED <<status, owner>>
    BY <2>3 DEF StorePart
  <2>4. ASSUME NEW u \in Versions, Select(a, u) \/ AskRollback(a, u)
        PROVE UNCHANGED <<status, owner>>
    BY <2>4 DEF Select, AskRollback, graphVars
  <2>5. CASE SeeBase(a) \/ PublishFails(a) \/ Crash(a) \/ SeePrevious(a)
    BY <2>5 DEF SeeBase, PublishFails, Crash, SeePrevious, graphVars
  <2>6. CASE StoreGraph(a) \/ AbortMark(a)
    BY <2>6 DEF StoreGraph, AbortMark
  <2>7. CASE Finalize(a) \/ AbortSeal(a)
    BY <2>7 DEF Finalize, AbortSeal
  <2>8. CASE Activate(a)
    BY <2>8 DEF Activate
  <2>9. QED
    BY <1>1, <2>1, <2>2, <2>3, <2>4, <2>5, <2>6, <2>7, <2>8 DEF ActorStep
<1>2. CASE RetentionStep
  BY <1>2 DEF RetentionStep, Expire, ExpireSource, Claim, Seal, graphVars
<1>3. ASSUME NEW k \in Readers, ReaderStep(k) PROVE UNCHANGED <<status, owner>>
  BY <1>3 DEF ReaderStep, ReadActive, OpenManifest, ListChunks, ReadChunk, Validated,
     graphVars
<1>4. QED
  BY <1>1, <1>2, <1>3 DEF Next, vars

\* An actor takes a version it expects only from the pointer.
LEMMA ExpectedIsOld ==
    ASSUME TypeOK, [Next]_vars, NEW a \in Actors, expected'[a] # Nothing
    PROVE  \/ /\ expected'[a] = expected[a]
              /\ pc'[a] = "deriving" => pc[a] = "deriving"
           \/ /\ pointer # Nothing /\ expected'[a] = pointer
              /\ pc'[a] = "deriving" => owner[pointer] \in Runs
<1> DEFINE Old == \/ /\ expected'[a] = expected[a]
                     /\ pc'[a] = "deriving" => pc[a] = "deriving"
                  \/ /\ pointer # Nothing /\ expected'[a] = pointer
                     /\ pc'[a] = "deriving" => owner[pointer] \in Runs
<1> USE DEF TypeOK
<1>1. ASSUME NEW b \in Actors, ActorStep(b) PROVE Old
  <2>1. ASSUME NEW r \in Runs \cup Versions, NEW how \in Modes,
               Reserve(b, r, how) \/ Resume(b, r, how)
        PROVE Old
    BY <2>1 DEF Reserve, Resume, Done
  <2>2. ASSUME NEW p \in Parts, StorePart(b, p) PROVE Old
    BY <2>2 DEF StorePart
  <2>3. ASSUME NEW u \in Versions, Select(b, u) \/ AskRollback(b, u) PROVE Old
    BY <2>3 DEF Select, AskRollback
  <2>4. CASE SeeBase(b) \/ SeePrevious(b)
    BY <2>4 DEF SeeBase, SeePrevious
  <2>5. CASE PublishFails(b) \/ Crash(b)
    BY <2>5 DEF PublishFails, Crash, Done
  <2>6. CASE StoreGraph(b) \/ AbortMark(b) \/ AbortSeal(b)
    BY <2>6 DEF StoreGraph, AbortMark, AbortSeal, Done
  <2>7. CASE Finalize(b) \/ Activate(b)
    BY <2>7 DEF Finalize, AfterFinalize, Activate, Done
  <2>8. QED
    BY <1>1, <2>1, <2>2, <2>3, <2>4, <2>5, <2>6, <2>7 DEF ActorStep
<1>2. CASE UNCHANGED actorVars
  BY <1>2 DEF actorVars
<1>3. RetentionStep => UNCHANGED actorVars
  BY DEF RetentionStep, Expire, ExpireSource, Claim, Seal
<1>4. ASSUME NEW k \in Readers, ReaderStep(k) PROVE UNCHANGED actorVars
  BY <1>4 DEF ReaderStep, ReadActive, OpenManifest, ListChunks, ReadChunk, Validated
<1>5. UNCHANGED vars => UNCHANGED actorVars
  BY DEF vars, actorVars
<1>6. QED
  BY <1>1, <1>2, <1>3, <1>4, <1>5 DEF Next

LEMMA HistoryInvStep == VersionsInv /\ HistoryInv /\ [Next]_vars => HistoryInv'
<1> SUFFICES ASSUME VersionsInv, HistoryInv, [Next]_vars PROVE HistoryInv'
  OBVIOUS
<1>0. TypeOK /\ PointerIsActive /\ \A v \in Versions : GraphInv(v)
  BY DEF VersionsInv
<1>1. ASSUME NEW a \in Actors, expected'[a] # Nothing
      PROVE  /\ status'[expected'[a]] \in Linked \cup {"PURGED"}
             /\ pc'[a] = "deriving" => owner'[expected'[a]] \in Runs
  <2> DEFINE v == expected'[a]
  <2>1. CASE v = expected[a] /\ (pc'[a] = "deriving" => pc[a] = "deriving")
    <3>1. v \in Versions /\ status[v] \in Linked \cup {"PURGED"}
      BY <1>0, <1>1, <2>1 DEF HistoryInv, TypeOK
    <3>2. status'[v] \in Linked \cup {"PURGED"} /\ owner'[v] = owner[v]
      BY <1>0, <3>1, OfferedForGood
    <3>3. QED
      BY <2>1, <3>2 DEF HistoryInv
  <2>2. CASE /\ pointer # Nothing /\ v = pointer
             /\ pc'[a] = "deriving" => owner[pointer] \in Runs
    <3>1. v \in Versions /\ status[v] = "ACTIVE"
      BY <1>0, <2>2 DEF TypeOK, PointerIsActive
    <3>2. status'[v] \in Linked \cup {"PURGED"} /\ owner'[v] = owner[v]
      BY <1>0, <3>1, OfferedForGood DEF Linked
    <3>3. QED
      BY <2>2, <3>2
  <2>3. QED
    BY <1>0, <1>1, <2>1, <2>2, ExpectedIsOld
<1>2. ASSUME NEW a \in Actors, pc'[a] = "deriving" PROVE expected'[a] # Nothing
  BY <1>2, VersionsStep DEF VersionsInv, ActorInv
<1>3. ASSUME NEW k \in Readers, rpc'[k] = "idle" PROVE reading'[k] = Nothing
  <2>1. ASSUME NEW j \in Readers, ReaderStep(j)
        PROVE  rpc[k] = "idle" /\ reading'[k] = reading[k]
    BY <1>0, <1>3, <2>1 DEF ReaderStep, ReadActive, OpenManifest, ListChunks,
       ReadChunk, Validated, TypeOK
  <2>2. ASSUME NEW a \in Actors, ActorStep(a) PROVE UNCHANGED readerVars
    BY <2>2 DEF ActorStep, SeeBase, StoreGraph, Finalize, PublishFails, AbortMark,
       AbortSeal, Crash, SeePrevious, Activate, Reserve, Resume, StorePart, Select,
       AskRollback
  <2>3. RetentionStep => UNCHANGED readerVars
    BY DEF RetentionStep, Expire, ExpireSource, Claim, Seal
  <2>4. QED
    BY <1>3, <2>1, <2>2, <2>3 DEF Next, vars, readerVars, HistoryInv
<1>4. QED
  BY <1>1, <1>2, <1>3 DEF HistoryInv

\* What leaves status and parts of a version alone leaves its stage alone.
LEMMA StageKept ==
    ASSUME NEW v \in Versions, status'[v] = status[v],
           status[v] \in Linked => \A p \in Parts : life'[v][p] = life[v][p],
           status[v] \in {"none", "CANDIDATE", "PURGED"} \cup Linked
    PROVE  StageOf(v)' = StageOf(v)
BY DEF StageOf, Lost, Linked

\* The steps of the history, as the steps of the store take them.
LEMMA HistoryDraft ==
    ASSUME NEW v \in Versions, NEW r \in Runs \cup Versions,
           \A u \in Versions : StageOf(u) = "none" <=> u >= v,
           \A u \in Versions : owner[u] # r,
           r \in Versions => owner[r] \in Runs /\ StageOf(r) \in {"whole", "lost", "gone"},
           \A u \in Versions : StageOf(u)' = IF u = v THEN "draft" ELSE StageOf(u),
           owner' = [owner EXCEPT ![v] = r],
           pointer' = pointer, UNCHANGED readerVars
    PROVE  History!Next
<1> DEFINE S == [u \in Versions |-> StageOf(u)]
<1>1. S' = [S EXCEPT ![v] = "draft"]
  OBVIOUS
<1>2. [k \in Readers |-> AnswerTo(k)]' = [k \in Readers |-> AnswerTo(k)]
  BY DEF AnswerTo, readerVars
<1>3. reading' = reading
  BY DEF readerVars
<1>4. v \in History!Versions
  BY DEF History!Versions, Versions
<1>5. QED
  BY <1>1, <1>2, <1>3, <1>4 DEF History!Next, History!Draft, History!Versions,
     History!Offered, Versions

LEMMA HistoryOffer ==
    ASSUME NEW v \in Versions, StageOf(v) = "draft",
           \A u \in Versions : StageOf(u)' = IF u = v THEN "whole" ELSE StageOf(u),
           UNCHANGED <<owner, pointer, readerVars>>
    PROVE  History!Next
<1> DEFINE S == [u \in Versions |-> StageOf(u)]
<1>1. S' = [S EXCEPT ![v] = "whole"]
  OBVIOUS
<1>2. [k \in Readers |-> AnswerTo(k)]' = [k \in Readers |-> AnswerTo(k)]
  BY DEF AnswerTo, readerVars
<1>3. UNCHANGED <<owner, pointer, reading>>
  BY DEF readerVars
<1>4. QED
  BY <1>1, <1>2, <1>3 DEF History!Next, History!Offer, History!Versions, Versions

LEMMA HistoryLose ==
    ASSUME NEW V \in SUBSET Versions, \A v \in V : StageOf(v) = "whole",
           \A u \in Versions : StageOf(u)' = IF u \in V THEN "lost" ELSE StageOf(u),
           UNCHANGED <<owner, pointer, readerVars>>
    PROVE  History!Next
<1> DEFINE S == [u \in Versions |-> StageOf(u)]
<1>1. S' = [u \in Versions |-> IF u \in V THEN "lost" ELSE S[u]]
  OBVIOUS
<1>2. [k \in Readers |-> AnswerTo(k)]' = [k \in Readers |-> AnswerTo(k)]
  BY DEF AnswerTo, readerVars
<1>3. UNCHANGED <<owner, pointer, reading>>
  BY DEF readerVars
<1>4. QED
  BY <1>1, <1>2, <1>3 DEF History!Next, History!Lose, History!Versions, Versions

LEMMA HistoryForget ==
    ASSUME NEW v \in Versions, StageOf(v) \in {"draft", "lost"},
           \A u \in Versions : StageOf(u)' = IF u = v THEN "gone" ELSE StageOf(u),
           pointer' = IF pointer = v THEN Nothing ELSE pointer,
           UNCHANGED <<owner, readerVars>>
    PROVE  History!Next
<1> DEFINE S == [u \in Versions |-> StageOf(u)]
<1>1. S' = [S EXCEPT ![v] = "gone"]
  OBVIOUS
<1>2. [k \in Readers |-> AnswerTo(k)]' = [k \in Readers |-> AnswerTo(k)]
  BY DEF AnswerTo, readerVars
<1>3. UNCHANGED <<owner, reading>>
  BY DEF readerVars
<1>4. QED
  BY <1>1, <1>2, <1>3 DEF History!Next, History!Forget, History!Versions, Versions

LEMMA HistoryMove ==
    ASSUME NEW v \in Versions, StageOf(v) = "whole", pointer' = v,
           \A u \in Versions : StageOf(u)' = StageOf(u),
           UNCHANGED <<owner, readerVars>>
    PROVE  History!Next
<1> DEFINE S == [u \in Versions |-> StageOf(u)]
<1>1. S' = S
  OBVIOUS
<1>2. [k \in Readers |-> AnswerTo(k)]' = [k \in Readers |-> AnswerTo(k)]
  BY DEF AnswerTo, readerVars
<1>3. UNCHANGED <<owner, reading>>
  BY DEF readerVars
<1>4. QED
  BY <1>1, <1>2, <1>3 DEF History!Next, History!Move, History!Versions, Versions

LEMMA HistoryAsk ==
    ASSUME NEW k \in Readers, reading[k] = Nothing, pointer # Nothing,
           reading' = [reading EXCEPT ![k] = pointer],
           \A j \in Readers : AnswerTo(j)' = AnswerTo(j), UNCHANGED graphVars
    PROVE  History!Next
<1>1. [u \in Versions |-> StageOf(u)]' = [u \in Versions |-> StageOf(u)]
  BY DEF StageOf, Lost, graphVars
<1>2. [j \in Readers |-> AnswerTo(j)]' = [j \in Readers |-> AnswerTo(j)]
  OBVIOUS
<1>3. UNCHANGED <<owner, pointer>>
  BY DEF graphVars
<1>4. QED
  BY <1>1, <1>2, <1>3 DEF History!Next, History!Ask

LEMMA HistoryTell ==
    ASSUME NEW k \in Readers, reading[k] \in Versions, AnswerTo(k) = "none",
           \A j \in Readers : j # k => AnswerTo(j)' = AnswerTo(j),
           \/ AnswerTo(k)' = "whole"
           \/ AnswerTo(k)' = "refused" /\ StageOf(reading[k]) # "whole",
           reading' = reading, UNCHANGED graphVars
    PROVE  History!Next
<1> DEFINE A == [j \in Readers |-> AnswerTo(j)]
           S == [u \in Versions |-> StageOf(u)]
<1>1. S' = S
  BY DEF StageOf, Lost, graphVars
<1>2. A' = [A EXCEPT ![k] = AnswerTo(k)']
  OBVIOUS
<1>3. UNCHANGED <<owner, pointer>> /\ reading[k] # Nothing
  BY NothingIsNoVersion DEF graphVars
<1>4. S[reading[k]] = StageOf(reading[k]) /\ A[k] = "none"
  OBVIOUS
<1>5. QED
  BY <1>1, <1>2, <1>3, <1>4 DEF History!Next, History!Tell

\* A step that leaves the graph and the readers alone is none of the history.
LEMMA HistoryStutters ==
    ASSUME UNCHANGED <<graphVars, readerVars>>
    PROVE  UNCHANGED <<[v \in Versions |-> StageOf(v)], owner, pointer, reading,
                       [k \in Readers |-> AnswerTo(k)]>>
BY DEF StageOf, Lost, AnswerTo, graphVars, readerVars

\* An actor's step is one of the history, or none.
LEMMA ActorHistory ==
    ASSUME VersionsInv, HistoryInv, NEW a \in Actors, ActorStep(a)
    PROVE  [History!Next]_(<<[v \in Versions |-> StageOf(v)], owner, pointer, reading,
                             [k \in Readers |-> AnswerTo(k)]>>)
<1> DEFINE Step == [History!Next]_(<<[v \in Versions |-> StageOf(v)], owner, pointer,
                                     reading, [k \in Readers |-> AnswerTo(k)]>>)
           v == target[a]
<1> SUFFICES Step
  OBVIOUS
<1>0. /\ TypeOK /\ PointerIsActive /\ ActorInv(a)
      /\ \A u \in Versions : GraphInv(u) /\ LostTogether(u)
      /\ pc[a] \in {"storing", "stored", "aborting", "sealing", "activating"} =>
            v \in Versions /\ status[v] # "none"
  BY DEF VersionsInv, ActorInv, TypeOK
<1>1. ASSUME UNCHANGED <<graphVars, readerVars>> PROVE Step
  BY <1>1, HistoryStutters
<1>2. ASSUME UNCHANGED <<owner, pointer, readerVars>>,
             \A u \in Versions : StageOf(u)' = StageOf(u)
      PROVE Step
  BY <1>2 DEF AnswerTo, readerVars
<1>3. CASE SeeBase(a) \/ PublishFails(a) \/ Crash(a) \/ SeePrevious(a)
  BY <1>1, <1>3 DEF SeeBase, PublishFails, Crash, SeePrevious
<1>4. ASSUME NEW u \in Versions, Select(a, u) \/ AskRollback(a, u) PROVE Step
  BY <1>1, <1>4 DEF Select, AskRollback
<1>5. ASSUME NEW r \in Runs \cup Versions, NEW how \in Modes, Resume(a, r, how)
      PROVE Step
  BY <1>1, <1>5 DEF Resume
<1>6. ASSUME NEW r \in Runs \cup Versions, NEW how \in Modes, Reserve(a, r, how)
      PROVE Step
  <2>1. PICK w \in Versions : /\ \A u \in Versions : status[u] = "none" <=> u >= w
                              /\ status' = [status EXCEPT ![w] = "CANDIDATE"]
                              /\ owner'  = [owner EXCEPT ![w] = r]
    BY <1>6 DEF Reserve
  <2>2. /\ \A u \in Versions : owner[u] # r
        /\ UNCHANGED <<life, pointer, readerVars>>
        /\ r \in Runs \/ (pc[a] = "deriving" /\ r = expected[a])
    BY <1>6 DEF Reserve, MayReserve
  <2>3. \A u \in Versions : StageOf(u) = "none" <=> u >= w
    BY <2>1 DEF StageOf
  <2>4. r \in Versions => owner[r] \in Runs /\ StageOf(r) \in {"whole", "lost", "gone"}
    BY <2>2, RunsAreNoVersions, NothingIsNoVersion DEF HistoryInv, StageOf, Linked
  <2>5. \A u \in Versions : StageOf(u)' = IF u = w THEN "draft" ELSE StageOf(u)
    BY <1>0, <2>1, <2>2 DEF TypeOK, StageOf, Lost
  <2>6. QED
    BY <2>1, <2>2, <2>3, <2>4, <2>5, HistoryDraft
<1>7. ASSUME StoreGraph(a) \/ \E p \in Parts : StorePart(a, p) PROVE Step
  <2>1. \A u \in Versions : \A p \in Parts :
           life[u][p] # "absent" => life'[u][p] = life[u][p]
    <3>1. CASE StoreGraph(a)
      BY <1>0, <3>1 DEF StoreGraph, TypeOK
    <3>2. ASSUME NEW q \in Parts, StorePart(a, q)
          PROVE  \A u \in Versions : \A p \in Parts :
                    life[u][p] # "absent" => life'[u][p] = life[u][p]
      BY <1>0, <3>2 DEF StorePart, TypeOK
    <3>3. QED
      BY <1>7, <3>1, <3>2
  <2>2. UNCHANGED <<status, owner, pointer, readerVars>>
    BY <1>7 DEF StoreGraph, StorePart
  <2>3. ASSUME NEW u \in Versions PROVE StageOf(u)' = StageOf(u)
    <3>1. status[u] \in {"none", "CANDIDATE", "PURGED"} \cup Linked
      BY <1>0 DEF TypeOK
    <3>2. status[u] \in Linked => \A p \in Parts : life'[u][p] = life[u][p]
      BY <1>0, <2>1 DEF GraphInv
    <3>3. QED
      BY <2>2, <3>1, <3>2, StageKept
  <2>4. QED
    BY <1>2, <2>2, <2>3
<1>8. CASE Finalize(a)
  <2>1. v \in Versions /\ UNCHANGED <<life, owner, pointer, readerVars>>
    BY <1>0, <1>8 DEF Finalize
  <2>2. CASE UNCHANGED status
    BY <1>2, <2>1, <2>2 DEF StageOf, Lost
  <2>3. CASE /\ status[v] \in {"CANDIDATE", "VALIDATED"} /\ bound[v] = {}
             /\ \A p \in Parts : life[v][p] = "ready"
             /\ status' = [status EXCEPT ![v] = "VALIDATED"]
    <3>1. StageOf(v) = "draft"
      BY <1>0, <2>1, <2>3 DEF GraphInv, StageOf, Linked
    <3>2. \A u \in Versions : StageOf(u)' = IF u = v THEN "whole" ELSE StageOf(u)
      BY <1>0, <2>1, <2>3 DEF TypeOK, StageOf, Lost
    <3>3. QED
      BY <2>1, <3>1, <3>2, HistoryOffer
  <2>4. QED
    BY <1>8, <2>2, <2>3 DEF Finalize
<1>9. CASE AbortMark(a)
  <2>1. UNCHANGED <<status, owner, pointer, readerVars>>
    BY <1>9 DEF AbortMark
  <2>2. \A u \in Versions : status[u] \in Linked => \A p \in Parts :
           life'[u][p] = life[u][p]
    <3>1. UNCHANGED life \/ /\ status[v] = "CANDIDATE"
                            /\ \A u \in Versions : u # v => life'[u] = life[u]
      BY <1>0, <1>9 DEF AbortMark, TypeOK
    <3>2. QED
      BY <3>1 DEF Linked
  <2>3. \A u \in Versions : StageOf(u)' = StageOf(u)
    BY <1>0, <2>1, <2>2, StageKept DEF TypeOK
  <2>4. QED
    BY <1>2, <2>1, <2>3
<1>10. CASE AbortSeal(a)
  <2>1. v \in Versions /\ UNCHANGED <<owner, pointer, readerVars>>
    BY <1>0, <1>10 DEF AbortSeal
  <2>2. \A u \in Versions :
           status'[u] = IF u = v /\ status[u] = "CANDIDATE" THEN "PURGED" ELSE status[u]
    BY <1>0, <1>10 DEF AbortSeal, TypeOK
  <2>3. \A u \in Versions : status[u] \in Linked => \A p \in Parts :
           life'[u][p] = life[u][p]
    BY <1>0, <1>10 DEF AbortSeal, ActorInv, TypeOK
  <2>4. \A u \in Versions : u # v \/ status[u] # "CANDIDATE" => StageOf(u)' = StageOf(u)
    BY <1>0, <2>2, <2>3, StageKept DEF TypeOK
  <2>5. CASE status[v] = "CANDIDATE"
    <3>1. StageOf(v) = "draft" /\ pointer # v
      BY <1>0, <2>1, <2>5 DEF StageOf, PointerIsActive
    <3>2. ASSUME NEW u \in Versions, u = v PROVE StageOf(u)' = "gone"
      BY <2>2, <2>5, <3>2 DEF StageOf
    <3>3. \A u \in Versions : StageOf(u)' = IF u = v THEN "gone" ELSE StageOf(u)
      BY <2>4, <3>2
    <3>4. pointer' = IF pointer = v THEN Nothing ELSE pointer
      BY <2>1, <3>1
    <3>5. QED
      BY <2>1, <3>1, <3>3, <3>4, HistoryForget
  <2>6. CASE status[v] # "CANDIDATE"
    BY <1>2, <2>1, <2>4, <2>6
  <2>7. QED
    BY <2>5, <2>6
<1>11. CASE Activate(a)
  <2>1. v \in Versions /\ UNCHANGED <<life, owner, readerVars>>
    BY <1>0, <1>11 DEF Activate
  <2>2. CASE UNCHANGED <<status, pointer>>
    BY <1>2, <2>1, <2>2 DEF StageOf, Lost
  <2>3. CASE /\ status[v] \in Linked
             /\ \A p \in bound[v] : life[v][p] = "ready"
             /\ status' = [u \in Versions |-> CASE u = v -> "ACTIVE"
                                                [] u = pointer -> "SUPERSEDED"
                                                [] OTHER -> status[u]]
             /\ pointer' = v
    <3>1. StageOf(v) = "whole"
      BY <2>1, <2>3, BoundIsWhole DEF StageOf, Lost, Linked
    <3>2. \A u \in Versions : status[u] \in Linked <=> status'[u] \in Linked
      BY <1>0, <2>1, <2>3 DEF PointerIsActive, Linked
    <3>3. \A u \in Versions : status[u] \notin Linked => status'[u] = status[u]
      BY <1>0, <2>1, <2>3 DEF PointerIsActive, Linked
    <3>4. \A u \in Versions : StageOf(u)' = StageOf(u)
      BY <2>1, <3>2, <3>3 DEF StageOf, Lost, Linked
    <3>5. QED
      BY <2>1, <2>3, <3>1, <3>4, HistoryMove
  <2>4. QED
    BY <1>11, <2>2, <2>3 DEF Activate
<1>12. QED
  BY <1>3, <1>4, <1>5, <1>6, <1>7, <1>8, <1>9, <1>10, <1>11 DEF ActorStep

\* What a step takes from some versions, it takes from the whole ones among them.
LEMMA PartsLost ==
    ASSUME VersionsInv, UNCHANGED <<status, owner, pointer, readerVars>>,
           \A u \in Versions : \A p \in Parts :
              status[u] \in Linked => life'[u][p] = life[u][p] \/ life'[u][p] # "ready"
    PROVE  History!Next
<1> DEFINE V == {u \in Versions : StageOf(u) = "whole" /\ Lost(u)'}
<1>1. ASSUME NEW u \in Versions
      PROVE  StageOf(u)' = IF u \in V THEN "lost" ELSE StageOf(u)
  <2>1. status[u] \in {"none", "CANDIDATE", "PURGED"} \cup Linked
    BY DEF VersionsInv, TypeOK
  <2>2. CASE status[u] \notin Linked
    BY <2>1, <2>2 DEF StageOf, Linked
  <2>3. CASE status[u] \in Linked
    <3>1. Lost(u) => Lost(u)'
      BY <2>3 DEF Lost
    <3>2. StageOf(u) = (IF Lost(u) THEN "lost" ELSE "whole")
      BY <2>3 DEF StageOf, Linked
    <3>3. StageOf(u)' = (IF Lost(u)' THEN "lost" ELSE "whole")
      BY <2>3 DEF StageOf, Linked
    <3>4. QED
      BY <3>1, <3>2, <3>3
  <2>4. QED
    BY <2>2, <2>3
<1>2. V \in SUBSET Versions /\ \A u \in V : StageOf(u) = "whole"
  OBVIOUS
<1> HIDE DEF V
<1>3. QED
  BY <1>1, <1>2, HistoryLose

LEMMA RetentionHistory ==
    ASSUME VersionsInv, RetentionStep
    PROVE  [History!Next]_(<<[v \in Versions |-> StageOf(v)], owner, pointer, reading,
                             [k \in Readers |-> AnswerTo(k)]>>)
<1> DEFINE Step == [History!Next]_(<<[v \in Versions |-> StageOf(v)], owner, pointer,
                                     reading, [k \in Readers |-> AnswerTo(k)]>>)
<1> SUFFICES Step
  OBVIOUS
<1>0. /\ TypeOK /\ PointerIsActive
      /\ \A u \in Versions : GraphInv(u)
  BY DEF VersionsInv
<1>1. ASSUME NEW v \in Versions, NEW S \in SUBSET Parts, Expire(v, S) PROVE Step
  <2>1. \A u \in Versions : \A p \in Parts :
           life'[u][p] = life[u][p] \/ life'[u][p] # "ready"
    BY <1>0, <1>1 DEF Expire, TypeOK
  <2>2. QED
    BY <1>1, <2>1, PartsLost DEF Expire
<1>2. ASSUME NEW r \in Runs, ExpireSource(r) PROVE Step
  BY <1>2, HistoryStutters DEF ExpireSource
<1>3. ASSUME NEW R, Claim(R) PROVE Step
  <2>1. \A u \in Versions : \A p \in Parts :
           life'[u][p] = life[u][p] \/ life'[u][p] # "ready"
    BY <1>3 DEF Claim
  <2>2. QED
    BY <1>3, <2>1, PartsLost DEF Claim
<1>4. ASSUME NEW v \in Versions, NEW p \in Parts, Seal(v, p) PROVE Step
  <2>1. /\ life[v][p] = "pending"
        /\ life'  = [life EXCEPT ![v][p] = "purged"]
        /\ UNCHANGED <<owner, readerVars>>
    BY <1>4 DEF Seal
  <2>2. \A u \in Versions : \A q \in Parts :
           life'[u][q] = life[u][q] \/ life'[u][q] # "ready"
    BY <1>0, <2>1 DEF TypeOK
  <2>3. CASE bound[v] = {p}
    <3>1. status[v] \in Linked
      BY <1>0, <2>3 DEF GraphInv
    <3>2. StageOf(v) = "lost"
      BY <2>1, <3>1 DEF StageOf, Lost, Linked
    <3>3. /\ status' = [status EXCEPT ![v] = "PURGED"]
          /\ pointer' = IF pointer = v THEN Nothing ELSE pointer
      BY <1>4, <2>3 DEF Seal
    <3>4. StageOf(v)' = "gone"
      BY <1>0, <3>3 DEF StageOf, TypeOK
    <3>5. ASSUME NEW u \in Versions, u # v PROVE StageOf(u)' = StageOf(u)
      <4>1. status'[u] = status[u] /\ \A q \in Parts : life'[u][q] = life[u][q]
        BY <1>0, <2>1, <3>3, <3>5 DEF TypeOK
      <4>2. QED
        BY <1>0, <4>1, StageKept DEF TypeOK
    <3>6. \A u \in Versions : StageOf(u)' = IF u = v THEN "gone" ELSE StageOf(u)
      BY <3>4, <3>5
    <3>7. QED
      BY <2>1, <3>2, <3>3, <3>6, HistoryForget
  <2>4. CASE bound[v] # {p}
    <3>1. UNCHANGED <<status, pointer>>
      BY <1>0, <1>4, <2>4 DEF Seal, TypeOK
    <3>2. QED
      BY <2>1, <2>2, <3>1, PartsLost
  <2>5. QED
    BY <2>3, <2>4
<1>5. QED
  BY <1>1, <1>2, <1>3, <1>4 DEF RetentionStep

LEMMA ReaderHistory ==
    ASSUME VersionsInv, VersionsInv', HistoryInv, NEW k \in Readers, ReaderStep(k)
    PROVE  [History!Next]_(<<[v \in Versions |-> StageOf(v)], owner, pointer, reading,
                             [j \in Readers |-> AnswerTo(j)]>>)
<1> DEFINE Step == [History!Next]_(<<[v \in Versions |-> StageOf(v)], owner, pointer,
                                     reading, [j \in Readers |-> AnswerTo(j)]>>)
<1> SUFFICES Step
  OBVIOUS
<1>0. TypeOK /\ ReaderInv(k) /\ ReaderInv(k)' /\ UNCHANGED graphVars
  BY DEF VersionsInv, ReaderStep, ReadActive, OpenManifest, ListChunks, ReadChunk,
     Validated
<1>1. ASSUME NEW j \in Readers, j # k PROVE AnswerTo(j)' = AnswerTo(j)
  <2>1. rpc'[j] = rpc[j] /\ got'[j] = got[j]
    BY <1>0, <1>1 DEF ReaderStep, ReadActive, OpenManifest, ListChunks, ReadChunk,
       Validated, TypeOK
  <2>2. QED
    BY <2>1 DEF AnswerTo
<1>2. CASE ReadActive(k)
  <2>1. rpc[k] = "idle" /\ rpc'[k] = "manifest"
    BY <1>0, <1>2 DEF ReadActive, TypeOK
  <2>2. AnswerTo(k)' = AnswerTo(k)
    BY <2>1 DEF AnswerTo
  <2>3. reading[k] = Nothing /\ pointer # Nothing
        /\ reading' = [reading EXCEPT ![k] = pointer]
    BY <1>2, <2>1 DEF ReadActive, HistoryInv
  <2>4. QED
    BY <1>0, <1>1, <2>2, <2>3, HistoryAsk
<1>3. CASE ~ReadActive(k)
  <2>1. /\ rpc[k] \in {"manifest", "listing", "chunks"}
        /\ \/ rpc'[k] \in {"listing", "chunks", "failed"}
           \/ rpc'[k] = "read" /\ got'[k] = Parts
        /\ reading' = reading
    <3>1. CASE OpenManifest(k)
      BY <1>0, <3>1 DEF OpenManifest, TypeOK
    <3>2. CASE ListChunks(k)
      BY <1>0, <3>2 DEF ListChunks, TypeOK
    <3>3. ASSUME NEW p \in Chunks, ReadChunk(k, p)
          PROVE /\ rpc[k] = "chunks" /\ rpc'[k] \in {"chunks", "failed"}
                /\ reading' = reading
      BY <1>0, <3>3 DEF ReadChunk, TypeOK
    <3>4. CASE Validated(k)
      BY <1>0, <3>4 DEF Validated, TypeOK
    <3>5. QED
      BY <1>3, <3>1, <3>2, <3>3, <3>4 DEF ReaderStep
  <2>2. reading[k] \in Versions /\ AnswerTo(k) = "none"
    BY <1>0, <2>1 DEF ReaderInv, TypeOK, AnswerTo
  <2>3. CASE rpc'[k] \in {"listing", "chunks"}
    <3>1. AnswerTo(k)' = AnswerTo(k)
      BY <2>2, <2>3 DEF AnswerTo
    <3>2. [j \in Readers |-> AnswerTo(j)]' = [j \in Readers |-> AnswerTo(j)]
      BY <1>1, <3>1
    <3>3. [v \in Versions |-> StageOf(v)]' = [v \in Versions |-> StageOf(v)]
      BY <1>0 DEF StageOf, Lost, graphVars
    <3>4. QED
      BY <1>0, <2>1, <3>2, <3>3 DEF graphVars
  <2>4. CASE rpc'[k] = "failed"
    <3>1. AnswerTo(k)' = "refused"
      BY <2>4 DEF AnswerTo
    <3>2. Lost(reading[k])
      BY <1>0, <2>1, <2>4 DEF ReaderInv, Lost, graphVars
    <3>3. StageOf(reading[k]) # "whole"
      BY <3>2 DEF StageOf
    <3>4. QED
      BY <1>0, <1>1, <2>1, <2>2, <3>1, <3>3, HistoryTell
  <2>5. CASE rpc'[k] = "read" /\ got'[k] = Parts
    <3>1. AnswerTo(k)' = "whole"
      BY <2>5 DEF AnswerTo
    <3>2. QED
      BY <1>0, <1>1, <2>1, <2>2, <3>1, HistoryTell
  <2>6. QED
    BY <2>1, <2>3, <2>4, <2>5
<1>4. QED
  BY <1>2, <1>3

\* The versions of a document are the history that VersionHistory promises.
THEOREM VersionsImplementHistory == Spec => ImplementsHistory
<1>1. Init => HistoryInv /\ History!Init
  BY DEF Init, HistoryInv, History!Init, StageOf, AnswerTo, History!Versions, Versions
<1>2. VersionsInv /\ HistoryInv /\ [Next]_vars => HistoryInv'
  BY HistoryInvStep
<1>3. ASSUME VersionsInv, VersionsInv', HistoryInv, [Next]_vars
      PROVE [History!Next]_(<<[v \in Versions |-> StageOf(v)], owner, pointer, reading,
                              [k \in Readers |-> AnswerTo(k)]>>)
  <2>1. CASE UNCHANGED vars
    BY <2>1, HistoryStutters DEF vars, graphVars, readerVars
  <2>2. CASE RetentionStep
    BY <1>3, <2>2, RetentionHistory
  <2>3. ASSUME NEW a \in Actors, ActorStep(a)
        PROVE [History!Next]_(<<[v \in Versions |-> StageOf(v)], owner, pointer, reading,
                                [k \in Readers |-> AnswerTo(k)]>>)
    BY <1>3, <2>3, ActorHistory
  <2>4. ASSUME NEW k \in Readers, ReaderStep(k)
        PROVE [History!Next]_(<<[v \in Versions |-> StageOf(v)], owner, pointer, reading,
                                [j \in Readers |-> AnswerTo(j)]>>)
    BY <1>3, <2>4, ReaderHistory
  <2>5. QED
    BY <1>3, <2>1, <2>2, <2>3, <2>4 DEF Next
<1>4. QED
  BY <1>1, <1>2, <1>3, VersionsAlwaysConsistent, PTL DEF Spec, ImplementsHistory,
     History!Spec

-----------------------------------------------------------------------------
(* The parts of the versions as keys of the artifact store. *)

PhaseIn(l) == CASE l = "absent" -> "new"
                [] l = "ready"  -> "served"
                [] l = "purged" -> "gone"
                [] OTHER        -> "withdrawn"

KeyPhase(k)  == PhaseIn(life[k[1]][k[2]])
KeyServed(k) == IF life[k[1]][k[2]] = "ready" THEN k[1] ELSE Nothing

PhasesNow == [k \in Artifacts |-> KeyPhase(k)]
ServedNow == [k \in Artifacts |-> KeyServed(k)]

\* A step that leaves every part in its phase, as it stores, binds, moves or reads.
LEMMA PartsStay ==
    ASSUME \A v \in Versions, p \in Parts :
              life'[v][p] = life[v][p] \/ {life[v][p], life'[v][p]} \subseteq {"expired", "marked", "pending"}
    PROVE  PhasesNow' = PhasesNow /\ ServedNow' = ServedNow
<1>1. ASSUME NEW k \in Artifacts
      PROVE KeyPhase(k)' = KeyPhase(k) /\ KeyServed(k)' = KeyServed(k)
  <2>1. k[1] \in Versions /\ k[2] \in Parts
    BY DEF Artifacts
  <2>2. \/ life'[k[1]][k[2]] = life[k[1]][k[2]]
        \/ {life[k[1]][k[2]], life'[k[1]][k[2]]} \subseteq {"expired", "marked", "pending"}
    BY <2>1
  <2>3. QED
    BY <2>2 DEF KeyPhase, KeyServed, PhaseIn
<1>2. QED
  BY <1>1 DEF PhasesNow, ServedNow

\* Parts of one version that are stored together are published together.
LEMMA PartsPublished ==
    ASSUME TypeOK, NEW v \in Versions, NEW S \in SUBSET Parts,
           \A p \in S : life[v][p] = "absent",
           \A u \in Versions, p \in Parts :
              life'[u][p] = IF u = v /\ p \in S THEN "ready" ELSE life[u][p]
    PROVE  \E K \in SUBSET Artifacts :
              /\ \A k \in K : PhasesNow[k] = "new"
              /\ PhasesNow' = [k \in Artifacts |-> IF k \in K THEN "served" ELSE PhasesNow[k]]
              /\ ServedNow' = [k \in Artifacts |-> IF k \in K THEN v ELSE ServedNow[k]]
<1> DEFINE K == {k \in Artifacts : k[1] = v /\ k[2] \in S}
<1>1. ASSUME NEW k \in Artifacts
      PROVE /\ k \in K => KeyPhase(k) = "new"
            /\ KeyPhase(k)' = IF k \in K THEN "served" ELSE KeyPhase(k)
            /\ KeyServed(k)' = IF k \in K THEN v ELSE KeyServed(k)
  <2>1. k[1] \in Versions /\ k[2] \in Parts
    BY DEF Artifacts
  <2>2. life'[k[1]][k[2]] = IF k[1] = v /\ k[2] \in S THEN "ready" ELSE life[k[1]][k[2]]
    BY <2>1
  <2>3. CASE k \in K
    BY <2>2, <2>3 DEF KeyPhase, KeyServed, PhaseIn
  <2>4. CASE k \notin K
    BY <2>2, <2>4 DEF KeyPhase, KeyServed
  <2>5. QED
    BY <2>3, <2>4
<1>2. K \in SUBSET Artifacts /\ \A k \in K : PhasesNow[k] = "new"
  BY <1>1 DEF PhasesNow
<1>3. PhasesNow' = [k \in Artifacts |-> IF k \in K THEN "served" ELSE PhasesNow[k]]
  BY <1>1 DEF PhasesNow
<1>4. ServedNow' = [k \in Artifacts |-> IF k \in K THEN v ELSE ServedNow[k]]
  BY <1>1 DEF ServedNow
<1>5. QED
  BY <1>2, <1>3, <1>4

\* Whatever else becomes of served parts, in one step, is their withdrawal.
LEMMA PartsWithdrawn ==
    ASSUME \A v \in Versions, p \in Parts :
              \/ life'[v][p] = life[v][p]
              \/ life[v][p] \in {"ready", "expired", "marked", "pending"}
                 /\ life'[v][p] \in {"expired", "marked", "pending"}
    PROVE  \E K \in SUBSET Artifacts :
              /\ \A k \in K : PhasesNow[k] = "served"
              /\ PhasesNow' = [k \in Artifacts |-> IF k \in K THEN "withdrawn" ELSE PhasesNow[k]]
              /\ ServedNow' = [k \in Artifacts |-> IF k \in K THEN Nothing ELSE ServedNow[k]]
<1> DEFINE K == {k \in Artifacts : life[k[1]][k[2]] = "ready" /\ life'[k[1]][k[2]] # "ready"}
<1>1. ASSUME NEW k \in Artifacts
      PROVE /\ k \in K => KeyPhase(k) = "served"
            /\ KeyPhase(k)' = IF k \in K THEN "withdrawn" ELSE KeyPhase(k)
            /\ KeyServed(k)' = IF k \in K THEN Nothing ELSE KeyServed(k)
  <2>1. k[1] \in Versions /\ k[2] \in Parts
    BY DEF Artifacts
  <2>2. \/ life'[k[1]][k[2]] = life[k[1]][k[2]]
        \/ /\ life[k[1]][k[2]] \in {"ready", "expired", "marked", "pending"}
           /\ life'[k[1]][k[2]] \in {"expired", "marked", "pending"}
    BY <2>1
  <2>3. CASE k \in K
    BY <2>2, <2>3 DEF KeyPhase, KeyServed, PhaseIn
  <2>4. CASE k \notin K
    BY <2>2, <2>4 DEF KeyPhase, KeyServed, PhaseIn
  <2>5. QED
    BY <2>3, <2>4
<1>2. K \in SUBSET Artifacts /\ \A k \in K : PhasesNow[k] = "served"
  BY <1>1 DEF PhasesNow
<1>3. PhasesNow' = [k \in Artifacts |-> IF k \in K THEN "withdrawn" ELSE PhasesNow[k]]
  BY <1>1 DEF PhasesNow
<1>4. ServedNow' = [k \in Artifacts |-> IF k \in K THEN Nothing ELSE ServedNow[k]]
  BY <1>1 DEF ServedNow
<1>5. QED
  BY <1>2, <1>3, <1>4

\* Parts are forgotten, one by a purge or several by an abort, only once withdrawn.
LEMMA PartsForgotten ==
    ASSUME \A v \in Versions, p \in Parts :
              \/ life'[v][p] = life[v][p]
              \/ life[v][p] \in {"expired", "marked", "pending"} /\ life'[v][p] = "purged"
    PROVE  \E K \in SUBSET Artifacts :
              /\ \A k \in K : PhasesNow[k] = "withdrawn"
              /\ PhasesNow' = [k \in Artifacts |-> IF k \in K THEN "gone" ELSE PhasesNow[k]]
              /\ ServedNow' = ServedNow
<1> DEFINE K == {k \in Artifacts : life'[k[1]][k[2]] # life[k[1]][k[2]]}
<1>1. ASSUME NEW k \in Artifacts
      PROVE /\ k \in K => KeyPhase(k) = "withdrawn"
            /\ KeyPhase(k)' = IF k \in K THEN "gone" ELSE KeyPhase(k)
            /\ KeyServed(k)' = KeyServed(k)
  <2>1. k[1] \in Versions /\ k[2] \in Parts
    BY DEF Artifacts
  <2>2. \/ life'[k[1]][k[2]] = life[k[1]][k[2]]
        \/ /\ life[k[1]][k[2]] \in {"expired", "marked", "pending"}
           /\ life'[k[1]][k[2]] = "purged"
    BY <2>1
  <2>3. CASE k \in K
    BY <2>2, <2>3 DEF KeyPhase, KeyServed, PhaseIn
  <2>4. CASE k \notin K
    BY <2>2, <2>4 DEF KeyPhase, KeyServed, PhaseIn
  <2>5. QED
    BY <2>3, <2>4
<1>2. K \in SUBSET Artifacts /\ \A k \in K : PhasesNow[k] = "withdrawn"
  BY <1>1 DEF PhasesNow
<1>3. PhasesNow' = [k \in Artifacts |-> IF k \in K THEN "gone" ELSE PhasesNow[k]]
  BY <1>1 DEF PhasesNow
<1>4. ServedNow' = ServedNow
  BY <1>1 DEF ServedNow
<1>5. QED
  BY <1>2, <1>3, <1>4

\* The four ways in which a step may treat the parts.
MapSteps ==
    \/ UNCHANGED <<PhasesNow, ServedNow>>
    \/ \E K \in SUBSET Artifacts, v \in Versions :
          /\ \A k \in K : PhasesNow[k] = "new"
          /\ PhasesNow' = [k \in Artifacts |-> IF k \in K THEN "served" ELSE PhasesNow[k]]
          /\ ServedNow' = [k \in Artifacts |-> IF k \in K THEN v ELSE ServedNow[k]]
    \/ \E K \in SUBSET Artifacts :
          /\ \A k \in K : PhasesNow[k] = "served"
          /\ PhasesNow' = [k \in Artifacts |-> IF k \in K THEN "withdrawn" ELSE PhasesNow[k]]
          /\ ServedNow' = [k \in Artifacts |-> IF k \in K THEN Nothing ELSE ServedNow[k]]
    \/ \E K \in SUBSET Artifacts :
          /\ \A k \in K : PhasesNow[k] = "withdrawn"
          /\ PhasesNow' = [k \in Artifacts |-> IF k \in K THEN "gone" ELSE PhasesNow[k]]
          /\ ServedNow' = ServedNow

LEMMA ActorParts ==
    ASSUME VersionsInv, NEW a \in Actors, ActorStep(a)
    PROVE  MapSteps
<1> DEFINE v == target[a]
<1>0. TypeOK /\ ActorInv(a)
  BY DEF VersionsInv
<1>t. pc[a] \in {"storing", "aborting", "sealing"} => v \in Versions
  BY <1>0 DEF ActorInv, TypeOK
<1>1. CASE life' = life
  <2>1. \A u \in Versions, p \in Parts : life'[u][p] = life[u][p]
    BY <1>1
  <2>2. QED
    BY <2>1, PartsStay DEF MapSteps
<1>2. CASE StoreGraph(a) /\ life' # life
  <2>1. v \in Versions /\ \A p \in Parts : life[v][p] = "absent"
    BY <1>t, <1>2 DEF StoreGraph
  <2>2. \A u \in Versions, p \in Parts :
           life'[u][p] = IF u = v /\ p \in Parts THEN "ready" ELSE life[u][p]
    BY <1>0, <1>2, <2>1 DEF StoreGraph, TypeOK
  <2>3. \E K \in SUBSET Artifacts :
           /\ \A k \in K : PhasesNow[k] = "new"
           /\ PhasesNow' = [k \in Artifacts |-> IF k \in K THEN "served" ELSE PhasesNow[k]]
           /\ ServedNow' = [k \in Artifacts |-> IF k \in K THEN v ELSE ServedNow[k]]
    <3> HIDE DEF v
    <3>1. QED
      BY <1>0, <2>1, <2>2, PartsPublished
  <2>4. QED
    BY <2>1, <2>3 DEF MapSteps
<1>3. ASSUME NEW q \in Parts, StorePart(a, q) PROVE MapSteps
  <2>1. v \in Versions /\ life[v][q] \in {"absent", "ready"}
    BY <1>t, <1>3 DEF StorePart
  <2>2. \A u \in Versions, p \in Parts :
           life'[u][p] = IF u = v /\ p = q THEN "ready" ELSE life[u][p]
    BY <1>0, <1>3, <2>1 DEF StorePart, TypeOK
  <2>3. CASE life[v][q] = "ready"
    <3>1. \A u \in Versions, p \in Parts : life'[u][p] = life[u][p]
      BY <2>2, <2>3
    <3>2. QED
      BY <3>1, PartsStay DEF MapSteps
  <2>4. CASE life[v][q] = "absent"
    <3> DEFINE S == {q}
    <3>1. \A u \in Versions, p \in Parts :
             life'[u][p] = IF u = v /\ p \in S THEN "ready" ELSE life[u][p]
      BY <2>2
    <3>2. S \in SUBSET Parts /\ \A p \in S : life[v][p] = "absent"
      BY <2>4
    <3>3. \E K \in SUBSET Artifacts :
             /\ \A k \in K : PhasesNow[k] = "new"
             /\ PhasesNow' = [k \in Artifacts |-> IF k \in K THEN "served" ELSE PhasesNow[k]]
             /\ ServedNow' = [k \in Artifacts |-> IF k \in K THEN v ELSE ServedNow[k]]
      <4> HIDE DEF S, v
      <4>1. QED
        BY <1>0, <2>1, <3>1, <3>2, PartsPublished
    <3>4. QED
      BY <2>1, <3>3 DEF MapSteps
  <2>5. QED
    BY <2>1, <2>3, <2>4
<1>4. CASE AbortMark(a) /\ life' # life
  <2>1. v \in Versions /\ \A p \in written[a] : life[v][p] = "ready"
    BY <1>t, <1>4 DEF AbortMark
  <2>2. \A u \in Versions, p \in Parts :
           life'[u][p] = IF u = v /\ p \in written[a] THEN "marked" ELSE life[u][p]
    BY <1>0, <1>4, <2>1 DEF AbortMark, TypeOK
  <2>3. \A u \in Versions, p \in Parts :
           \/ life'[u][p] = life[u][p]
           \/ life[u][p] \in {"ready", "expired", "marked", "pending"}
              /\ life'[u][p] \in {"expired", "marked", "pending"}
    BY <2>1, <2>2
  <2>4. QED
    BY <2>3, PartsWithdrawn DEF MapSteps
<1>5. CASE AbortSeal(a)
  <2>1. v \in Versions
    BY <1>t, <1>5 DEF AbortSeal
  <2>2. \A u \in Versions, p \in Parts :
           life'[u][p] = IF u = v /\ p \in written[a] /\ life[v][p] \in {"marked", "pending"}
                         THEN "purged" ELSE life[u][p]
    BY <1>0, <1>5, <2>1 DEF AbortSeal, TypeOK
  <2>3. \A u \in Versions, p \in Parts :
           \/ life'[u][p] = life[u][p]
           \/ life[u][p] \in {"expired", "marked", "pending"} /\ life'[u][p] = "purged"
    BY <2>2
  <2>4. QED
    BY <2>3, PartsForgotten DEF MapSteps
<1>6. QED
  BY <1>1, <1>2, <1>3, <1>4, <1>5
  DEF ActorStep, SeeBase, Finalize, PublishFails, Crash, SeePrevious, Activate, Reserve,
      Resume, Select, AskRollback, graphVars

LEMMA RetentionParts ==
    ASSUME VersionsInv, RetentionStep
    PROVE  MapSteps
<1>0. TypeOK
  BY DEF VersionsInv
<1>1. ASSUME NEW v \in Versions, NEW S \in SUBSET Parts, Expire(v, S) PROVE MapSteps
  <2>1. \A u \in Versions, p \in Parts :
           life'[u][p] = IF u = v /\ p \in S THEN "expired" ELSE life[u][p]
    BY <1>0, <1>1 DEF Expire, TypeOK
  <2>2. \A u \in Versions, p \in Parts :
           \/ life'[u][p] = life[u][p]
           \/ life[u][p] \in {"ready", "expired", "marked", "pending"}
              /\ life'[u][p] \in {"expired", "marked", "pending"}
    BY <1>1, <2>1 DEF Expire
  <2>3. QED
    BY <2>2, PartsWithdrawn DEF MapSteps
<1>2. ASSUME NEW r \in Runs, ExpireSource(r) PROVE MapSteps
  <2>1. \A u \in Versions, p \in Parts : life'[u][p] = life[u][p]
    BY <1>2 DEF ExpireSource, graphVars
  <2>2. QED
    BY <2>1, PartsStay DEF MapSteps
<1>3. ASSUME NEW R, Claim(R) PROVE MapSteps
  <2>1. \A u \in Versions, p \in Parts :
           \/ life'[u][p] = life[u][p]
           \/ life[u][p] \in {"ready", "expired", "marked", "pending"}
              /\ life'[u][p] \in {"expired", "marked", "pending"}
    BY <1>3 DEF Claim
  <2>2. QED
    BY <2>1, PartsWithdrawn DEF MapSteps
<1>4. ASSUME NEW v \in Versions, NEW q \in Parts, Seal(v, q) PROVE MapSteps
  <2>1. life[v][q] = "pending" /\ life' = [life EXCEPT ![v][q] = "purged"]
    BY <1>4 DEF Seal
  <2>2. \A u \in Versions, p \in Parts :
           \/ life'[u][p] = life[u][p]
           \/ life[u][p] \in {"expired", "marked", "pending"} /\ life'[u][p] = "purged"
    BY <1>0, <2>1 DEF TypeOK
  <2>3. QED
    BY <2>2, PartsForgotten DEF MapSteps
<1>5. QED
  BY <1>1, <1>2, <1>3, <1>4 DEF RetentionStep

\* The versions take their artifacts for no more than the artifact store is proved
\* to give (StoreImplementsMap): whatever actors, aborts and purges do to the parts,
\* each is published once and, once withdrawn, never served again.
THEOREM VersionsUseMap == Spec => UsesMap
<1>1. Init => Store!Init
  BY DEF Init, Store!Init, Artifacts
<1>2. ASSUME VersionsInv, [Next]_vars
      PROVE [Store!Next]_<<PhasesNow, ServedNow>>
  <2>1. MapSteps
    <3>1. CASE life' = life
      <4>1. \A u \in Versions, p \in Parts : life'[u][p] = life[u][p]
        BY <3>1
      <4>2. QED
        BY <4>1, PartsStay DEF MapSteps
    <3>2. ASSUME NEW k \in Readers, ReaderStep(k) PROVE life' = life
      BY <3>2 DEF ReaderStep, ReadActive, OpenManifest, ListChunks, ReadChunk, Validated,
         graphVars
    <3>3. QED
      BY <1>2, <3>1, <3>2, ActorParts, RetentionParts DEF Next, vars
  <2>2. ASSUME NEW K \in SUBSET Artifacts, NEW v \in Versions,
               \A k \in K : PhasesNow[k] = "new",
               PhasesNow' = [k \in Artifacts |-> IF k \in K THEN "served" ELSE PhasesNow[k]],
               ServedNow' = [k \in Artifacts |-> IF k \in K THEN v ELSE ServedNow[k]]
        PROVE  Store!Publish(K, v)
    BY <2>2 DEF Store!Publish, PhasesNow, ServedNow, KeyPhase, KeyServed, PhaseIn
  <2>3. ASSUME NEW K \in SUBSET Artifacts,
               \A k \in K : PhasesNow[k] = "served",
               PhasesNow' = [k \in Artifacts |-> IF k \in K THEN "withdrawn" ELSE PhasesNow[k]],
               ServedNow' = [k \in Artifacts |-> IF k \in K THEN Nothing ELSE ServedNow[k]]
        PROVE  Store!Withdraw(K)
    BY <2>3 DEF Store!Withdraw, PhasesNow, ServedNow, KeyPhase, KeyServed, PhaseIn
  <2>4. ASSUME NEW K \in SUBSET Artifacts,
               \A k \in K : PhasesNow[k] = "withdrawn",
               PhasesNow' = [k \in Artifacts |-> IF k \in K THEN "gone" ELSE PhasesNow[k]],
               ServedNow' = ServedNow
        PROVE  Store!Forget(K)
    BY <2>4 DEF Store!Forget, PhasesNow, ServedNow, KeyPhase, KeyServed, PhaseIn
  <2>5. CASE UNCHANGED <<PhasesNow, ServedNow>>
    BY <2>5
  <2>6. CASE ~UNCHANGED <<PhasesNow, ServedNow>>
    BY <2>1, <2>2, <2>3, <2>4, <2>6 DEF MapSteps, Store!Next
  <2>7. QED
    BY <2>5, <2>6
<1>3. QED
  BY <1>1, <1>2, VersionsAlwaysConsistent, PTL
  DEF Spec, UsesMap, Store!Spec, PhasesNow, ServedNow, KeyPhase, KeyServed, PhaseIn
=============================================================================
