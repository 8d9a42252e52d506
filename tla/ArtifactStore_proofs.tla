------------------------- MODULE ArtifactStore_proofs -------------------------
(***************************************************************************)
(* The invariant of the artifact store, and that it implements ArtifactMap. *)
(***************************************************************************)
EXTENDS ArtifactStore, TLAPS

\* Every step of the store keeps the invariant.
LEMMA StoreStep == StoreInv /\ [Next]_vars => StoreInv'
<1> SUFFICES ASSUME StoreInv, [Next]_vars PROVE StoreInv'
  OBVIOUS
<1> USE NothingIsNoContent, TornIsNoContent, NothingIsNoClaim, ScopesAreOfIds
<1> USE DEF StoreInv, TypeOK, RowHasPayload, FilesAreOwned,
            OrphansAreFiles, PutInv, FileInv, PurgeInv, Lives, rowVars, putVars, claimVars
<1>1. ASSUME NEW w \in Writers, NEW S \in SUBSET Ids, NEW x \in Contents,
             BeginPut(w, S, x)
      PROVE StoreInv'
  <2> USE <1>1 DEF BeginPut
  <2>1. TypeOK' /\ RowHasPayload' /\ FilesAreOwned' /\ OrphansAreFiles'
    OBVIOUS
  <2>2. ASSUME NEW v \in Writers PROVE PutInv(v)'
    BY <2>1
  <2>3. ASSUME NEW a \in Ids PROVE FileInv(a)'
    BY <2>1
  <2>4. ASSUME NEW c \in Claims PROVE PurgeInv(c)'
    BY <2>1
  <2>5. QED
    BY <2>1, <2>2, <2>3, <2>4
<1>2. ASSUME NEW w \in Writers, NEW a \in Ids, MatchExisting(w, a)
      PROVE StoreInv'
  BY <1>2, SMTT(20) DEF MatchExisting
<1>3. ASSUME NEW w \in Writers, NEW a \in Ids, WritePayload(w, a)
      PROVE StoreInv'
  <2> USE <1>3 DEF WritePayload
  <2>1. CASE file[a] = Nothing
    <3> USE <2>1
    <3>1. /\ file' = [file EXCEPT ![a] = content[w]]
          /\ created' = [created EXCEPT ![w] = @ \cup {a}]
          /\ todo' = [todo EXCEPT ![w] = @ \ {a}]
          /\ content[w] \in Contents
      OBVIOUS
    <3>2. TypeOK' /\ RowHasPayload'
      BY <3>1
    <3>3. FilesAreOwned' /\ OrphansAreFiles'
      BY <3>1
    <3>4. ASSUME NEW v \in Writers PROVE PutInv(v)'
      <4>1. CASE v = w
        BY <3>1, <4>1
      <4>2. CASE v # w
        BY <3>1, <4>2
      <4>3. QED
        BY <4>1, <4>2
    <3>5. ASSUME NEW b \in Ids PROVE FileInv(b)'
      <4>1. ASSUME NEW v \in Writers PROVE life[a] = "absent" => a \notin created[v]
        BY <2>1
      <4>2. life[a] \notin {"ready", "expired"}
        BY <2>1
      <4>3. CASE b = a
        BY <3>1, <4>1, <4>2, <4>3
      <4>4. CASE b # a
        BY <3>1, <4>4
      <4>5. QED
        BY <4>3, <4>4
    <3>6. ASSUME NEW c \in Claims PROVE PurgeInv(c)'
      BY <3>1
    <3>7. QED
      BY <3>2, <3>3, <3>4, <3>5, <3>6
  <2>2. CASE file[a] # Nothing
    BY <2>2, SMTT(20)
  <2>3. QED
    BY <2>1, <2>2
<1>4. ASSUME NEW w \in Writers, NEW a \in Ids, WriteFails(w, a)
      PROVE StoreInv'
  BY <1>4 DEF WriteFails
<1>5. ASSUME NEW w \in Writers, InsertRows(w)
      PROVE StoreInv'
  <2> USE <1>5 DEF InsertRows, Ended
  <2>1. TypeOK'
    OBVIOUS
  <2>2. RowHasPayload'
    OBVIOUS
  <2>3. FilesAreOwned' /\ OrphansAreFiles'
    OBVIOUS
  <2>4. ASSUME NEW v \in Writers PROVE PutInv(v)'
    OBVIOUS
  <2>5. ASSUME NEW b \in Ids PROVE FileInv(b)'
    OBVIOUS
  <2>6. ASSUME NEW c \in Claims PROVE PurgeInv(c)'
    OBVIOUS
  <2>7. QED
    BY <2>1, <2>2, <2>3, <2>4, <2>5, <2>6
<1>6. ASSUME NEW w \in Writers, PutFails(w)
      PROVE StoreInv'
  BY <1>6 DEF PutFails
<1>7. ASSUME NEW w \in Writers, CleanUp(w)
      PROVE StoreInv'
  <2> USE <1>7 DEF CleanUp, Ended
  <2>1. ASSUME created[w] = {}, Ended(w), UNCHANGED <<file, created, orphan>>
        PROVE StoreInv'
    <3>1. TypeOK' /\ RowHasPayload' /\ FilesAreOwned' /\ OrphansAreFiles'
      BY <2>1
    <3>2. ASSUME NEW v \in Writers PROVE PutInv(v)'
      BY <2>1
    <3>3. ASSUME NEW b \in Ids PROVE FileInv(b)'
      BY <2>1
    <3>4. ASSUME NEW c \in Claims PROVE PurgeInv(c)'
      BY <2>1
    <3>5. QED
      BY <3>1, <3>2, <3>3, <3>4
  <2>2. ASSUME NEW a \in created[w], file' = [file EXCEPT ![a] = Nothing],
               orphan' = orphan \ {a},
               created' = [created EXCEPT ![w] = @ \ {a}],
               UNCHANGED <<wpc, content, batch, known, todo>>
        PROVE StoreInv'
    <3>1. TypeOK' /\ RowHasPayload' /\ FilesAreOwned' /\ OrphansAreFiles'
      BY <2>2
    <3>2. ASSUME NEW v \in Writers PROVE PutInv(v)'
      BY <2>2
    <3>3. ASSUME NEW b \in Ids PROVE FileInv(b)'
      BY <2>2
    <3>4. ASSUME NEW c \in Claims PROVE PurgeInv(c)'
      BY <2>2
    <3>5. QED
      BY <3>1, <3>2, <3>3, <3>4
  <2>3. ASSUME NEW a \in created[w], file[a] # Nothing, file' = file,
               orphan' = orphan \cup {a},
               created' = [created EXCEPT ![w] = @ \ {a}],
               UNCHANGED <<wpc, content, batch, known, todo>>
        PROVE StoreInv'
    <3>1. TypeOK' /\ RowHasPayload' /\ FilesAreOwned' /\ OrphansAreFiles'
      BY <2>3
    <3>2. ASSUME NEW v \in Writers PROVE PutInv(v)'
      BY <2>3
    <3>3. ASSUME NEW b \in Ids PROVE FileInv(b)'
      BY <2>3
    <3>4. ASSUME NEW c \in Claims PROVE PurgeInv(c)'
      BY <2>3
    <3>5. QED
      BY <3>1, <3>2, <3>3, <3>4
  <2>4. QED
    BY <2>1, <2>2, <2>3
<1>8. ASSUME NEW w \in Writers, WriterDies(w)
      PROVE StoreInv'
  BY <1>8 DEF WriterDies, Ended
<1>9. ASSUME NEW S \in SUBSET Ids, Expire(S)
      PROVE StoreInv'
  BY <1>9 DEF Expire
<1>10. ASSUME NEW c \in Claims, NEW S \in Scopes, ClaimRows(c, S)
       PROVE StoreInv'
  BY <1>10 DEF ClaimRows, Claimable
<1>11. ASSUME NEW c \in Claims, NEW a \in Ids, Unlink(c, a)
       PROVE StoreInv'
  BY <1>11 DEF Unlink
<1>12. ASSUME NEW c \in Claims, SealRow(c)
       PROVE StoreInv'
  BY <1>12 DEF SealRow
<1>13. ASSUME NEW c \in Claims, PurgeFails(c)
       PROVE StoreInv'
  BY <1>13 DEF PurgeFails
<1>14. ASSUME NEW c \in Claims, Release(c)
       PROVE StoreInv'
  BY <1>14 DEF Release
<1>15. ASSUME NEW c \in Claims, PurgeDies(c)
       PROVE StoreInv'
  BY <1>15 DEF PurgeDies
<1>16. CASE UNCHANGED vars
  BY <1>16 DEF vars
<1>17. QED
  BY <1>1, <1>2, <1>3, <1>4, <1>5, <1>6, <1>7, <1>8, <1>9, <1>10, <1>11, <1>12,
     <1>13, <1>14, <1>15, <1>16 DEF Next, PutStep, PurgeStep

\* Files, rows, puts and purges agree after every step, for every number of
\* artifacts, writers and purges.
THEOREM StoreAlwaysConsistent == Spec => []StoreInv
<1>1. Init => StoreInv
  BY NothingIsNoContent, NothingIsNoClaim
  DEF Init, StoreInv, TypeOK, RowHasPayload, FilesAreOwned, OrphansAreFiles, PutInv,
      FileInv, PurgeInv, Lives
<1>2. QED
  BY <1>1, StoreStep, PTL DEF Spec

\* No put or purge, late, failed or dead, takes the payload of a row that is
\* still served or expired, or puts another in its place.
THEOREM RowsKeepTheirPayload == Spec => []RowHasPayload
<1>1. StoreInv => RowHasPayload
  BY DEF StoreInv
<1>2. QED
  BY <1>1, StoreAlwaysConsistent, PTL

\* Every payload file has a row that can still be purged or a put at work behind
\* it, whatever puts and purges overlap; the exceptions are what a death, a write
\* that failed half-way or a clean-up that could not unlink left behind, and they
\* are exceptions only as long as nobody unlinks them (OrphansAreFiles).
THEOREM FilesAlwaysOwned == Spec => [](FilesAreOwned /\ OrphansAreFiles)
<1>1. StoreInv => FilesAreOwned /\ OrphansAreFiles
  BY DEF StoreInv
<1>2. QED
  BY <1>1, StoreAlwaysConsistent, PTL

-----------------------------------------------------------------------------
\* What the readers of the map see.
PhaseOf(a) == CASE life[a] = "absent" -> "new"
                [] life[a] = "ready"  -> "served"
                [] life[a] = "purged" -> "gone"
                [] OTHER              -> "withdrawn"

ServedAt(a) == IF life[a] = "ready" THEN file[a] ELSE Nothing

\* A step that leaves the rows alone does not change what is served, although
\* it may write and remove files.
LEMMA FilesAreBeside ==
    ASSUME StoreInv, StoreInv', life' = life, seal' = seal
    PROVE  /\ [a \in Ids |-> PhaseOf(a)]' = [a \in Ids |-> PhaseOf(a)]
           /\ [a \in Ids |-> ServedAt(a)]' = [a \in Ids |-> ServedAt(a)]
<1>1. ASSUME NEW a \in Ids PROVE ServedAt(a)' = ServedAt(a)
  BY DEF ServedAt, StoreInv, RowHasPayload
<1>2. ASSUME NEW a \in Ids PROVE PhaseOf(a)' = PhaseOf(a)
  BY DEF PhaseOf
<1>3. QED
  BY <1>1, <1>2

\* Every step of the store is a step of the map, or none.
LEMMA MapStep ==
    ASSUME StoreInv, StoreInv', [Next]_vars
    PROVE  [Map!Next]_(<<[a \in Ids |-> PhaseOf(a)], [a \in Ids |-> ServedAt(a)]>>)
<1> DEFINE P == [a \in Ids |-> PhaseOf(a)]
           V == [a \in Ids |-> ServedAt(a)]
<1>0. ASSUME NEW S \in SUBSET Ids, NEW x \in Contents,
             \A a \in S : P[a] = "new",
             P' = [k \in Ids |-> IF k \in S THEN "served" ELSE P[k]],
             V' = [k \in Ids |-> IF k \in S THEN x ELSE V[k]]
      PROVE Map!Next
  BY <1>0 DEF Map!Next, Map!Publish, PhaseOf, ServedAt
<1>1. CASE life' = life /\ seal' = seal
  BY <1>1, FilesAreBeside
<1>2. ASSUME NEW w \in Writers, InsertRows(w)
      PROVE Map!Next
  <2> DEFINE S == batch[w] \ known[w]
  <2>1. S \in SUBSET Ids /\ content[w] \in Contents
    BY <1>2 DEF StoreInv, TypeOK, PutInv, InsertRows
  <2>2. \A a \in Ids : /\ a \in S => life[a] = "absent" /\ life'[a] = "ready"
                              /\ seal'[a] = content[w]
                       /\ a \notin S => life'[a] = life[a]
    BY <1>2 DEF StoreInv, TypeOK, InsertRows
  <2>3. \A a \in S : P[a] = "new"
    BY <2>1, <2>2 DEF PhaseOf
  <2>4. P' = [k \in Ids |-> IF k \in S THEN "served" ELSE P[k]]
    BY <2>2 DEF PhaseOf
  <2>5. V' = [k \in Ids |-> IF k \in S THEN content[w] ELSE V[k]]
    <3>1. ASSUME NEW a \in Ids
          PROVE ServedAt(a)' = IF a \in S THEN content[w] ELSE ServedAt(a)
      BY <2>2, <1>2 DEF ServedAt, StoreInv, RowHasPayload, InsertRows
    <3>2. QED
      BY <3>1
  <2>6. QED
    BY <1>0, <2>1, <2>3, <2>4, <2>5
<1>3. ASSUME NEW S \in SUBSET Ids, \A a \in S : life[a] = "ready",
             \A a \in Ids : life'[a] = life[a] \/ life'[a] \in {"expired", "purge_pending"},
             \A a \in S : life'[a] \in {"expired", "purge_pending"},
             \A a \in Ids \ S : life'[a] # life[a] =>
                 life[a] \in {"expired", "purge_pending"},
             file' = file
      PROVE Map!Next
  <2>1. \A a \in S : P[a] = "served"
    BY <1>3 DEF PhaseOf
  <2>2. P' = [k \in Ids |-> IF k \in S THEN "withdrawn" ELSE P[k]]
    BY <1>3 DEF PhaseOf
  <2>3. V' = [k \in Ids |-> IF k \in S THEN Nothing ELSE V[k]]
    BY <1>3 DEF ServedAt
  <2>4. QED
    BY <2>1, <2>2, <2>3 DEF Map!Next, Map!Withdraw, PhaseOf, ServedAt
<1>4. ASSUME NEW S \in SUBSET Ids, Expire(S)
      PROVE Map!Next
  BY <1>3, <1>4 DEF Expire, StoreInv, TypeOK
<1>5. ASSUME NEW c \in Claims, NEW S \in Scopes, ClaimRows(c, S)
      PROVE Map!Next
  <2> DEFINE R == {a \in S : life[a] = "ready"}
  <2>1. R \in SUBSET Ids /\ \A a \in R : life[a] = "ready"
    BY ScopesAreOfIds
  <2>2. \A a \in R : life'[a] \in {"expired", "purge_pending"}
    BY <1>5, <2>1 DEF ClaimRows, Claimable, StoreInv, TypeOK
  <2>3. \A a \in Ids : life'[a] = life[a] \/ life'[a] \in {"expired", "purge_pending"}
    BY <1>5 DEF ClaimRows, StoreInv, TypeOK
  <2>4. \A a \in Ids \ R : life'[a] # life[a] =>
            life[a] \in {"expired", "purge_pending"}
    BY <1>5 DEF ClaimRows, Claimable, StoreInv, TypeOK
  <2>5. file' = file
    BY <1>5 DEF ClaimRows
  <2>6. QED
    BY <2>1, <2>2, <2>3, <2>4, <2>5, <1>3
<1>6. ASSUME NEW c \in Claims, SealRow(c)
      PROVE Map!Next
  <2>1. at[c] \in Ids /\ life[at[c]] = "purge_pending"
    BY <1>6, NothingIsNoClaim DEF SealRow, StoreInv, TypeOK, PurgeInv
  <2> DEFINE S == {at[c]}
  <2>2. \A a \in S : P[a] = "withdrawn"
    BY <2>1 DEF PhaseOf
  <2>3. P' = [a \in Ids |-> IF a \in S THEN "gone" ELSE P[a]]
    BY <1>6, <2>1 DEF SealRow, PhaseOf, StoreInv, TypeOK
  <2>4. V' = V
    BY <1>6, <2>1 DEF SealRow, ServedAt, StoreInv, TypeOK
  <2>5. S \in SUBSET Ids
    BY <2>1
  <2>6. QED
    BY <2>2, <2>3, <2>4, <2>5 DEF Map!Next, Map!Forget, PhaseOf, ServedAt
<1>7. QED
  BY <1>1, <1>2, <1>4, <1>5, <1>6
  DEF Next, PutStep, PurgeStep, vars, rowVars, BeginPut, MatchExisting, WritePayload,
      WriteFails, PutFails, CleanUp, WriterDies, Unlink, PurgeFails, Release, PurgeDies

\* The store implements the map that is written once: graphs appear whole, what
\* is served never changes, and nothing withdrawn comes back.
THEOREM StoreImplementsMap == Spec => ImplementsMap
<1> USE DEF PhaseOf, ServedAt
<1>1. Init => Map!Init
  BY DEF Init, Map!Init
<1>2. StoreInv /\ StoreInv' /\ [Next]_vars
          => [Map!Next]_(<<[a \in Ids |-> PhaseOf(a)], [a \in Ids |-> ServedAt(a)]>>)
  BY MapStep
<1>3. QED
  BY <1>1, <1>2, StoreAlwaysConsistent, PTL DEF Spec, ImplementsMap, Map!Spec
=============================================================================
