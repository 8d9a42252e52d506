---------------------------- MODULE ArtifactStore ----------------------------
(***************************************************************************)
(* The artifact store: a row of artifact_records in SQLite and, beside it,  *)
(* a payload file named after the artifact's id.  The two are written and   *)
(* removed in separate steps, by several processes, with no lock around     *)
(* both: a put creates its files and then inserts its rows, a purge claims  *)
(* rows, and then for each of them unlinks the file and seals the row.      *)
(*                                                                         *)
(* A Writer is a caller of put_record or put_records_atomic (put_record is  *)
(* a batch of one), a claim is one call of purge_run, purge_case,           *)
(* purge_chat or mark_source_file_deleted.  Each draws a fresh claim id; the *)
(* name of a claim that ended and holds nothing stands for the next one.    *)
(***************************************************************************)
CONSTANTS
    Ids,       \* artifact ids whose payload is kept in a file
    Contents,  \* what a payload may say
    Writers,
    Claims,    \* bound: the claims that are held at a time, dead ones included
    Scopes,    \* the sets of artifacts that share a run, a case or a source file
    Nothing,   \* no file, no row, no claim
    Torn       \* a file whose write did not come to its end

ASSUME NothingIsNoContent == Nothing \notin Contents \cup {Torn}
ASSUME TornIsNoContent    == Torn \notin Contents
ASSUME NothingIsNoClaim   == Nothing \notin Claims
ASSUME ScopesAreOfIds     == Scopes \subseteq SUBSET Ids

VARIABLES
    life,     \* lifecycle_status of the row; purge_status says the same
    seal,     \* checksum_sha256, as the content it is the checksum of
    claim,    \* lifecycle_claim_id
    file,     \* the payload file
    wpc,      \* where the put of a writer is
    content,  \* what it puts
    batch,    \* under which ids
    known,    \* those that had a row when it began
    todo,     \* those it has not yet prepared
    created,  \* the payload files it has made
    orphan,   \* files left behind: by a dead writer, by a write that failed, or
              \* by a clean-up that could not unlink them
    cpc,      \* where the purge of a claim is
    mine,     \* the rows it has claimed and not yet sealed
    at        \* the one it is at

rowVars   == <<life, seal, claim>>
putVars   == <<wpc, content, batch, known, todo, created, orphan>>
claimVars == <<cpc, mine, at>>
vars      == <<life, seal, claim, file, wpc, content, batch, known, todo,
               created, orphan, cpc, mine, at>>

\* "ready" stands for validated, visible_safe and private_ready, and for
\* blocked and privacy_failed, which this store keeps and purges alike.
Lives == {"absent", "ready", "expired", "purge_pending", "purged"}

Init ==
    /\ life    = [a \in Ids |-> "absent"]
    /\ seal    = [a \in Ids |-> Nothing]
    /\ claim   = [a \in Ids |-> Nothing]
    /\ file    = [a \in Ids |-> Nothing]
    /\ wpc     = [w \in Writers |-> "idle"]
    /\ content = [w \in Writers |-> Nothing]
    /\ batch   = [w \in Writers |-> {}]
    /\ known   = [w \in Writers |-> {}]
    /\ todo    = [w \in Writers |-> {}]
    /\ created = [w \in Writers |-> {}]
    /\ orphan  = {}
    /\ cpc     = [c \in Claims |-> "idle"]
    /\ mine    = [c \in Claims |-> {}]
    /\ at      = [c \in Claims |-> Nothing]

-----------------------------------------------------------------------------
(* put_record and put_records_atomic. *)

\* The rows of the batch are read in a transaction of their own.
BeginPut(w, S, x) ==
    /\ wpc[w] = "idle"
    /\ wpc'     = [wpc EXCEPT ![w] = "preparing"]
    /\ content' = [content EXCEPT ![w] = x]
    /\ batch'   = [batch EXCEPT ![w] = S]
    /\ known'   = [known EXCEPT ![w] = {a \in S : life[a] # "absent"}]
    /\ todo'    = [todo EXCEPT ![w] = S]
    /\ UNCHANGED <<rowVars, file, created, orphan, claimVars>>

\* read_payload of the present row, checksum included.
Readable(a) == life[a] = "ready" /\ file[a] = seal[a]

\* An existing record takes part if it is still readable and says the same; a
\* purged one is refused.
MatchExisting(w, a) ==
    /\ wpc[w] = "preparing"
    /\ a \in todo[w] \cap known[w]
    /\ IF Readable(a) /\ seal[a] = content[w]
       THEN /\ todo' = [todo EXCEPT ![w] = @ \ {a}]
            /\ UNCHANGED wpc
       ELSE /\ wpc' = [wpc EXCEPT ![w] = "failed"]
            /\ UNCHANGED todo
    /\ UNCHANGED <<rowVars, file, content, batch, known, created, orphan, claimVars>>

\* Mutant: the payload file is opened without O_EXCL.
OverwritePayload(w, a) ==
    /\ wpc[w] = "preparing"
    /\ a \in todo[w] \ known[w]
    /\ file'    = [file EXCEPT ![a] = content[w]]
    /\ created' = [created EXCEPT ![w] = @ \cup {a}]
    /\ todo'    = [todo EXCEPT ![w] = @ \ {a}]
    /\ UNCHANGED <<rowVars, wpc, content, batch, known, orphan, claimVars>>

\* _write_payload: open with O_CREAT | O_EXCL, write, close.
WritePayload(w, a) ==
    /\ wpc[w] = "preparing"
    /\ a \in todo[w] \ known[w]
    /\ IF file[a] = Nothing
       THEN /\ file'    = [file EXCEPT ![a] = content[w]]
            /\ created' = [created EXCEPT ![w] = @ \cup {a}]
            /\ todo'    = [todo EXCEPT ![w] = @ \ {a}]
            /\ UNCHANGED wpc
       ELSE /\ wpc' = [wpc EXCEPT ![w] = "failed"]
            /\ UNCHANGED <<file, created, todo>>
    /\ UNCHANGED <<rowVars, content, batch, known, orphan, claimVars>>

\* The write fails after the open (the disk is full): the exception leaves
\* _write_payload before its caller has noted the file for removal.
WriteFails(w, a) ==
    /\ wpc[w] = "preparing"
    /\ a \in todo[w] \ known[w]
    /\ file[a] = Nothing
    /\ file'   = [file EXCEPT ![a] = Torn]
    /\ orphan' = orphan \cup {a}
    /\ wpc'    = [wpc EXCEPT ![w] = "failed"]
    /\ UNCHANGED <<rowVars, content, batch, known, todo, created, claimVars>>

\* Forget the batch; the next put of this writer is another call.
Ended(w) ==
    /\ wpc'   = [wpc EXCEPT ![w] = "idle"]
    /\ content' = [content EXCEPT ![w] = Nothing]
    /\ batch' = [batch EXCEPT ![w] = {}]
    /\ known' = [known EXCEPT ![w] = {}]
    /\ todo'  = [todo EXCEPT ![w] = {}]

\* Mutant: INSERT OR REPLACE.
ReplaceRows(w) ==
    LET new == batch[w] \ known[w] IN
    /\ wpc[w] = "preparing"
    /\ todo[w] = {}
    /\ life' = [a \in Ids |-> IF a \in new THEN "ready" ELSE life[a]]
    /\ seal' = [a \in Ids |-> IF a \in new THEN content[w] ELSE seal[a]]
    /\ created' = [created EXCEPT ![w] = {}]
    /\ Ended(w)
    /\ UNCHANGED <<claim, file, orphan, claimVars>>

\* One transaction inserts every new row of the batch; the primary key refuses
\* it if one of them has a row by now.
InsertRows(w) ==
    LET new == batch[w] \ known[w] IN
    /\ wpc[w] = "preparing"
    /\ todo[w] = {}
    /\ \A a \in new : life[a] = "absent"
    /\ life' = [a \in Ids |-> IF a \in new THEN "ready" ELSE life[a]]
    /\ seal' = [a \in Ids |-> IF a \in new THEN content[w] ELSE seal[a]]
    /\ created' = [created EXCEPT ![w] = {}]
    /\ Ended(w)
    /\ UNCHANGED <<claim, file, orphan, claimVars>>

\* _validate_record refuses a record of the batch, or the transaction fails: by
\* the primary key, or because the database is busy for too long.
PutFails(w) ==
    /\ wpc[w] = "preparing"
    /\ wpc' = [wpc EXCEPT ![w] = "failed"]
    /\ UNCHANGED <<rowVars, file, content, batch, known, todo, created, orphan, claimVars>>

\* Mutant: whatever lies under the ids of the batch is removed.
CleanUpBatch(w) ==
    /\ wpc[w] = "failed"
    /\ file' = [a \in Ids |-> IF a \in batch[w] THEN Nothing ELSE file[a]]
    /\ orphan' = orphan \ batch[w]
    /\ created' = [created EXCEPT ![w] = {}]
    /\ Ended(w)
    /\ UNCHANGED <<rowVars, claimVars>>

\* Mutant: the loop ends at the first file it cannot unlink.
CleanUpStops(w) ==
    /\ wpc[w] = "failed"
    /\ \/ /\ file' = [a \in Ids |-> IF a \in created[w] THEN Nothing ELSE file[a]]
          /\ orphan' = orphan \ created[w]
       \/ \E a \in created[w] :
             /\ file[a] # Nothing
             /\ orphan' = orphan \cup {a}
             /\ UNCHANGED file
    /\ created' = [created EXCEPT ![w] = {}]
    /\ Ended(w)
    /\ UNCHANGED <<rowVars, claimVars>>

\* _cleanup_created_payloads, file by file.  A file that is gone already is no
\* error; one that cannot be unlinked stays, and the loop goes on to the next.
\* The caller is told (artifact_payload_cleanup_failed), nobody tries again.
CleanUp(w) ==
    /\ wpc[w] = "failed"
    /\ \/ /\ created[w] = {}
          /\ Ended(w)
          /\ UNCHANGED <<file, created, orphan>>
       \/ \E a \in created[w] :
             /\ created' = [created EXCEPT ![w] = @ \ {a}]
             /\ \/ /\ file'   = [file EXCEPT ![a] = Nothing]
                   /\ orphan' = orphan \ {a}
                \/ /\ file[a] # Nothing
                   /\ orphan' = orphan \cup {a}
                   /\ UNCHANGED file
             /\ UNCHANGED <<wpc, content, batch, known, todo>>
    /\ UNCHANGED <<rowVars, claimVars>>

\* The process of the writer dies, and is started again: what it had made stays.
WriterDies(w) ==
    /\ wpc[w] # "idle"
    /\ orphan'  = orphan \cup {a \in created[w] : file[a] # Nothing}
    /\ created' = [created EXCEPT ![w] = {}]
    /\ Ended(w)
    /\ UNCHANGED <<rowVars, file, claimVars>>

-----------------------------------------------------------------------------
(* expire_run, and the purges of a run, a case, a chat or a source file. *)

\* One transaction; which of the rows have reached expires_at is left open.
Expire(S) ==
    /\ S # {} /\ \A a \in S : life[a] = "ready"
    /\ life' = [a \in Ids |-> IF a \in S THEN "expired" ELSE life[a]]
    /\ UNCHANGED <<seal, claim, file, putVars, claimVars>>

\* The rows a purge takes: those not yet on their way out, and those an earlier
\* purge has failed on and given back.
Claimable(a) ==
    \/ life[a] \in {"ready", "expired"}
    \/ life[a] = "purge_pending" /\ claim[a] = Nothing

\* The first transaction of _purge_scope.
ClaimRows(c, S) ==
    LET taken == {a \in S : Claimable(a)} IN
    /\ cpc[c] = "idle"
    /\ taken # {}
    /\ life'  = [a \in Ids |-> IF a \in taken THEN "purge_pending" ELSE life[a]]
    /\ claim' = [a \in Ids |-> IF a \in taken THEN c ELSE claim[a]]
    /\ cpc'   = [cpc EXCEPT ![c] = "deleting"]
    /\ mine'  = [mine EXCEPT ![c] = taken]
    /\ UNCHANGED <<seal, file, putVars, at>>

\* _delete_payload: exists(), then unlink().
Unlink(c, a) ==
    /\ cpc[c] = "deleting"
    /\ a \in mine[c]
    /\ file'   = [file EXCEPT ![a] = Nothing]
    /\ orphan' = orphan \ {a}
    /\ cpc'    = [cpc EXCEPT ![c] = "sealing"]
    /\ at'     = [at EXCEPT ![c] = a]
    /\ UNCHANGED <<rowVars, wpc, content, batch, known, todo, created, mine>>

\* The row becomes a tombstone, if the claim is still this one's.
SealRow(c) ==
    /\ cpc[c] = "sealing"
    /\ life[at[c]] = "purge_pending" /\ claim[at[c]] = c
    /\ life'  = [life EXCEPT ![at[c]] = "purged"]
    /\ claim' = [claim EXCEPT ![at[c]] = Nothing]
    /\ mine'  = [mine EXCEPT ![c] = @ \ {at[c]}]
    /\ at'    = [at EXCEPT ![c] = Nothing]
    /\ cpc'   = [cpc EXCEPT ![c] = IF mine'[c] = {} THEN "idle" ELSE "deleting"]
    /\ UNCHANGED <<seal, file, putVars>>

\* The unlink or the transaction fails, or the claim is lost.
PurgeFails(c) ==
    /\ cpc[c] \in {"deleting", "sealing"}
    /\ cpc' = [cpc EXCEPT ![c] = "releasing"]
    /\ at'  = [at EXCEPT ![c] = Nothing]
    /\ UNCHANGED <<rowVars, file, putVars, mine>>

\* Mutant: a failed purge keeps its claim.
KeepClaim(c) ==
    /\ cpc[c] = "releasing"
    /\ cpc'  = [cpc EXCEPT ![c] = "idle"]
    /\ mine' = [mine EXCEPT ![c] = {}]
    /\ UNCHANGED <<rowVars, file, putVars, at>>

\* _release_failed_claim: rows still pending under this claim may be claimed
\* again.
Release(c) ==
    /\ cpc[c] = "releasing"
    /\ claim' = [a \in Ids |-> IF /\ a \in mine[c]
                                  /\ life[a] = "purge_pending"
                                  /\ claim[a] = c
                               THEN Nothing ELSE claim[a]]
    /\ cpc'  = [cpc EXCEPT ![c] = "idle"]
    /\ mine' = [mine EXCEPT ![c] = {}]
    /\ UNCHANGED <<life, seal, file, putVars, at>>

\* The process that purges dies, or cannot reach the database to release.
PurgeDies(c) ==
    /\ cpc[c] \in {"deleting", "sealing", "releasing"}
    /\ cpc' = [cpc EXCEPT ![c] = "dead"]
    /\ UNCHANGED <<rowVars, file, putVars, mine, at>>

-----------------------------------------------------------------------------
PutStep(w) ==
    \/ \E S \in SUBSET Ids \ {{}}, x \in Contents : BeginPut(w, S, x)
    \/ \E a \in Ids : MatchExisting(w, a) \/ WritePayload(w, a) \/ WriteFails(w, a)
    \/ InsertRows(w) \/ PutFails(w) \/ CleanUp(w) \/ WriterDies(w)

PurgeStep(c) ==
    \/ \E S \in Scopes : ClaimRows(c, S)
    \/ \E a \in Ids : Unlink(c, a)
    \/ SealRow(c) \/ PurgeFails(c) \/ Release(c) \/ PurgeDies(c)

Next ==
    \/ \E w \in Writers : PutStep(w)
    \/ \E c \in Claims : PurgeStep(c)
    \/ \E S \in SUBSET Ids : Expire(S)

Spec == Init /\ [][Next]_vars

\* Somebody goes on asking for the purge, it is not for ever that every attempt
\* to unlink or to seal fails, and a failed purge releases.  Nothing is assumed
\* of writers, and a dead purge takes no step.
LiveSpec ==
    /\ Spec
    /\ \A c \in Claims :
          /\ \A S \in Scopes : SF_vars(ClaimRows(c, S))
          /\ \A a \in Ids : SF_vars(Unlink(c, a))
          /\ SF_vars(SealRow(c))
          /\ WF_vars(Release(c))

-----------------------------------------------------------------------------
(* What must hold. *)

TypeOK ==
    /\ life    \in [Ids -> Lives]
    /\ seal    \in [Ids -> Contents \cup {Nothing}]
    /\ claim   \in [Ids -> Claims \cup {Nothing}]
    /\ file    \in [Ids -> Contents \cup {Nothing, Torn}]
    /\ wpc     \in [Writers -> {"idle", "preparing", "failed"}]
    /\ content \in [Writers -> Contents \cup {Nothing}]
    /\ batch   \in [Writers -> SUBSET Ids]
    /\ known   \in [Writers -> SUBSET Ids]
    /\ todo    \in [Writers -> SUBSET Ids]
    /\ created \in [Writers -> SUBSET Ids]
    /\ orphan  \in SUBSET Ids
    /\ cpc     \in [Claims -> {"idle", "deleting", "sealing", "releasing", "dead"}]
    /\ mine    \in [Claims -> SUBSET Ids]
    /\ at      \in [Claims -> Ids \cup {Nothing}]

\* A row that is not on its way out has its payload, whole and its own: no put
\* that fails, dies or comes late, and no purge of an earlier row, takes or
\* replaces the file under a row that committed.
RowHasPayload ==
    \A a \in Ids : life[a] \in {"ready", "expired"} =>
        seal[a] \in Contents /\ file[a] = seal[a]

\* Every payload file has somebody who answers for it: a row that can still be
\* purged, or a put at work that will commit it or try to remove it.  Only a
\* death, a write that fails half-way, or a clean-up whose unlink fails leaves
\* one that nobody comes back to.
FilesAreOwned ==
    \A a \in Ids : file[a] # Nothing =>
        \/ life[a] \in {"ready", "expired", "purge_pending"}
        \/ \E w \in Writers : a \in created[w]
        \/ a \in orphan

\* What was left behind is a file that lies there, until somebody unlinks it.
OrphansAreFiles == \A a \in orphan : file[a] # Nothing

\* The rest of the inductive invariant behind the two.
\* A put has made the files of what it has prepared and no others, and an idle
\* one holds none.
PutInv(w) ==
    /\ wpc[w] = "idle" => created[w] = {}
    /\ todo[w] \subseteq batch[w]
    /\ wpc[w] # "idle" =>
          content[w] \in Contents /\ created[w] \subseteq batch[w] \ known[w]
    /\ wpc[w] = "preparing" => (batch[w] \ known[w]) \ todo[w] \subseteq created[w]

\* As long as an id has no row, the put that made its file is the only one and
\* the file says what it wrote; once it has one, no put answers for the file
\* until a purge has begun.
FileInv(a) ==
    /\ life[a] = "absent" => \A w \in Writers : a \in created[w] =>
          /\ file[a] = content[w]
          /\ \A v \in Writers : a \in created[v] => v = w
    /\ life[a] \in {"ready", "expired"} => \A w \in Writers : a \notin created[w]

\* A purge holds rows that are marked, and once it has unlinked, whatever lies
\* there again was made by a late put.
PurgeInv(c) ==
    /\ \A a \in mine[c] : life[a] \in {"purge_pending", "purged"}
    /\ cpc[c] = "sealing" =>
          /\ at[c] \in mine[c]
          /\ file[at[c]] # Nothing =>
                at[c] \in orphan \/ \E w \in Writers : at[c] \in created[w]

StoreInv ==
    /\ TypeOK
    /\ RowHasPayload
    /\ FilesAreOwned
    /\ OrphansAreFiles
    /\ \A w \in Writers : PutInv(w)
    /\ \A a \in Ids : FileInv(a)
    /\ \A c \in Claims : PurgeInv(c)

\* A purge is neither lost nor stuck: a row marked for deletion is deleted,
\* though purges overlap, fail and hand rows to one another, unless the purge
\* that holds it died.
PurgeEnds ==
    \A a \in Ids :
        life[a] = "purge_pending" ~>
            \/ life[a] = "purged"
            \/ \E c \in Claims : claim[a] = c /\ cpc[c] = "dead"

\* The store as its readers see it.  What is served is what lies in the file, not
\* what the row says: a put that damages it would change what the key says.
Map == INSTANCE ArtifactMap WITH
    Keys    <- Ids,
    Values  <- Contents,
    NoValue <- Nothing,
    phase   <- [a \in Ids |-> CASE life[a] = "absent" -> "new"
                                [] life[a] = "ready"  -> "served"
                                [] life[a] = "purged" -> "gone"
                                [] OTHER              -> "withdrawn"],
    served  <- [a \in Ids |-> IF life[a] = "ready" THEN file[a] ELSE Nothing]

\* The store implements the map: graphs appear whole, payloads never change, and
\* no expiry, purge, retry or late put brings a withdrawn key back.
ImplementsMap == Map!Spec
=============================================================================
