-------------------------- MODULE CanonicalVersions --------------------------
(***************************************************************************)
(* The canonical versions of one document: each processing run reserves one *)
(* version, stores its parts as artifacts, binds them, and later a pointer  *)
(* is moved to it by compare-and-set.  User input that was confirmed for    *)
(* the active version is sealed into a derived version, which then takes    *)
(* its place.  Meanwhile artifacts expire and are purged.                   *)
(*                                                                         *)
(* The artifacts are taken at the grain at which ArtifactStore shows its    *)
(* readers a map: a put appears as a whole, a purge first withdraws rows    *)
(* and then turns one after the other into tombstones.                      *)
(***************************************************************************)
EXTENDS Integers

CONSTANTS
    Runs,         \* normalization runs; each has a source artifact of its own
    MaxVersions,  \* bound: the versions reserved for the document
    Manifest,     \* the parts read by name: manifest, containers, evidence
    Chunks,       \* the parts found by listing: nodes and tables
    Modes,        \* put_candidate ("batch"), put_xlsx_streaming_candidate ("stream")
    Actors,       \* processes that publish, finalize, activate or roll back
    Readers,
    Nothing

Versions == 1..MaxVersions
Parts    == {Manifest} \cup Chunks

ASSUME ModesAreKnown      == Modes \subseteq {"batch", "stream"}
ASSUME MaxVersionsIsNat   == MaxVersions \in Nat
ASSUME NothingIsNoVersion == Nothing \notin Versions \cup Runs
ASSUME RunsAreNoVersions  == Runs \cap Versions = {}
ASSUME ManifestIsNoChunk  == Manifest \notin Chunks

VARIABLES
    source,    \* the runs whose source artifact is still ready
    life,      \* lifecycle of the parts of a version
    status,    \* canonical_versions.status
    owner,     \* its run; a derived version has the run its base determines
    bound,     \* canonical_version_components
    pointer,   \* canonical_active_pointers
    pc,        \* where an actor is
    mode,      \* which of the two it publishes by
    op,        \* ACTIVATE or ROLLBACK
    target,    \* the version it works on
    expected,  \* the version it has seen the pointer at
    written,   \* the parts it has stored so far, streaming
    rpc,       \* where a reader is
    reading,   \* the version it reads
    listed,    \* the chunks it was told of
    got        \* the parts it has read

graphVars  == <<life, status, owner, bound, pointer>>
actorVars  == <<pc, mode, op, target, expected, written>>
readerVars == <<rpc, reading, listed, got>>
vars == <<source, life, status, owner, bound, pointer, pc, mode, op, target,
          expected, written, rpc, reading, listed, got>>

\* "marked" and "pending" are purge_pending without and with a claim.
Lives  == {"absent", "ready", "expired", "marked", "pending", "purged"}
Linked == {"VALIDATED", "ACTIVE", "SUPERSEDED"}

Init ==
    /\ source   = Runs
    /\ life     = [v \in Versions |-> [p \in Parts |-> "absent"]]
    /\ status   = [v \in Versions |-> "none"]
    /\ owner    = [v \in Versions |-> Nothing]
    /\ bound    = [v \in Versions |-> {}]
    /\ pointer  = Nothing
    /\ pc       = [a \in Actors |-> "idle"]
    /\ mode     = [a \in Actors |-> "batch"]
    /\ op       = [a \in Actors |-> "ACTIVATE"]
    /\ target   = [a \in Actors |-> Nothing]
    /\ expected = [a \in Actors |-> Nothing]
    /\ written  = [a \in Actors |-> {}]
    /\ rpc      = [k \in Readers |-> "idle"]
    /\ reading  = [k \in Readers |-> Nothing]
    /\ listed   = [k \in Readers |-> {}]
    /\ got      = [k \in Readers |-> {}]

-----------------------------------------------------------------------------
(* An actor publishes a version: reserve, store, finalize. *)

\* Whatever the actor was doing, it is over.
Done(a) ==
    /\ pc'       = [pc EXCEPT ![a] = "idle"]
    /\ mode'     = [mode EXCEPT ![a] = "batch"]
    /\ op'       = [op EXCEPT ![a] = "ACTIVATE"]
    /\ target'   = [target EXCEPT ![a] = Nothing]
    /\ expected' = [expected EXCEPT ![a] = Nothing]
    /\ written'  = [written EXCEPT ![a] = {}]

\* finalize() reads the active version, which must not be final already, and
\* finds the mapping case complete and bound to it.
SeeBase(a) ==
    /\ pc[a] = "idle"
    /\ pointer # Nothing /\ owner[pointer] \in Runs
    /\ pc' = [pc EXCEPT ![a] = "deriving"]
    /\ expected' = [expected EXCEPT ![a] = pointer]
    /\ UNCHANGED <<source, graphVars, mode, op, target, written, readerVars>>

\* The source artifact that a run's versions are checked against.
SourceOf(r) == IF r \in Runs THEN r ELSE owner[r]

\* Both kinds of publication begin so: a run's with its own source, the derived
\* one with that of its base.
MayReserve(a, r, how) ==
    /\ \/ pc[a] = "idle" /\ r \in Runs
       \/ pc[a] = "deriving" /\ r = expected[a] /\ how = "batch"
    /\ SourceOf(r) \in source

\* reserve_canonical_version takes the next number,
Reserve(a, r, how) ==
    /\ MayReserve(a, r, how)
    /\ \A u \in Versions : owner[u] # r
    /\ \E v \in Versions :
          /\ \A u \in Versions : status[u] = "none" <=> u >= v
          /\ status' = [status EXCEPT ![v] = "CANDIDATE"]
          /\ owner'  = [owner EXCEPT ![v] = r]
          /\ target' = [target EXCEPT ![a] = v]
    /\ pc'   = [pc EXCEPT ![a] = "storing"]
    /\ mode' = [mode EXCEPT ![a] = how]
    /\ UNCHANGED <<source, life, bound, pointer, op, expected, written, readerVars>>

\* or returns the version the run already has, whatever has become of it.
\* Streaming, a version with its parts is all that was asked for.
Resume(a, r, how) ==
    /\ MayReserve(a, r, how)
    /\ \E v \in Versions :
          /\ owner[v] = r
          /\ IF how = "stream" /\ status[v] \in Linked
             THEN Done(a)
             ELSE /\ pc'     = [pc EXCEPT ![a] = "storing"]
                  /\ mode'   = [mode EXCEPT ![a] = how]
                  /\ target' = [target EXCEPT ![a] = v]
                  /\ UNCHANGED <<op, expected, written>>
    /\ UNCHANGED <<source, graphVars, readerVars>>

\* put_records_atomic: all the parts are new, or all are there and readable.
StoreGraph(a) ==
    LET v == target[a] IN
    /\ pc[a] = "storing" /\ mode[a] = "batch"
    /\ \/ /\ \A p \in Parts : life[v][p] = "absent"
          /\ life' = [life EXCEPT ![v] = [p \in Parts |-> "ready"]]
       \/ /\ \A p \in Parts : life[v][p] = "ready"
          /\ UNCHANGED life
    /\ pc' = [pc EXCEPT ![a] = "stored"]
    /\ UNCHANGED <<source, status, owner, bound, pointer, mode, op, target,
                   expected, written, readerVars>>

\* Mutant: a row that expired is written again.
StorePartAgain(a, p) ==
    LET v == target[a] IN
    /\ pc[a] = "storing" /\ mode[a] = "stream"
    /\ p \notin written[a]
    /\ p = Manifest => Chunks \subseteq written[a]
    /\ life[v][p] \in {"absent", "ready", "expired"}
    /\ life'    = [life EXCEPT ![v][p] = "ready"]
    /\ written' = [written EXCEPT ![a] = @ \cup {p}]
    /\ pc' = [pc EXCEPT ![a] = IF p = Manifest THEN "stored" ELSE @]
    /\ UNCHANGED <<source, status, owner, bound, pointer, mode, op, target,
                   expected, readerVars>>

\* put_component, the manifest last.
StorePart(a, p) ==
    LET v == target[a] IN
    /\ pc[a] = "storing" /\ mode[a] = "stream"
    /\ p \notin written[a]
    /\ p = Manifest => Chunks \subseteq written[a]
    /\ life[v][p] \in {"absent", "ready"}
    /\ life'    = [life EXCEPT ![v][p] = "ready"]
    /\ written' = [written EXCEPT ![a] = @ \cup {p}]
    /\ pc' = [pc EXCEPT ![a] = IF p = Manifest THEN "stored" ELSE @]
    /\ UNCHANGED <<source, status, owner, bound, pointer, mode, op, target,
                   expected, readerVars>>

\* What follows the successful finalization of v.
AfterFinalize(a, v) ==
    IF expected[a] = Nothing
    THEN Done(a)
    ELSE /\ pc' = [pc EXCEPT ![a] = "activating"]
         /\ UNCHANGED <<mode, op, target, expected, written>>

\* finalize_canonical_version binds the parts, all of which must be ready, or
\* finds them bound.
Finalize(a) ==
    LET v == target[a] IN
    /\ pc[a] = "stored"
    /\ status[v] \in {"CANDIDATE", "VALIDATED"}
    /\ \/ /\ bound[v] = {}
          /\ \A p \in Parts : life[v][p] = "ready"
          /\ bound'  = [bound EXCEPT ![v] = Parts]
          /\ status' = [status EXCEPT ![v] = "VALIDATED"]
       \/ /\ bound[v] = Parts
          /\ UNCHANGED <<bound, status>>
    /\ AfterFinalize(a, v)
    /\ UNCHANGED <<source, life, owner, pointer, readerVars>>

\* Any step of a publication may raise; streaming, the candidate is aborted.
PublishFails(a) ==
    /\ pc[a] \in {"deriving", "storing", "stored"}
    /\ IF mode[a] = "stream" /\ pc[a] # "deriving"
       THEN /\ pc' = [pc EXCEPT ![a] = "aborting"]
            /\ UNCHANGED <<mode, op, target, expected, written>>
       ELSE Done(a)
    /\ UNCHANGED <<source, graphVars, readerVars>>

\* Mutant: the candidate is aborted whatever has become of it.
AbortAnything(a) ==
    LET v == target[a] IN
    /\ pc[a] = "aborting"
    /\ life' = [life EXCEPT ![v] = [p \in Parts |->
                   IF p \in written[a] THEN "marked" ELSE life[v][p]]]
    /\ pc' = [pc EXCEPT ![a] = "sealing"]
    /\ UNCHANGED <<source, status, owner, bound, pointer, mode, op, target,
                   expected, written, readerVars>>

\* The first transaction of abort_canonical_candidate.
AbortMark(a) ==
    LET v == target[a] IN
    /\ pc[a] = "aborting"
    /\ IF /\ status[v] = "CANDIDATE" /\ bound[v] = {} /\ pointer # v
          /\ \A p \in written[a] : life[v][p] = "ready"
       THEN /\ life' = [life EXCEPT ![v] = [p \in Parts |->
                           IF p \in written[a] THEN "marked" ELSE life[v][p]]]
            /\ pc' = [pc EXCEPT ![a] = "sealing"]
            /\ UNCHANGED <<mode, op, target, expected, written>>
       ELSE Done(a) /\ UNCHANGED life
    /\ UNCHANGED <<source, status, owner, bound, pointer, readerVars>>

\* The last one: the payloads are gone, and so is the candidate.
AbortSeal(a) ==
    LET v == target[a] IN
    /\ pc[a] = "sealing"
    /\ life' = [life EXCEPT ![v] = [p \in Parts |->
                   IF p \in written[a] /\ life[v][p] \in {"marked", "pending"}
                   THEN "purged" ELSE life[v][p]]]
    /\ status' = [status EXCEPT ![v] = IF @ = "CANDIDATE" THEN "PURGED" ELSE @]
    /\ Done(a)
    /\ UNCHANGED <<source, owner, bound, pointer, readerVars>>

Crash(a) ==
    /\ pc[a] # "idle"
    /\ Done(a)
    /\ UNCHANGED <<source, graphVars, readerVars>>

-----------------------------------------------------------------------------
(* An actor moves the pointer. *)

\* The product path is given the version of a run, and reads it.  (It is also given
\* the active one, and then leaves the pointer alone.)
Select(a, v) ==
    /\ pc[a] = "idle"
    /\ status[v] = "VALIDATED" /\ owner[v] \in Runs
    /\ pc' = [pc EXCEPT ![a] = "selected"]
    /\ target' = [target EXCEPT ![a] = v]
    /\ UNCHANGED <<source, graphVars, mode, op, expected, written, readerVars>>

\* Then it asks the history which version is active.
SeePrevious(a) ==
    /\ pc[a] = "selected"
    /\ pc' = [pc EXCEPT ![a] = "activating"]
    /\ expected' = [expected EXCEPT ![a] = pointer]
    /\ UNCHANGED <<source, graphVars, mode, op, target, written, readerVars>>

\* An operator asks for an older version, or one not used yet.
AskRollback(a, v) ==
    /\ pc[a] = "idle"
    /\ pointer # Nothing
    /\ status[v] \in {"VALIDATED", "SUPERSEDED"}
    /\ pc' = [pc EXCEPT ![a] = "activating"]
    /\ op' = [op EXCEPT ![a] = "ROLLBACK"]
    /\ target'   = [target EXCEPT ![a] = v]
    /\ expected' = [expected EXCEPT ![a] = pointer]
    /\ UNCHANGED <<source, graphVars, mode, written, readerVars>>

\* Mutant: the parts are not looked at again.
ActivateUnchecked(a) ==
    LET v == target[a] IN
    /\ pc[a] = "activating"
    /\ IF status[v] \in Linked /\ pointer = expected[a] /\ pointer # v
       THEN /\ status' = [u \in Versions |->
                             CASE u = v -> "ACTIVE"
                               [] u = pointer -> "SUPERSEDED"
                               [] OTHER -> status[u]]
            /\ pointer' = v
       ELSE UNCHANGED <<status, pointer>>
    /\ Done(a)
    /\ UNCHANGED <<source, life, owner, bound, readerVars>>

\* Mutant: the version is replaced that is active, not the one that was seen.
ActivateAnyway(a) ==
    LET v == target[a] IN
    /\ pc[a] = "activating"
    /\ IF /\ status[v] \in Linked
          /\ bound[v] # {} /\ \A p \in bound[v] : life[v][p] = "ready"
          /\ pointer # v
       THEN /\ status' = [u \in Versions |->
                             CASE u = v -> "ACTIVE"
                               [] u = pointer -> "SUPERSEDED"
                               [] OTHER -> status[u]]
            /\ pointer' = v
       ELSE UNCHANGED <<status, pointer>>
    /\ Done(a)
    /\ UNCHANGED <<source, life, owner, bound, readerVars>>

\* activate_canonical_version: whatever is bound must be ready, and the pointer
\* where it was seen.
Activate(a) ==
    LET v == target[a] IN
    /\ pc[a] = "activating"
    /\ IF /\ status[v] \in Linked
          /\ bound[v] # {} /\ \A p \in bound[v] : life[v][p] = "ready"
          /\ pointer = expected[a] /\ pointer # v
       THEN /\ status' = [u \in Versions |->
                             CASE u = v -> "ACTIVE"
                               [] u = pointer -> "SUPERSEDED"
                               [] OTHER -> status[u]]
            /\ pointer' = v
       ELSE UNCHANGED <<status, pointer>>
    /\ Done(a)
    /\ UNCHANGED <<source, life, owner, bound, readerVars>>

-----------------------------------------------------------------------------
(* Retention. *)

\* expire_run, and a source artifact that expires.
Expire(v, S) ==
    /\ S # {} /\ \A p \in S : life[v][p] = "ready"
    /\ life' = [life EXCEPT ![v] = [p \in Parts |->
                   IF p \in S THEN "expired" ELSE life[v][p]]]
    /\ UNCHANGED <<source, status, owner, bound, pointer, actorVars, readerVars>>

ExpireSource(r) ==
    /\ r \in source
    /\ source' = source \ {r}
    /\ UNCHANGED <<graphVars, actorVars, readerVars>>

\* The first transaction of a purge of these runs, derived ones among them: a
\* single run, or all there are (a case, a chat, a deleted source file).
Claim(R) ==
    /\ source' = source \ R
    /\ life' = [v \in Versions |-> [p \in Parts |->
                   IF owner[v] \in R /\ life[v][p] \in {"ready", "expired", "marked"}
                   THEN "pending" ELSE life[v][p]]]
    /\ UNCHANGED <<status, owner, bound, pointer, actorVars, readerVars>>

\* Mutant: the pointer goes only with a version that still is the active one when
\* its manifest goes.
SealKeepsPointer(v, p) ==
    LET last == bound[v] = {p} IN
    /\ life[v][p] = "pending"
    /\ life'  = [life EXCEPT ![v][p] = "purged"]
    /\ bound' = [bound EXCEPT ![v] = @ \ {p}]
    /\ pointer' = IF last /\ p = Manifest /\ pointer = v THEN Nothing ELSE pointer
    /\ status'  = [status EXCEPT ![v] = IF last THEN "PURGED" ELSE @]
    /\ UNCHANGED <<source, owner, actorVars, readerVars>>

\* A part becomes a tombstone; the last one takes pointer and version with it.
Seal(v, p) ==
    LET last == bound[v] = {p} IN
    /\ life[v][p] = "pending"
    /\ life'  = [life EXCEPT ![v][p] = "purged"]
    /\ bound' = [bound EXCEPT ![v] = @ \ {p}]
    /\ pointer' = IF last /\ pointer = v THEN Nothing ELSE pointer
    /\ status'  = [status EXCEPT ![v] = IF last THEN "PURGED" ELSE @]
    /\ UNCHANGED <<source, owner, actorVars, readerVars>>

-----------------------------------------------------------------------------
(* A reader takes the version the pointer is at, and reads it piece by piece. *)

ReadActive(k) ==
    /\ rpc[k] = "idle"
    /\ pointer # Nothing /\ status[pointer] = "ACTIVE"
    /\ rpc' = [rpc EXCEPT ![k] = "manifest"]
    /\ reading' = [reading EXCEPT ![k] = pointer]
    /\ UNCHANGED <<source, graphVars, actorVars, listed, got>>

\* Mutant: a version must be the active one to be read.
ServedIfActive(v, p) == status[v] = "ACTIVE" /\ p \in bound[v] /\ life[v][p] = "ready"

\* read_canonical_component.
Served(v, p) == status[v] \in Linked /\ p \in bound[v] /\ life[v][p] = "ready"

OpenManifest(k) ==
    /\ rpc[k] = "manifest"
    /\ IF Served(reading[k], Manifest)
       THEN /\ rpc' = [rpc EXCEPT ![k] = "listing"]
            /\ got' = [got EXCEPT ![k] = {Manifest}]
       ELSE rpc' = [rpc EXCEPT ![k] = "failed"] /\ UNCHANGED got
    /\ UNCHANGED <<source, graphVars, actorVars, reading, listed>>

ListChunks(k) ==
    /\ rpc[k] = "listing"
    /\ IF status[reading[k]] \in Linked
       THEN /\ rpc' = [rpc EXCEPT ![k] = "chunks"]
            /\ listed' = [listed EXCEPT ![k] = bound[reading[k]] \ {Manifest}]
       ELSE rpc' = [rpc EXCEPT ![k] = "failed"] /\ UNCHANGED listed
    /\ UNCHANGED <<source, graphVars, actorVars, reading, got>>

ReadChunk(k, p) ==
    /\ rpc[k] = "chunks"
    /\ p \in listed[k] \ got[k]
    /\ IF Served(reading[k], p)
       THEN got' = [got EXCEPT ![k] = @ \cup {p}] /\ UNCHANGED rpc
       ELSE rpc' = [rpc EXCEPT ![k] = "failed"] /\ UNCHANGED got
    /\ UNCHANGED <<source, graphVars, actorVars, reading, listed>>

\* Mutant: what was listed is all there is.
Unvalidated(k) ==
    /\ rpc[k] = "chunks"
    /\ listed[k] \subseteq got[k]
    /\ rpc' = [rpc EXCEPT ![k] = "read"]
    /\ UNCHANGED <<source, graphVars, actorVars, reading, listed, got>>

\* The root hash is computed again over what was read.
Validated(k) ==
    /\ rpc[k] = "chunks"
    /\ listed[k] \subseteq got[k]
    /\ rpc' = [rpc EXCEPT ![k] = IF got[k] = Parts THEN "read" ELSE "failed"]
    /\ UNCHANGED <<source, graphVars, actorVars, reading, listed, got>>

-----------------------------------------------------------------------------
ActorStep(a) ==
    \/ SeeBase(a) \/ StoreGraph(a) \/ Finalize(a) \/ PublishFails(a)
    \/ AbortMark(a) \/ AbortSeal(a) \/ Crash(a) \/ SeePrevious(a) \/ Activate(a)
    \/ \E r \in Runs \cup Versions, how \in Modes :
          Reserve(a, r, how) \/ Resume(a, r, how)
    \/ \E p \in Parts : StorePart(a, p)
    \/ \E v \in Versions : Select(a, v) \/ AskRollback(a, v)

RetentionStep ==
    \/ \E v \in Versions, S \in SUBSET Parts : Expire(v, S)
    \/ \E r \in Runs : ExpireSource(r)
    \/ \E R \in {Runs \cup Versions} \cup {{r} : r \in Runs \cup Versions} : Claim(R)
    \/ \E v \in Versions, p \in Parts : Seal(v, p)

ReaderStep(k) ==
    \/ ReadActive(k) \/ OpenManifest(k) \/ ListChunks(k) \/ Validated(k)
    \/ \E p \in Chunks : ReadChunk(k, p)

Next ==
    \/ \E a \in Actors : ActorStep(a)
    \/ RetentionStep
    \/ \E k \in Readers : ReaderStep(k)

Spec == Init /\ [][Next]_vars

-----------------------------------------------------------------------------
(* What must hold. *)

TypeOK ==
    /\ source   \in SUBSET Runs
    /\ life     \in [Versions -> [Parts -> Lives]]
    /\ status   \in [Versions -> {"none", "CANDIDATE", "PURGED"} \cup Linked]
    /\ owner    \in [Versions -> Runs \cup Versions \cup {Nothing}]
    /\ bound    \in [Versions -> SUBSET Parts]
    /\ pointer  \in Versions \cup {Nothing}
    /\ pc       \in [Actors -> {"idle", "deriving", "storing", "stored", "aborting",
                                "sealing", "selected", "activating"}]
    /\ mode     \in [Actors -> {"batch", "stream"}]
    /\ op       \in [Actors -> {"ACTIVATE", "ROLLBACK"}]
    /\ target   \in [Actors -> Versions \cup {Nothing}]
    /\ expected \in [Actors -> Versions \cup {Nothing}]
    /\ written  \in [Actors -> SUBSET Parts]
    /\ rpc      \in [Readers -> {"idle", "manifest", "listing", "chunks", "read", "failed"}]
    /\ reading  \in [Readers -> Versions \cup {Nothing}]
    /\ listed   \in [Readers -> SUBSET Chunks]
    /\ got      \in [Readers -> SUBSET Parts]

\* At most one version is ACTIVE, and it is the one the pointer is at: two
\* activations that race, an abort, or a purge that ends never leave a version
\* active that nobody points at, or a pointer at one that is not.
PointerIsActive ==
    \A v \in Versions : pointer = v <=> status[v] = "ACTIVE"

\* A version that has not been reserved has nothing; one without bindings is not
\* linked; and of a linked one every part that lost its binding is a tombstone.
GraphInv(v) ==
    /\ status[v] = "none" <=> owner[v] = Nothing
    /\ status[v] = "none" => \A p \in Parts : life[v][p] = "absent"
    /\ status[v] \notin Linked => bound[v] = {}
    /\ status[v] \in Linked =>
          /\ bound[v] # {}
          /\ \A p \in Parts :
                /\ life[v][p] \notin {"absent", "marked"}
                /\ life[v][p] = "purged" <=> p \notin bound[v]

\* A purge takes a linked version as a whole.
LostTogether(v) ==
    status[v] \in Linked =>
        \A p, q \in Parts : life[v][p] \in {"pending", "purged"} =>
                            life[v][q] \in {"pending", "purged"}

\* An actor at work on a version has one, an abort works on parts that nobody can
\* link any more, and what is activated as final is activated in place of its base.
ActorInv(a) ==
    /\ pc[a] \in {"storing", "stored", "aborting", "sealing", "selected", "activating"}
          => target[a] # Nothing /\ status[target[a]] # "none"
    /\ pc[a] = "deriving" => expected[a] # Nothing
    /\ pc[a] = "idle" => expected[a] = Nothing
    /\ pc[a] \in {"storing", "stored", "aborting", "sealing"} =>
          \/ owner[target[a]] \in Runs /\ expected[a] = Nothing
          \/ owner[target[a]] = expected[a]
    /\ pc[a] = "selected" => owner[target[a]] \in Runs
    /\ pc[a] = "activating" /\ op[a] = "ACTIVATE" =>
          owner[target[a]] \in Runs \/ expected[a] = owner[target[a]]
    /\ pc[a] = "sealing" => \A p \in written[a] :
          life[target[a]][p] \in {"marked", "pending", "purged"}
    /\ pc[a] = "sealing" /\ written[a] # {} => status[target[a]] \notin Linked

\* What a reader has not found is lost: it reads a version that was linked, and
\* whatever is no longer linked, bound or listed is no longer ready.
Lost(v) == \E p \in Parts : life[v][p] # "ready"

ReaderInv(k) ==
    /\ rpc[k] # "idle" =>
          /\ reading[k] # Nothing
          /\ \A p \in Parts : life[reading[k]][p] # "absent"
          /\ status[reading[k]] \in Linked \/ Lost(reading[k])
    /\ rpc[k] \in {"listing", "chunks"} => Manifest \in got[k]
    /\ rpc[k] = "chunks" => listed[k] = Chunks \/ Lost(reading[k])
    /\ rpc[k] = "failed" => Lost(reading[k])

VersionsInv ==
    /\ TypeOK
    /\ PointerIsActive
    /\ \A v \in Versions : GraphInv(v) /\ LostTogether(v)
    /\ \A a \in Actors : ActorInv(a)
    /\ \A k \in Readers : ReaderInv(k)

\* The pointer only moves to a version that is whole and readable at that moment,
\* all its parts and not just those still bound: purges, expiries and aborts that
\* began since it was chosen are noticed.
ActivatedIsWhole ==
    [][ \A v \in Versions : pointer' = v /\ pointer # v =>
            \A p \in Parts : life[v][p] = "ready" ]_vars

\* User input was confirmed for one version: the version derived from it takes the
\* place of that one and of no other, though the pointer moves while it is made.
FinalReplacesBase ==
    [][ \A a \in Actors, v \in Versions :
            /\ Activate(a) /\ op[a] = "ACTIVATE"
            /\ pointer' = v /\ pointer # v /\ owner[v] \in Versions
            => pointer = owner[v] ]_vars

\* A reader is never given a part of a version as the whole.
ReadIsWhole == \A k \in Readers : rpc[k] = "read" => got[k] = Parts

\* A reader of a version that was active fails only if its artifacts are going:
\* activations, roll-backs and publications in the meantime do not disturb it.
ReadersFailOnlyOnLoss ==
    \A k \in Readers : rpc[k] = "failed" => Lost(reading[k])

-----------------------------------------------------------------------------
(* The history that the versions show to their users. *)

StageOf(v) == CASE status[v] = "none"      -> "none"
                [] status[v] = "CANDIDATE" -> "draft"
                [] status[v] = "PURGED"    -> "gone"
                [] OTHER                   -> IF Lost(v) THEN "lost" ELSE "whole"

AnswerTo(k) == CASE rpc[k] = "read"   -> IF got[k] = Parts THEN "whole" ELSE "torn"
                 [] rpc[k] = "failed" -> "refused"
                 [] OTHER             -> "none"

History == INSTANCE VersionHistory WITH
    stage    <- [v \in Versions |-> StageOf(v)],
    madeFrom <- owner,
    active   <- pointer,
    asked    <- reading,
    answer   <- [k \in Readers |-> AnswerTo(k)]

\* Every step of the store is a step of that history: versions are numbered in turn
\* and made once, a purged one never returns and a damaged one never heals, only
\* whole versions become active, and a reader is given all or, of a lost one, nothing.
ImplementsHistory == History!Spec

-----------------------------------------------------------------------------
(* The artifacts under the versions, as the artifact store serves them. *)

Artifacts == Versions \X Parts

Store == INSTANCE ArtifactMap WITH
    Keys    <- Artifacts,
    Values  <- Versions,
    NoValue <- Nothing,
    phase   <- [k \in Artifacts |-> CASE life[k[1]][k[2]] = "absent" -> "new"
                                      [] life[k[1]][k[2]] = "ready"  -> "served"
                                      [] life[k[1]][k[2]] = "purged" -> "gone"
                                      [] OTHER                       -> "withdrawn"],
    served  <- [k \in Artifacts |-> IF life[k[1]][k[2]] = "ready" THEN k[1] ELSE Nothing]

\* The parts live as the artifact store promises and in no other way: no retry,
\* late abort or purge serves a part again that was withdrawn, or makes a
\* tombstone anything else.
UsesMap == Store!Spec
=============================================================================
