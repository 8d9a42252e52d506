# TLA+ verification of Broker Reports

The repository is a corporate OpenWebUI distribution. Its own core logic is
`services/broker-reports-gate1-proof`: a pipeline (Gate 1 to Gate 5) that turns a
client's broker reports into validated financial facts and a 3-NDFL declaration,
run as OpenWebUI pipes by several server processes that share SQLite files and a
directory of payloads. This directory holds TLA+ modules of the concurrent parts
of that core (the workload authority, the artifact store, the canonical versions,
the Gate 4 cache and the mapping case), the TLC runs that check them on small
instances and the TLAPS proofs of their theorems.

## 1. Inventory

| Part | State it keeps | Operations, interaction | What is hard | What makes it correct | Here |
|---|---|---|---|---|---|
| Workload authority (`workload_authority.py`) | `workload_jobs`, `workload_provider_leases`, `workload_provider_waiters`, transitions, private temp directories | submit, retry, admission, heartbeat, transition, provider slot, review, cancel, recovery; called by the pipes, by users and by every process that polls | several processes, clocks read before the file lock, leases, crashes, cooperative cancellation | capacity and budget never exceeded, FIFO, terminal is final, no success after cancellation, everybody is served | `WorkloadAuthority`, `WorkloadJobDirs` |
| Gate 1 and Gate 2 pipes (`openwebui_actions/`) | one session per invocation | call the authority and the provider clients; publish artifacts | cancelled coroutine, heartbeat thread beside it | what the user is told is what the row says | as callers of the authority |
| Artifact store, lifecycle, retention (`artifact_store.py`) | payload files and their rows | put, expire, claim, unlink, seal, release | file and row written in separate steps by several processes, purges that overlap, fail and die | a row has its payload, a withdrawn key never comes back, a purge ends | `ArtifactStore` |
| Canonical store and finalization (`canonical_store.py`, `canonical_finalization.py`) | versions, bindings, the active pointer | reserve, store, finalize, abort, activate, roll back, derive, read part by part | the pointer and the parts change between any two transactions | only whole versions are activated, a reader gets all or an error | `CanonicalVersions` |
| Gate 4 financial case cache (`gate4_financial_case_cache.py`) | generations and facts per document | rebuild case or document, read, clear, lifecycle triggers | the source set is derived again and again, never locked | a stale or withdrawn fact is not served, rebuilds succeed | `FinancialCaseCache` |
| Ordinary trade mapping case and runtime | append-only revisions of a case | map, batch, ask for a currency, answer, retire | nothing is locked while the provider is called; turns die | a batch is sent once, nothing is forgotten, a settled case stays settled | `MappingCase` |
| Normalizer, profilers, document memory | none shared | pure transformation with progress callbacks | large inputs | contracts of their outputs | no |
| Gate 2 runtimes and provider clients | attempts of a request | bounded retries over a provider slot | timeout after the provider answered | at most the budgeted attempts | no |
| Clarification | questions and answers as artifacts | ask, answer, resume | late and repeated answers | one effective answer per question | no |
| Gate 2-5 contracts, validators, projections | none | pure functions of documents | size | per-function contracts, tested in the repository | no |
| Atomic stage release script | rows of the OpenWebUI database, backup | replace, verify, roll back | a crash between two steps | old or new release, never a mixture | no |
| Stage 2 STT (`services/stage2-stt`) | jobs, artifacts, transcripts | submit, poll, post-process | provider timeouts, restarts | a job reaches one terminal state | no |
| Media lifecycle, flight recorder, OpenWebUI functions, tools, patches, OfficeCLI, upgrade, transport, compose | files, configuration | scripts and stateless filters | I/O | outside a model's reach or not the program's core | no |

`PROJECT.json` lists each part with its files and status, and under `hazards`
what the code is exposed to, line by line, with the properties that cover it.

How the parts interact. A pipe invocation submits a job to the authority and is
admitted; it normalises, and puts what it makes into the artifact store; the
canonical store publishes a version of the document through the artifact store
and moves the active pointer. The mapping case of a document is bound to its
active version and stores its revisions as artifacts, and user finalization
derives a version from the active one once the case is complete. Gate 3
annotates the active version; the Gate 4 cache derives from versions and
annotations which facts are current. Each module takes the one below it at the
grain its own theorems establish: `CanonicalVersions` and `MappingCase` see
artifacts as the write-once map `ArtifactMap`, which `ArtifactStore` is proved to
implement and which `CanonicalVersions` is proved to take it for (`VersionsUseMap`);
`FinancialCaseCache` sees versions as a pointer that moves and
annotations as artifacts that appear once and are withdrawn once.

## 2. Plan

Done, in this order: the authority with its contract and refinement; its private
directories; the artifact store with the map it implements; canonical versions;
the Gate 4 cache; the mapping case; the inductive invariants of all of them
proved; abstract specifications of the versions and of the mapping case, with
their refinements proved.

Left:

1. The idempotency keys of the Gate 1 pipe and what a repeated request is
   answered, and the retry of a failed job, as actions of the pipe's invocations.
2. The canonical version that moves under a mapping case while the provider is
   called: `MappingCase` with two bindings, composed with `CanonicalVersions`.
3. `Clarification` over `ArtifactMap`; the bounded retries of the Gate 2 clients
   over a provider slot; the owner check that ties a canonical artifact to a
   completed Gate 1 job.
4. The replace, verify, roll back sequence of the stage release; the
   transcription jobs of the STT service.

## 3. The modules

| Module | What it is |
|---|---|
| `WorkloadAuthority` | the authority and its callers: state, one action per transaction, properties, mutants |
| `JobContract` | what is promised of a job: the phases of its life and the cancellation flag, no leases, clock or queue rows |
| `WorkloadRefinement` | the refinement mapping; `ImplementsContract` is the contract as a property |
| `WorkloadJobDirs` | `WorkloadAuthority` with the private temporary directories, their finalizers and sweeps |
| `ArtifactStore` | rows and payload files, puts, expiry, purges, crashes at every step |
| `ArtifactMap` | what the store promises a reader: a map that is written once per key |
| `CanonicalVersions` | versions of a document, their parts, bindings and pointer; publications, finalizations, readers, purges |
| `VersionHistory` | what the canonical store promises its users: the stages of a version, the pointer, what a reader is told; no parts, bindings, actors or transactions |
| `FinancialCaseCache` | the Gate 4 projection of a case, its rebuilds and reads, with the world that changes beneath it |
| `MappingCase` | the mapping case of a document as a history of revisions, and the turns that work on it |
| `MappingLedger` | what the mapping promises: per batch new, sent, asked or answered, the currencies asserted and the outcome of the case; no revisions, turns or claims |
| `WorkloadAuthority_proofs`, `WorkloadSafety_proofs`, `WorkloadRefinement_proofs`, `WorkloadJobDirs_proofs`, `ArtifactStore_proofs`, `CanonicalVersions_proofs`, `FinancialCaseCache_proofs`, `MappingCase_proofs` | the theorems of the module each is named after and their proofs |
| `MC...` | constants of the runs |

### The authority

A job is its AUTOINCREMENT sequence number. `state`, `cancelRequested`,
`leaseToken`, `expires`, `providerId`, `providerToken` are columns of its
`workload_jobs` row. A job has at most one unreleased row in
`workload_provider_leases` (`slot`, `slotExpires`) and one row in
`workload_provider_waiters` (`waiters`; `ahead[j]` is the part of the queue of its
provider in front of it). Tokens are present or absent because a job is
admitted once, by the invocation that submitted it; nobody else ever holds them.

Each `BEGIN IMMEDIATE` transaction is one action, since SQLite serialises them.
What is *not* atomic in the code is not atomic here: `pc[j]` says between which two
transactions the invocation that owns job `j` stands, and any other process may
run there. `complete()` is `StartComplete` (checkpoint), a recovery by `snapshot`
and `Complete`; `wait_for_admission` is the loop `RenewQueueWaiter`,
`OwnerRecovers`, `TryAdmit`, `OwnerRecovers`; `provider_slot` is
`BeginProviderWait`, the loop `TryAcquireProvider`, `Checkpoint`, and
`ReleaseProvider`. Every `snapshot` and `try_admit` begins with
`recover_expired_workers`: that is `Recover`, run by owners at their
`RecoverPoints` and by anybody at any time in `Observe`. `request_cancel` and
`resolve_review` end with a snapshot too; it is a transaction of its own, before
which the caller may die, so it is `Observe` and not part of their actions.

Time. Several methods read `time.time()` before they open their transaction and
then wait for the lock. Leases are kept as ticks left; `Tick` is the clock; a caller
uses a "now" `s` ticks old, `s \in 0..MaxStale`: `Expired(l, s)` is `l + s <= 0` and the
lease it grants is `Lease - s`. Where the code reads the clock inside the
transaction (`_session_row`, `_renew_lease`) `s` is 0. A lease that is past its end by
more than any caller is late stays at `Null`, which is also NULL.

Left out of the authority, and why that is sound for these properties: job and
worker identifiers, access checks (a refused caller changes nothing), safe
details, transition rows, timestamps; the temp directories and `cleanup_status`
(`WorkloadJobDirs`: no guard of these transactions reads them); idempotency
keys and retries (a retry is a new job for the authority). Branches that
cannot run are named in comments next to the action and follow from proved
invariants: the `cancel_requested` branch of `try_admit` (`QueuedIsNotCancelled`), the
lease a job already holds in `_try_acquire_provider` (`WaitersAreLive`).
`resume_state` is `validating` and progress goes to `ProgressStates`, which is what
every caller in the repository passes. `_release_provider` with
`resume_state=awaiting_review` would park a job whose cancellation is pending; no
caller does it, and the model does not either.

Directories. `WorkloadJobDirs` takes every action of `WorkloadAuthority` and says
what it does besides: `Submit` makes the directory in its transaction, a
transaction that ends jobs resets their `cleanup_status` (`End`), `_await_review`
does not (`ParkWithDir`), `resolve_review` leaves the directory to a sweep
(`OtherStep`). What `_finalize_cleanup` does after the commit is not atomic: `Look`
(`exists`), `Removed` or `NotRemoved` (`rmtree`), `Record` (its own transaction). Such a
loop is followed as a member of `Cleaners`, apart from the invocation that runs it;
`HandOver` starts one or lets the caller die first, `Sweep` is the
`_retry_pending_cleanup` of any snapshot. `rmtree` may fail while the tree is there
(a file in use, a worker that does not know it is over) and must fail when another
loop removed it after `Look`. A tree removed in part counts as there.

The clock is assumed not to step: `time.time()` is a wall clock, and a stepped
clock would shorten or lengthen every lease.

### The artifact store

An artifact is an id. `life`, `seal` and `claim` are `lifecycle_status`,
`checksum_sha256` (as the content it is the checksum of) and `lifecycle_claim_id`
of its `artifact_records` row; `file` is the payload file named after it, `Torn` if
its write broke off. A put is `BeginPut` (the rows of the batch are read), then
per record `MatchExisting` or `WritePayload` (`O_CREAT | O_EXCL`), then `InsertRows` in one
transaction; when something fails it is `PutFails` or `WriteFails` and `CleanUp`, which
unlinks what this put created, file by file. An unlink may fail: `_cleanup_created_payloads`
goes on to the next file, raises `artifact_payload_cleanup_failed` in the end and
leaves the file, without a row, to nobody. `orphan` records such files, those of a
write that broke off and those of a writer that died, until somebody unlinks
them. An orphan without a row also makes every later put of its id fail, since the file is
opened with `O_EXCL`. `put_record` is a batch of one. A purge of a run, a
case, a chat or a source file is `ClaimRows`, then for each row `Unlink` and `SealRow`,
which are separate in the code, or `PurgeFails` and `Release`. Any of these may be cut
off by a death (`WriterDies`, `PurgeDies`). Left out: payloads that live in the row
(their put is one transaction), access checks and scopes beyond "the set a purge
may take", the abort of a canonical candidate, which is in `CanonicalVersions`.

### Canonical versions

A version is its number. `status`, `owner`, `bound` and `pointer` are its row in
`canonical_versions`, its `canonical_version_components` and
`canonical_active_pointers`; `life` is the lifecycle of the artifacts it is made of:
the manifest stands for the parts that are read by name, `Chunks` for the nodes and
tables that are listed. An actor publishes in one batch or streaming, resumes after
a restart with the version its run already has, finalizes, aborts what failed
(one transaction marks the parts, another seals them all), selects, activates and rolls back
by compare-and-set on the pointer, and derives a final version from the active
one. A reader reads the pointer, the manifest, the list and each part in a
transaction of its own. Expiry and purges interleave with all of it.

`VersionHistory` is what is left when parts, bindings, actors and transactions are
forgotten. `StageOf` reads the stage of a version off its status and its parts: drafted
(`CANDIDATE`), whole, lost (linked, but a part is no longer ready) or gone. A lost
version never becomes whole again, only a whole one becomes active, and a reader is
told all of the version it asked for or, if that one was lost, nothing (`AnswerTo`).
`Store` maps every part to a key of `ArtifactMap`.

### The Gate 4 cache

`active` and `life` are the world upstream: the active version per document and the
lifecycle of annotations. `cached[d]` is the annotations artifact whose generation
row and facts are stored for document `d`; the two are written and deleted together
and the annotations are immutable, so one variable stands for both. The current
source set is what Gate 3 readiness says of each document; it is derived one
document at a time (`See`), so a pass over the case may see a document before and
another after a change. The model reads what concerns one document in one step;
in the code a pass catalogs the case once, at its beginning, and reads the active version
and then each annotations artifact of a document separately. A pass of the code may
therefore miss annotations that appear while it runs. No property here depends on
that: what `GoneFactsAreOwned` rests on is that the annotations a source set names were
ready when the pass came to their document, and the code reads them then. A rebuild takes the source set, materialises, compares,
writes in one transaction, compares again, and clears what it wrote if upstream
moved. A read compares the generations, queries in a second `SELECT` (no
transaction), and compares the source set again. The triggers that take the
facts of withdrawn annotations are part of `Withdraw`.

### The mapping case

`history` is the sequence of revisions of the case, stored as artifacts under ids
made of the case and the number, so that a put of another content under a taken
number is refused (`PutConflicts`). A turn is `resolve()`; it reads the case
(`base` is the revision it goes by), may call the provider, and saves. Each save reads
the case once more (`SaveReads`, `prior`), decides (`Accepts`) and puts revision
`prior + 1` (`Put`). A revision is reduced to its status, the instruction it was made
under, the currencies the user asserted and the state of the batch plan. Batches
are done in plan order, so a plan is the number that is done, the token of the
attempt that claimed the next, and whether that one waits for a currency; this
is what `_validate_mapping_batch_state` enforces. `shape` says how the document fits the
provider's context: nothing to map, one request, batches, or too large. It is
fixed for a case here. In the code it follows from the size of the package, of which the
asserted currencies are a part (`build_mapping_package`): a document just below the
limit, whose one request is made again after an assertion, could become batches or too
large. That switch is not modelled; a plan that exists is pinned and does not change.

`MappingLedger` forgets revisions, turns and claims. It has the work on each batch, the
currencies asserted and the outcome of the case. `WorkOn` reads the work off the history:
a batch is answered if some revision counts it as done, asked if some revision waits
for its currency, sent if its call went out. Refused and repeated saves are stutters of
the ledger; a late one that is accepted, by a turn that goes by an old revision, must
be one of its moves or add nothing.

## 4. The runs

| Run | Instance | Checks |
|---|---|---|
| `MCProvider` | two Gate 2 jobs, one provider of budget 1, Lease 2, MaxStale 1 | `Consistent` (with `TypeOK` in it), `ProviderBudget`, `SlotsAreLive`, `CallsAreBudgeted`, `WaitersAreLive`, `LapsedWorkerOnlyFails`, and `ProviderIsServed` under `LiveSpec` |
| `MCQueue` | two Gate 1 jobs, capacity 1, Lease 2, MaxStale 1 | `LocalCapacity`, `AdmissionIsFifo`, `NoSuccessAfterCancel`, `QueuedIsNotCancelled`, the refinement `ImplementsContract`, and `QueueIsServed` under `LiveSpec` |
| `MCJobDirs` | two Gate 1 jobs, Lease 1, one cleanup loop | `DirInv`, `WorkersKeepTheirDirs`, `CleanedIsGone`, and `TerminalIsCleaned` under `LiveDirSpec` |
| `MCTold` | two Gate 1 jobs | `ToldMeansCancelled`, violated (section 6) |
| `MCStore` | two ids, two writers, two claims, one content | `StoreInv`, `RowHasPayload`, `FilesAreOwned`, the refinement `ImplementsMap` |
| `MCStoreLive` | two ids, one writer, two claims | `PurgeEnds` under `LiveSpec` |
| `MCVersions` | one run and the version derived from it, two actors, one reader, two parts, both ways to publish | `VersionsInv`, `PointerIsActive`, `ReadIsWhole`, `ReadersFailOnlyOnLoss`, `ActivatedIsWhole`, `FinalReplacesBase`, the refinement `ImplementsHistory` |
| `MCCache` | two documents, one annotated, two processes | `TypeOK`, `GoneFactsAreOwned` |
| `MCCacheLive` | one document annotated twice, two processes | `QuietIsServed` under `LiveSpec` |
| `MCCacheTorn` | the same | `NothingStaleIsServed`, violated (section 6) |
| `MCMapping` | every shape, two batches, two processes, two currencies, two instructions, two setbacks | `MappingInv`, `SentOnce`, `OneAtATime`, `CompleteIsEarned`, `NothingIsForgotten`, `CompleteIsLast`, `ReopenedByLateFailureOnly`, the refinement `ImplementsLedger` |
| `MCStaleAnswer` | the same with one instruction | `StaleAnswersFail`, violated (section 6) |

Why the bounds are enough to be interesting, and what they do not show.

*Authority.* The properties relate at most two jobs of a class (one ahead of the
other) or one job and its leases. Lease 2 with MaxStale 1 is the smallest
instance in which a lease can be good, good only for a late caller, and expired
for all; with Lease 1 a waiter would never wait. No run has three jobs, a
capacity above the number of contenders, a job that was submitted as `review`
(Gate 1 jobs do reach `awaiting_review`), or several providers: those are covered by
the theorems, which have no bound. Deadlock is checked: the clock always ticks.

*Directories.* The directory of a job is nobody else's, so two jobs that queue for one
place and one loop show every order of one loop beside the workers; the loop a dying
invocation leaves races with the sweep through its record. Two loops on one job are
covered by the theorems, for the safety properties only; that a directory goes in the end
is not checked with two loops.

*Store.* Two writers on the same two ids meet in every order of check, create,
insert and clean-up, a batch of two shows partial failure, of the clean-up too, and two claims show
one purge that takes over what another released. A second content would only
tell apart puts that `MatchExisting` refuses. Liveness needs the claims, and one
writer for something to purge.

*Versions.* A version and the one derived from it are the only pair whose order
matters to finalization; the manifest and one chunk show every torn read. Two
versions of different runs that replace one another are covered by the theorems.
`CHECK_DEADLOCK FALSE`, as both versions may be purged and every run stopped.

*Cache.* Two documents are needed for a pass that sees one before and the other
after a change; two generations of annotations for a late writer of an older one.
Each run has one of the two.

*Mapping.* Two batches have a first, a next and an end. `MaxSetbacks` bounds deaths,
changes of the instruction, failures of the provider and requests for a currency
together, which is what keeps a case finite; two of them show a death after a
failure or a currency asked for twice. `CHECK_DEADLOCK FALSE`: a case may be final
and every process idle.

Symmetry is used in `MCStore` (ids, writers), `MCVersions` (actors), `MCCache`
(processes) and `MCMapping` (currencies, instructions), none of which tells the
values apart or checks liveness.

### Fairness

`LiveSpec` of the authority assumes that time passes; that a live owner takes its
next step where its code has no choice (`OwnerAdvances`: go round a waiting loop, leave
the provider slot since provider calls have a transport timeout, react to a
refusal, finish `complete()` or `cancel()`), weakly fair; and that the body of a pipe
ends (`OwnerEnds`), strongly fair, since between two visits to `pc = "run"` it is always
somewhere else. Crashes disable the owner's steps, so fairness says nothing of a
dead owner: its job ends by recovery, which its *waiters'* own polling runs. Nothing
is assumed of heartbeats, users, or snapshots by others. Both liveness runs have
late clocks.

`LiveDirSpec` assumes that snapshots go on being taken (every pipe invocation,
progress call and poll takes one; in a system nobody uses, nothing is cleaned),
that a loop that begins again and again is in the end not cut off by a crash, and
that an obstacle to `rmtree` goes away.

`LiveSpec` of the store assumes that somebody goes on asking for a purge (the code
retries only when asked), that not every attempt to unlink or seal fails for
ever, and that a failed purge releases. A purge that died takes no step; what it
holds stays marked for ever, since the code has no recovery of a dead claim:
`PurgeEnds` excuses those rows by name.

`LiveSpec` of the cache assumes that a request that runs goes on to its end, weakly
fair, and that each process is asked for the case again and again. `QuietIsServed`
speaks only of what happens once upstream and clearings on request come to rest.

Nothing is live about a mapping case: it moves when a user writes.

## 5. The theorems

The theorems hold for every value of the constants; their assumptions are the
named ASSUMEs of the modules, which TLC evaluates in the runs.

*Authority.* `TypeCorrect` and `AlwaysConsistent` are by induction; `Consistent` is `TypeOK`,
`OwnerInv` and `ProviderInv`. `OwnerInv` is needed because the promise about a
cancellation is kept over several transactions: `cancel_requested` may be set only
while a worker can answer it, so states without one (`queued`, `awaiting_review`,
`completed`) never have it, and rows exist in submission order. `ProviderInv` is needed
because provider leases expire by their own column: `SlotInv` says they end
*exactly* with the worker's lease (both are always written with the same "now"),
so a recovery that releases the one also fails the other, and `CallInv` that a
worker inside `provider_slot` has lost its slot only if its own lease is gone.

From `Consistent` alone: `NoSuccessAfterCancel`, `QueuedIsNotCancelled`, `SlotsAreLive`,
`CallsAreBudgeted`, `WaitersAreLive`, and with one step of `Next` the action properties
`TerminalIsFinal` and `LapsedWorkerOnlyFails`. `ProviderBudget` and `LocalCapacity` are
inductions of their own over cardinalities (`OnlyAcquireTakesSlots`,
`OnlyAdmissionStartsWork`): a late clock only makes a caller count *more* unexpired
leases, so what it admits fits the present count too. `AdmissionIsFifo` is a third
induction over `OwnerInv`.

`AuthorityKeepsContract` proves the refinement, one step per action, from
`Consistent`: a recovery is the contract's `Reap`, a request to cancel its `Ask`, a
terminal call its `Settle`, the tick after which a lease is over its `Lapse`, and an
admission its `Start`. The last one needs that the contract's workers are among
those that a caller with a late clock counts. A lease granted so late that it is
over at once would leave the job outside the contract's working phase; `PhaseOf`
names the phase of such a row as well.

`DirsAlwaysConsistent` is an induction over `DirInv` beside `Consistent`: a step with
directories is a step of the authority (`DirsAreBesides`), which moves each job only
onward (`Onward`), so a loop that found a job parked or over can rely on it for as
long as it takes. `CleanedIsGone` and `WorkersKeepTheirDirs` follow. `DirsImplementAuthority` is that argument as a
theorem of its own, `DirSpec => Spec`: whatever is proved of the authority holds with
finalizers and sweeps beside it, the contract among it (`DirsKeepContract`).

*Store.* `StoreAlwaysConsistent`: `RowHasPayload` is not inductive, since whether a
clean-up may take a file depends on what its put created. `StoreInv` adds `PutInv` (a
put has made the files of what it has prepared and no others), `FileInv` (as long as
an id has no row, the put that made its file is the only one; once it has one, no
put answers for the file) and `PurgeInv` (what a purge holds is marked, and a file
that lies there after its unlink was made by a late put). `RowsKeepTheirPayload` and
`FilesAlwaysOwned` are parts of it; the latter says which files may lie there without a row
or a put behind them, and `OrphansAreFiles` that they are excused no longer than they
lie there. `StoreImplementsMap`: a commit is the map's `Publish`,
an expiry or a claim its `Withdraw`, a seal its `Forget`, and every other step, though
it writes and removes files, is a stutter by `RowHasPayload`.

*Versions.* `VersionsAlwaysConsistent` is an induction over `VersionsInv`: bindings
follow status (`GraphInv`), a purge takes a linked version as a whole
(`LostTogether`), what an actor is about to abort cannot be linked any more and what
it activates as final has the base it saw (`ActorInv`), what a reader did not find is
lost (`ReaderInv`). `PointerIsAlwaysActive` and `ReadersAlwaysServed` are parts of it;
`OnlyWholeIsActivated` and `FinalAlwaysReplacesBase` follow with one step of `Next`.
`ReadsAreWhole` is an induction of its own over the reader's steps: what its list missed is
found out when the root hash is computed again.

`VersionsImplementHistory` proves the refinement, one step per action. It needs
`HistoryInv` beside `VersionsInv`: the version an actor saw active was offered, and is
offered still or gone; the base of a derived version was made by a run; an idle
reader has asked for nothing. That a part that is not ready never becomes ready again in a linked version
makes `Lose` irrevocable. `VersionsUseMap`: a graph or a part that is stored is the
map's `Publish`, an expiry, an abort's marks and a claim its `Withdraw`, the seals its
`Forget`. With `StoreImplementsMap` the two modules meet: the parts of `CanonicalVersions`
do what a map does that the store implements.

*Cache.* `CacheAlwaysTyped` has one fact in it that is not a type: that every source
set names annotations that exist, for which the newest of a finite set of numbers
is proved to exist. `GoneFactsAlwaysOwned` is an induction over
`OwnedInv == TypeOK /\ RebuildsAreAsked /\ GoneFactsAreOwned`: a withdrawal takes the
facts with it by trigger, so facts of withdrawn annotations can only come from a
later write, whose second look finds the annotations gone (`SeenIsReady`).

*Mapping.* `MappingAlwaysAgrees` is an induction over `MappingInv`. Its heart is `Rank`,
which orders the states of a plan (idle, claimed, waiting; batch by batch; given
up or put together): every accepted save moves the last revision's rank onward or
keeps it (`AttemptMovesOn`), though the turn that saves goes by an older revision. On
top of it, a turn knows of every claim of its own, and as long as it goes by one
nobody else moves the plan on, because a claimed batch can only be completed,
made pending or given up, and only the turn with the token offers that
(`PlannedTurn`, `PlannedClaim`, `LateSaves`). `BatchesAreSentOnce` and `OneBatchAtATime` follow.
`NothingFollowsComplete`, `NothingIsEverForgotten` and `SettledStaysSettled` add that
revisions are only appended, each accepted after the one before it
(`HistoryGrows`). `CompleteIsAlwaysEarned` needs a strengthening of its own,
`PutTogetherLast`: a turn that is about to put the outcomes together goes by the last
open revision.

`MappingImplementsLedger` proves the refinement. It rests on `LedgerInv` beside
`MappingInv`: the assertions of a revision are among those of every later one; whoever
completes a batch that was asked about has the currency (`KnowsCurrency`); and every
assertion a turn holds answers a question some revision asked (`WasAsked`). The second
is not a consequence of `MappingInv`: a turn reads the currency at one revision and
saves after another, and only because assertions accumulate does the case it saves
into know it too. The proof follows the saves: those that are no news (`Harmless`),
those that move one batch, assert, or end the case.

Only model-checked: the liveness properties (`ProviderIsServed`, `QueueIsServed`,
`TerminalIsCleaned`, `PurgeEnds`, `QuietIsServed`; fairness and ENABLED are beyond the
prover). Only proved: `TerminalIsFinal` (the runs check `ImplementsContract`, in which terminal
phases stay too), `UsesMap` (the map over all parts is too slow to evaluate at every
step of `MCVersions`), `DirSpec => Spec` and `DirSpec => ImplementsContract`.

## 6. Findings

`ToldMeansCancelled`: when the cancellation commits between the worker's last
checkpoint and `session.await_review`, `_await_review` raises
`WorkloadCancelledError` but, unlike `transition`, `checkpoint` and `complete`, the
session does not answer it with `cancel()`. The Gate 1 pipe tells its user that the
workload is cancelled and leaves; the row stays active and keeps the only Gate 1
place until the lease runs out and recovery marks it `failed`
(`worker_lease_expired`). `NoSuccessAfterCancel` still holds.

`NothingStaleIsServed` (the cache). `_read` opens its connection without a
transaction, so the generations and the facts are read at different moments. A
rebuild that is late, for an older source set, may write between them; the
source set is still the one the read began with, so its last comparison passes
and the older facts are returned as current, until the late rebuild's own second
look clears them. The contract of the projection says that a stale cache fails
closed. One `BEGIN` around the two statements would do.

`StaleAnswersFail` (the mapping case). A currency is recorded if the case, read
again, asks for *a* currency; that it asks for *this* one was decided on what was
read before. If another turn answered and the case went on to the next batch in
between, the answer is recorded against the question nobody asked, the replay
is saved as an invalid output, and if the turn dies before that, the case waits
for a currency that every later answer is refused for. `PlanInv` still holds: no
batch is completed with it.

## 7. Not modelled

The rest of the inventory, for now (section 2).

Of the authority: contract hash and schema check (a process with another
configuration is refused before it acts, so capacities are constants),
idempotency and retry, and the directory that a crash between `mkdir` and the
commit of `submit` leaves without a row: no sweep can find it. A worker that goes on
computing after its lease lapsed is in the model up to its next session call,
which is refused; the work it does meanwhile beside its successor is not visible
to the authority.

Of the store and the versions: `read_container` and `read_table`, which hand out single
parts without computing the root hash again (`ReadIsWhole` is about the read of a
whole version), payloads kept inline, the building of a canonical
artifact and its capacity limits, retention policies beyond "may expire". That a
SUPERSEDED version may be activated by a product path that selected it earlier is in
`CanonicalVersions`; the documents do not say that it may not.

Of the cache: the contents of facts, and the queries by type, id, asset and period,
which share `_read` and differ in what they select.

Of the mapping case: cases of retired schema versions (exclusion confirmations,
instructional classification, batch states v1 and v2), which this code finishes
but never begins; the call counters; and the canonical version, which is fixed
for the life of a case here. In the code a version that is activated during a
provider call makes the save go to the case of the new version; that takes two
cases at a time and is next in the plan.

The validators, contracts and projections of Gates 2 to 5 are by far the larger part
of the source and are pure functions of large documents: nothing interleaves in
them, and their inputs are out of TLC's reach.
