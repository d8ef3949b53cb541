# A TLA+ verification of objsds

objsds keeps data structures (a map, an append-only log, a work queue) in
single objects of an object store.  Every operation gets the whole object,
changes the decoded document and, if it writes, replaces the object on the
condition that its version is still the one it got.  There is no server and no
coordination other than that condition; nothing is retried.  This directory
models the structures, the stores below them, the Node.js binding and the
worker loop above them, and the way a release reaches its registries.  It
checks them with TLC and proves the safety of all of them with TLAPS, among it
that the queue, the map, the filesystem store and the S3 store implement their
abstract specifications; liveness is left to TLC.

Paths below are relative to `src/crates/` of the repository unless they start
with `src/`.

## Inventory

| Component | State | Operations | Interacts with |
|---|---|---|---|
| Queue (`objsds-queue/src/lib.rs`) | one document: messages sorted by UUIDv7 id, each with attempts and an optional lease (token, deadline) | `publish`, `claim`, `ack`, `len`, `is_empty` | store (get, replace), wall clock, UUIDv7 generator |
| Map (`objsds/src/map`) | one document: a sorted map from strings to values | `get`, `entries`, `insert`, `insert_if_absent`, `remove` | store |
| Log (`objsds/src/log`) | one document: records sorted by UUIDv7 id | `append`, `get`, `records`, `records_after` | store, UUIDv7 generator |
| Lifecycle (`objsds/src/lifecycle.rs`, `document.rs`, the builders; the queue has its own copy) | the metadata of the document: format version, kind, schema | `create`, `open`, `open_or_create` | store (get, create) |
| Object-store trait (`objsds-store`) | none: a contract | `get`, `create`, `replace` | implemented by the adapters |
| Memory store (`objsds-store-memory`) | objects and a version counter under one mutex | the contract | |
| Filesystem store (`objsds-store-filesystem`) | files, lock files, temporary files | the contract | kernel: advisory locks, rename, sync |
| S3 store (`objsds-store-s3`) | none: an HTTP client | the contract, by conditional PUT and GET | an S3-compatible service |
| Node binding (`objsds-napi/src/lib.rs`, `npm/src/index.ts`) | a registry from numbers to open structures; objects with a `closed` flag and a finalizer | open, use, `close`, abort | libuv pool, garbage collector, all of the above |
| Client configuration (`objsds/src/client.rs`, the builders, `objsds-store/src/location.rs`, `objsds-store-filesystem/src/path.rs`) | the namespace, kind, name and schema of a structure | `build`, `Location::structure`, `object_path`, `lock_path` | decides which object, directory and lock file a structure uses |
| Performance harness (`objsds-tests/tests/rustfs_perf.rs`) | a shared count of completed items | the worker loop: claim, ack, retry, stop | queue |
| Release tooling (`src/scripts/release.py`, `src/.github/workflows/release.yml`, `src/mise.toml`) | what crates.io, npm and GitHub show of each version; the jobs of each run | resolve, validate, publish, tag, re-run | two registries, GitHub |
| Errors, native loader and build scripts | none, or read once at start | | |

What is hard in this code:

* **Decisions on old state.** A claim or acknowledgement is decided on a clock
  reading and a snapshot and takes effect several requests later.
* **Other actors between any two requests**: threads, processes and machines
  with their own clocks and id generators.
* **Ambiguous errors.** A replace that returned `Error::Store` may have been
  applied, or be applied later, or never.
* **Versions that recur.** S3 ETags are content hashes; a map or a queue can
  return to an earlier content and so to an earlier version.
* **Crashes** between lock, write, sync, rename and directory sync, and power
  loss, in the filesystem store.
* **Two-request verdicts**: the S3 store reports a conflict's observed version
  from a second request; `open_or_create` looks, creates and looks again.
* **Cancellation and release** in the binding, while calls wait or run.
* **Names.** Strings that callers choose become paths; two structures must
  never share an object, a directory entry or a lock file.
* **Retrying loops** above calls whose errors are ambiguous: a count that must
  be exact although items are claimed twice and answers are lost.
* **Releases in pieces**: seven packages in two registries, uploaded by two
  jobs that may fail, be re-run and overlap with another run.

`PROJECT.json` lists these hazards at their lines with the properties that
cover them.

## Modules

| Module | Models | Properties |
|---|---|---|
| `Queue` | publish, claim, ack as read and replace steps; conflicts, lost answers, late requests, dying workers; clock error `MaxSkew`; u64 and u32 limits | `TypeOK`, `StoredIdsIncrease`, `NoLostMessage`, `AckedStaysGone`, `AttemptsCountClaims`, `OnlyLatestClaimAcks`, `DeadlinesGrow`, `LeaseExclusive`, `PublishAppends`, `Linearizable` |
| `AtomicQueue` | what the queue promises: each operation at once on the current messages | (abstract specification) |
| `Map` | the five operations, as one read and at most one replace | `TypeOK`, `VersionNamesSnapshot`, `Linearizable` |
| `AtomicMap` | what the map promises | (abstract specification) |
| `Log` | append, and a reader that polls `records_after` | `RecordsIncrease`, `AppendOnly`, `TailComplete` |
| `Lifecycle` | create, open, open_or_create with schemas, lost and late creates | `HandlesAgree`, `OneCreator`, `VerdictsHold` |
| `ObjectStore` | the contract of the trait; the memory store | (abstract specification) |
| `Location` | from configured strings to object paths and lock files | |
| `FilesystemStore` | every system call that matters, failures, kills, power loss, temporary files | `CompareAndSwap`, `NoTornObject`, `AckedSurvives`, `TemporariesOwned`, `LocksReleased`, `Linearizable` |
| `Structures` | `FilesystemStore` at the locations that `Location` builds | `ObjectsApart` |
| `S3Store` | the adapter and the service's answers | `Linearizable` |
| `S3Conflicts` | `S3Store` with a history of expected versions that were not current | `ConflictMeansStale` |
| `Binding` | handle registry, pool, abort, close, finalization | `HandlesResolve`, `ReachesOwn`, `CallsEnd`, `EntriesOwned` |
| `Worker` | the clients that drain a queue: conflicts, transient answers, errors, expiring leases | `TypeOK`, `CompletedExact`, `AssertionsHold`, `QueueDrains`, `LoopsEnd` |
| `Release` | runs of the release workflow: version, two publishing jobs, tag, faults, re-runs | `TypeOK`, `TagComplete`, `NeverPremature`, `OnlyQueueLeftBehind`, `ReleaseResumes` |
| `MC*` | instances for TLC | |
| `QueueProofs`, `MapProofs`, `LogProofs`, `LifecycleProofs`, `StoreProofs` (filesystem store, locations, S3 store), `BindingProofs`, `WorkerProofs`, `ReleaseProofs` | lemmas and proofs | |

A definition whose comment begins with "Faulty variant" is a plausible bug in
the definition after it.  Specifications do not use these; replacing the
definition by its variant must make a property fail, which shows that the
property says something about that line of code.

### How state and actions correspond to the code

*Queue.* `store` is the object: its version and decoded messages.  A worker's
local variables are `request[w]` and its place in the function is `pc[w]`.
`PublishRead` is line 338, `PublishPrepare` lines 339-349, `ClaimStart` lines
363-370 (duration, clock, `checked_add`), `ClaimRead` lines 371-391, `AckStart`
line 409, `AckRead` lines 410-425; the `write` of all three is `Replace` (Ok),
`Conflict`, `LoseReply` (an error after the request left) or `Abandon` (an
error before, or the worker's death).  `LateArrival` applies a request nobody
waits for.  Payloads are left out since they never influence control.
Histories `published`, `granted` and `removed` record what took effect, for the
properties only.  Clock readings are the true time plus or minus `MaxSkew`,
clamped to u64 as `now_millis` does.

*Map, Log.* The same shape with one read step, since ids and values are drawn
or known before any second request.  In `Log` a version is the content itself,
because contents never recur; in `Map` the variable `hashes`, fixed initially,
tells stores with fresh versions from those with content hashes.  A request
that outlives its caller keeps one of `MaxInFlight` slots, so that two equal
ones stay two.  `Follow` is a client of `records_after`, which finds its place
by `partition_point`.

*Lifecycle.* `Probe` is the first get of `open_or_create`, `Read` the
validating get, `CreateApplied`, `CreateRefused` and `CreateLost` the outcomes
of the conditional create.  An initial object is absent or foreign; compatible
objects appear by being created.

*ObjectStore.* A call is pending until it is applied, denied or fails; the
version reported with a refusal may be read after the refusal.  `late` holds
requests that outlive their call.  `FreshVersions` tells stores with counters
(memory, filesystem) from stores with content hashes (S3).  A call is denied
(`Deny`) only when its condition does not hold, as `objsds-store/src/error.rs`
says of `AlreadyExists` and `Conflict`.  What a power loss does to the
filesystem store and what the answer 409 does to S3 are outside the contract
and named so in the two refinements.

*FilesystemStore.* `files` is what processes see, `disk` what a power loss may
leave, `parents` the directories the adapter creates and never syncs. `Prepare`
is `prepare_path`/`object_path`, `Acquire` the advisory lock, `Inspect`
`read_path` and the condition, then `Write`, `Sync`, `Rename` and `SyncDir` are
the lines of `publish`.  `Fail` is `?` at any of them, with the removal of the
temporary file that `publish` attempts; `Leave` is the return to the caller,
`Kill` the end of its process between any two system calls. `temps` holds the
temporary files, and the history `orphans` those that nobody is going to
remove.

*Location.*  No state: the checks of the builders as predicates and the paths
as sets of (depth, word) pairs, so that one path lies below another exactly if
its set contains the other's.  A string is the sequence of its words between
slashes; the words "", "." and ".." are named, since only they are treated
specially.

*S3Store.* `Serve` is the service, `Receive` the match on the response,
`Inspect` the GET of `observed()`.  An object deleted by others is `Delete`.
`Compete` is the answer 409 that the service may give to one of two competing
PUTs; the adapter takes it for a failed condition, and it is the one step that
is not the contract's.  To the structures above a 409 on a current version is
one more way in which a call has no effect: in `Queue`, `Map` and `Log` it does
what `Abandon` and `StoreFails` do, in `Worker` it is repeated like a
`Transient` answer to a request that was not applied.

*Binding.* A task moves from queued to opening or using to finished;
`BeginOpen` is `compute` up to `state.handle()`, `Register` the insertion into
the registry, `BeginUse` the lookup, `Deliver` the promise's continuation,
which creates the JavaScript object.  A structure is known by the number of the
call that opened it.

*Worker.*  `Continue` is the loop's condition, `ClaimRead` and `Grant` the call
of `claim`, `AckRead` and `Acknowledge` that of `ack` with the increment of the
shared count; `Conflict`, `Transient` and `Fail` are the arms of the two
matches.  The last two do not tell whether the request was applied
(`NotAnswered`): a 5xx answer, a timeout or an answer without an ETag may hide a
claim or a removal that took effect, and the history `lost` has the messages
that were removed in this way.  The queue below is the one that `Queue` and its proofs describe: a
snapshot is current or not, and the attempt number stands for the lease token,
as `AttemptsCountClaims` and `OnlyLatestClaimAcks` allow.  Time is reduced to
leases running out, under their worker (`ExpireHeld`) or with nobody left who
knows of them (`ExpireOrphan`).

*Release.*  `Dispatch` starts a run, `ReadCrate` and `Resolve` are
`published_versions` and `resolve_version`, `Validate` the check for an
existing tag among those that the version job's checkout fetched (`Checkout`),
`Package` the build jobs.  `Status` and `Upload` are the loop of
`publish`, `View` and `UploadNpm` the job for npm, `GithubRelease` the last
job.  `CratesFault`, `NpmFault` and `Fault` fail a request, with its effect or
without; `Conclude` is a run with a failed job, `Rerun` its second chance,
which keeps the version once it was resolved.

## Runs

| Run | Instance | Shows |
|---|---|---|
| `queue_processes` | 2 workers in 2 processes, 2 ids, 2 tokens, durations 0 and 1, exact clocks, time to 2, u64 and u32 limits 2 and 2, content versions, one late request | all invariants, `PublishAppends`, and the refinement of `AtomicQueue`, under ambiguous errors and recurring versions |
| `worker_drain` | 2 clients, 3 items, 2 transient answers, 1 other error, each with its request applied or not, 1 lease that runs out under its worker, fair | the count is exact but for the messages in `lost`, the final assertions hold, the queue drains, and the loops end if `lost` stays empty |
| `map_operations` | 2 workers, 2 keys, 1 value, 3 writes, one late request | refinement of `AtomicMap` for both kinds of version |
| `log_processes` | 3 writers in 2 processes, 4 ids, one late request | sorted and append-only; a polling reader misses a record only behind another process's id |
| `lifecycle_races` | 3 callers, 2 schemas, one late create per schema | one creator, one schema, true verdicts |
| `filesystem_store` | 2 clients, 1 file, 3 revisions, failures, kills, power loss, fair; names from 8 words for `ObjectsApart` | no torn object, durable writes, compare-and-swap, no stray temporary file, one structure per object, locks are released, refinement of `ObjectStore` |
| `filesystem_aliases` | 2 locations, 1 file | **violated**: compare-and-swap through aliases |
| `s3_contract` | 2 clients, 2 contents, deletes, 409 answers, one late request each | refinement of `ObjectStore`, with 409 answers as the one step outside |
| `s3_competing_writes` | 2 clients, 1 key, 2 contents | **violated**: `Conflict` on a version that was current throughout |
| `binding_calls` | 3 calls at a time, 2 workers, 2 kinds, 2 opens, fair | handles lead to their own structures; every call ends |
| `binding_abort` | 1 call | **violated**: an aborted open leaves an unowned entry |
| `release_runs` | 2 runs, one version that can be entered by hand, 2 attempts, 2 faults, 1 re-run, fair | tags are complete, uploads in dependency order, what the next patch leaves behind, a partial release can be finished |

The three violations are disagreements between the code and its documentation
and are described under "findings" in `PROJECT.json`.  None of them loses a
queue message, or a map entry or log record of a structure that a builder
opened.

Three smaller ones can be read off the modules without a run.  `ack` reads the
clock (`AckStart`) before it gets the document and does not look again, so that
even with exact clocks a removal may be applied after the deadline, where
`objsds-queue/src/lib.rs:10` says that it happens only when the lease "has not
expired"; `OnlyLatestClaimAcks` is why this is harmless: nobody else has claimed
the message in between.  `open_or_create`
of a present object takes `Probe` and `Read`, two gets, where
`objsds/src/map/builder.rs:77` and `objsds/src/log/builder.rs:77` say "Performs
one read when present."  And the version that an S3 conflict reports comes from
a later GET (`Inspect`): when another writer restores the content in between,
it is the expected version itself, while `objsds/src/lib.rs:53` speaks of
another version.

**Why the bounds are enough.**  Each conflict involves two actors and at most
one more that undoes the first one's change; two workers that start operations
again and again play all three parts.  Two messages are what ordering needs,
two tokens what a reclaim needs, and two ticks of time let a lease run out and
be given anew.  The queue's run has exact clocks and content versions, the kind
that can recur, because late requests, recurring versions and clock error
together are too many states; the proofs, that of the refinement included, hold
for every clock error `MaxSkew` and for both kinds of version.  u64 and u32
limits are small so that they are reached.
Three revisions let a file be created, replaced and lost to a power failure;
two clients are a lock's holder and its waiter, and the proofs hold for any
number. Three items and two workers let one worker hold a claim that another
takes over while a third message keeps the loop going.  Two runs of the release
can overlap on one version and one of them can be re-run; two faults let both
fail.  `MaxInFlight`, `MaxTime`, `MaxOpens`, `MaxRevision`, `MaxVersion`,
`MaxFaults`, `MaxErrors`, `MaxExpiries` and `MaxReruns` bound what would grow
for ever, and only limit how often something happens. Symmetry is declared over
model values that no definition tells apart (in the queue's runs the two
processes together with their workers, and the tokens), and never in a run with
a liveness property.  Deadlock checking is off in the runs of `Binding` and
`Release` only: a program that has closed its objects stops, and so does a
release whose runs have ended.

**Fairness.**  `FilesystemStore!FairSpec` assumes that a started call keeps
taking its steps, which holds as long as system calls return; a failed call is
not assumed to happen, and lock waiters need no fairness among themselves for
`LocksReleased`.  `Binding!FairSpec` assumes that store calls return, that the
event loop turns, and that the pool serves its queue in order (strong fairness
of taking a queued task).  `Worker!FairSpec` assumes that threads are
scheduled, that store calls return, and that a lease nobody can acknowledge any
more runs out.  `Release!FairSpec` assumes that started jobs keep running;
nobody is assumed to dispatch or re-run anything.  The structures have no
liveness properties: with no retry in the library, progress under contention is
up to the caller.

## Proofs

All theorems are about every value of the constants that the `ASSUME` of the
module allows, which gives their types (and in `Location` what is said of file
names below); the hypotheses beyond that are named in the table.  A property of a run that is proved has its theorem listed in
`PROJECT.json`.

| Module | Theorems | Further hypotheses |
|---|---|---|
| `QueueProofs` | `TypeCorrect`, `DocumentsStaySorted`, `AtLeastOnce`, `AckedNeverReturns`, `AttemptsExact`, `StaleTokensPowerless`, `DeadlinesIncrease`, `LeasesExclude`, `PublicationOrder`, `QueueLinearizable` | none |
| `MapProofs` | `MapTyped`, `VersionsNameSnapshots`, `MapLinearizable` | none |
| `LogProofs` | `LogSorted`, `LogAppendOnly`, `ReaderComplete` | none |
| `LifecycleProofs` | `SchemasAgree`, `CreatedOnce`, `VerdictsTrue` | none |
| `StoreProofs`, filesystem | `FilesTyped`, `ObjectsIntact`, `AckedWritesSurvive`, `ForgottenWithDirectoryOnly`, `RenameIsCompareAndSwap`, `NoStrayTemporaries`, `FilesLinearizable` | `OneFilePerLocation`; for the refinement also finitely many clients |
| `StoreProofs`, locations | `ConfigurationsApart`, `BuiltLocationsOneFile`, `ObjectsKeptApart` | none |
| `StoreProofs`, S3 | `S3Linearizable`, `S3StrictWithoutCompetition` | the second: no 409 answers |
| `BindingProofs` | `BindingTyped`, `ObjectsResolve`, `CallsReachOwn` | `MaxOpens <= HandleCount`, not for the types |
| `WorkerProofs` | `CountExact`, `AssertionsNeverFail`, `WorkerTyped` | none |
| `ReleaseProofs` | `TagsComplete`, `UploadsInOrder`, `ReleaseTyped`, `NothingElseLeftBehind` | none |

*Queue.*  None of the properties is inductive, since what a replace writes was
decided on a snapshot steps before.  `IInv` adds what every request that may
still be applied carries, whether its worker waits for it or it is in flight
(`RequestOK`): if its version is current then so is its snapshot, a publish
carries an id that is in no document and in no other request, a claim the first
message its snapshot offers, a token that was never granted and a deadline
beyond the lease it replaces, an acknowledgement the token of the lease it
found.  `StampsUnique` says that two requests never share an id or a token, and
`MessageOK` ties each stored lease to the last granted claim.  With content
versions the argument is that the version is the snapshot; with counters, that
a version is given out once.  `PublicationOrder` needs `OrderInv` beside it:
an id of a process lies above all ids of that process in the snapshot it is
going to be added to, because the generator does not go back and the id is
drawn after the read.  `QueueLinearizable` then shows that an applied request
is a step of `AtomicQueue` on the messages as they are (`Effect` says what
each of the three does to the set of messages) and that every other step
changes nothing there.

*Map.*  `MapInv` relates version and content of the object and of every
request that may still be applied: a content hash is the content, a counter is
the number of writes before it.  So a request whose version is current has the
current entries, and its effect is that of the operation on them, which is what
`MapLinearizable` needs.  Late requests are told apart by their slots in
`AtomicMap` too: without that, two equal ones would be one element there, and
the arrival of the first would hide the second.

*Log.*  `LogInv` keeps with each append that may still be applied that its id
lies above the ids of its own process in its snapshot (`AppendOK`), as in the
queue.  `LogAppendOnly` names the place that each record has after the step;
`ReaderComplete` rests on `TailOK`, which says of the reader what
`TailComplete` does and that all it has is stored.

*Lifecycle.*  Metadata never changes once it is there.  `LifecycleInv` adds
what makes this inductive: `Grounded` (no handle and no acknowledged creation
before there is an object) and `Knows` (what a caller between two requests has
already learnt).

*Filesystem store.*  `FileInv` carries the inspected condition to the rename:
whoever is between the two holds its location's lock alone.  `filesystem_aliases`
shows that `OneFilePerLocation` is needed.  `AckedWritesSurvive` is about the
history `acked`, the newest acknowledged write of each file, which forgets a
file whose directory a power loss took before anybody synced it (`prepare_path`
creates directories and does not sync their parents); `ForgottenWithDirectoryOnly`
says that it never forgets otherwise.  For the refinement the version of a
write has to be new to the contract: `FreshInv` says that the writers between
inspection and rename hold different revisions, none of them ever visible, and
that no more were given out than `MaxRevision` leaves room for, which is a
count over the clients and the reason why there have to be finitely many.  A
rename is `Apply` of `ObjectStore`, the other steps before a result are none,
and `PowerLoss` is the only step outside the contract.  The adapter never
leaves a request behind, so the contract's `late` is a constant function
(`NoneLate`).

*Locations.*  From the assumptions that `format!("{name}.json")` is injective
and never gives an empty or a dot name, and that no lock file is called as a
kind is: a built location has exactly three words, none of them special, so no
word is dropped and the path determines the three parts.
`BuiltLocationsOneFile` draws the conclusion that discharges
`OneFilePerLocation` for structures that the builders made.

*S3 store.*  `StoreProofs` has `S3Store` as an instance with variables of its
own.  The service decides a PUT at one instant, `Serve`, which is `Apply` or
`Deny`, or answers 409 (`Compete`), which `S3Linearizable` allows beside the
contract and `S3StrictWithoutCompetition` excludes by hypothesis; the answer and the GET after a refusal only report it, whatever happened
in between.  `S3Inv` is what that needs: a replace on its way names a version
and a write has a body, also when its caller has given it up, and a call that
inspects was refused.

*Binding.*  No variable tells which handle a structure drew.  `BindingInv` says
that there is an assignment of handles to the structures that drew one, without
repetition and in the order of the counter, with which registry, calls and
objects agree.  After more than `HandleCount` opens the counter of the code
wraps around and the properties are no longer promised, hence the hypothesis;
with 32 bits that is four billion opens of one client.

*Worker.*  The invariant says of a worker about to replace on a current
snapshot that its message is still there, so that two workers with claims of
one message never both remove it, and that no
message in `lost` is still in the queue (`NotAnsweredKeeps` is the step in which
a request may have been applied and its worker does not know); that the counter stays within the number of
items follows from the count.

*Release.*  Registries only grow; `ReleaseInv` says that a job at crate `next`
has found or uploaded all crates before it in this version, and that a job that
is "ok" has found all of them.  `ResolveInv` adds that crates.io took `objsds`
only after its dependencies and that the versions a run has read were there, so
that the version before the one it resolves lacks at most `objsds-queue`.

Only model-checked is liveness: `LocksReleased`, `CallsEnd`, `QueueDrains`,
`LoopsEnd` and `ReleaseResumes`.  It needs reasoning about fairness and
`ENABLED`, which the prover does not do.  The three properties that the code
violates have no theorem, of course, except that `CompareAndSwap` holds where
locations are distinct files, and that a refusal by S3 means what the contract
says where no 409 is answered.

## Not modelled

* JSON encoding, payloads, error types and their texts: no control depends on
  them beyond what the modules say.  Of the binding, the envelopes of results
  and errors and the construction of clients; `len`, `is_empty` and `Log::get`
  are one get each and change nothing.
* The S3 builder and its credentials (`objsds-store-s3/src/builder.rs`,
  `credentials.rs`): they configure the HTTP client once, when the store is
  built, and keep no state that an operation changes.
* Documents written by anything but this code, symbolic links below the
  filesystem root, and files changed by others: declared unsupported, or
  rejected with an error before anything changes.
* The HTTP client's own behaviour below a request (redirects, connection
  reuse) and whether it repeats a request by itself.
* Binary selection of the npm package and the build scripts; the harness's test
  of map and log contention, which asserts nothing about their contents.
* Of the release: staging the version in the manifests, rehearsals (they write
  to no registry), and which commit a package was built from.

One hazard of `PROJECT.json` has no property: lock file names that exceed the
length the filesystem allows, since lengths of names are not modelled.

## Plan

1. *Prove further.*  What the queue's and the log's document look like to
   `read()` (metadata and schema included) once `Lifecycle` and `Queue` are
   composed; what a reader of the queue may conclude from `len`.
2. *Model more.*  The queue on the contract: `Queue` composed with
   `ObjectStore` instead of its own store steps, so that the proved refinements
   of the adapters carry over by a theorem.  Handle wraparound of the binding.
