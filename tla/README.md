# Flyology Object Storage in TLA+

This directory specifies the object storage library in `src/src`, its SQLite
backend in `src/sqlite` and its server in `src/server`.  The three backends, the
management console with the handlers it calls, and the client's batches of
transfers are modelled and model-checked with TLC; their main safety properties
are proved with TLAPS for every value of the constants.  The other components
are inventoried below, with the reason why they are not modelled.

Paths in this file are relative to the repository unless they name a module.
`memory.adb` is short for `src/src/flyology-object_storage-backends-memory.adb`.

## 1. Inventory

| component | state | operations | hard behaviour |
|---|---|---|---|
| **Memory backend** (`…-backends-memory`) | bucket, object, upload and part slots, `Next_Version`, `Next_Upload`, `Bytes`, `Reserved_Bytes`, all inside the protected object `Memory_State` | bucket administration, write, copy, read, delete one or many, lock, annotate, multipart | a streaming call makes many protected calls and runs the caller's source or sink between them, so any two calls interleave; cancellation, deadlines and `Storage_Error` at each of these points |
| **Files backend** (`…-backends-files`) | a directory tree of generations, tombstones, uploads and bucket documents; the publication gate; one root lock | the same | crash or power loss between temporary file, `fsync`, rename and directory `fsync`; recovery at `Open`; superseded null generations |
| **SQLite backend** (`…-backends-sqlite`, `…-sqlite-catalogs`) | payload files, catalogue tables, annotation leases, the operation gate | the same | payload published before the catalogue commits; removal of unreferenced payloads against readers and copies; start-up garbage collection |
| **Backends contract** (`…-backends`) | none; the types and the abstract operations | – | what all three backends promise |
| **Value predicates** (`flyology-object_storage.adb`) | none | conditions, ranges, versioning merge, tag and metadata rules | boundary values |
| **Client operations** (`…-client-low_level`, `-buckets`, `-objects`) | one composable operation at a time | prepare, execute, decode | ambiguous outcomes: a request that may have taken effect |
| **Client transfers** (`…-client-transfers`) | upload identity, parts done, temporary download file, a wave of transfers | `Upload_File`, `Download_File`, `Transfer_Many` | best-effort abort, lost completion, cancelling the rest of a wave |
| **Management console** (`src/server/assets/app.js` and the handlers) | the page: view, rows, poll timer, object list; the sessions | sign in and out, refresh, poll, browse, create, delete | one thread, but every `fetch` is a point where clicks, timers and other answers come in between |
| **Server application** (`…-server-s3_applications`) | that of its backend | routing, authorisation, translation | several backend calls for one request |
| **Server executable** (`src/server/src`) | sessions, runtime status, the stop request | start, serve, drain, stop | stop against serving and drain timeout |
| **Signature, MFA, credentials** | static tables | verify, look up | none that interleaves |
| **Codecs, checksums, generated model** | none | parse, format, digest | byte-level conversions |

How they interact: a server application or an embedding program calls a
`Backends.Store`; a backend calls back into the caller's `Byte_Source` and
`Byte_Sink`, outside its lock; the client library and the server application
meet only over HTTP; the executable owns a server, a backend and the sessions.

What makes each correct, in short: the *memory backend* keeps its byte budget
exact, its version IDs unique, its null generations single and its locked
generations whole; the *durable backends* keep every acknowledged write across
crashes and lose no payload that a row or a name refers to; the *client
transfers* report one truthful outcome per subject and leave nothing staged
where they can help it; the *console* shows what its last answers said, polls
once, and never stays disabled or signed in after its session ended.

`PROJECT.json` lists the components with their sources, and the hazards with
their lines.

## 2. Plan

Done, in this order:

1. `MemoryStore`: buckets, generations, conditions, object lock, annotations,
   the byte budget and the streaming calls.
2. `MemoryMultipart`, which composes uploads and parts with the store.
3. `MemoryStoreProofs` and `MemoryVersionProofs`.
4. `FilesStore`: the gate, renames, unlinks and barriers, crashes, power loss
   and the recovery at `Open`.
5. `DurableVersions`, the abstract promise of a durable store, implemented by
   `FilesStore` and by 7.
6. `ManagementConsole`: the browser workbench with the management handlers.
7. `SqliteStore`: payload publication, catalogue commits, retirement, leases,
   faults and the start.
8. `ClientTransfers`: batches, multipart uploads and downloads against a server
   and a network that may answer late or never.
9. `ClientTransferProofs`, `FilesStoreProofs`, `SqliteStoreProofs`,
   `MemoryMultipartProofs` and `ManagementConsoleProofs`, with the facts about
   least elements and finite sums in `ArithmeticFacts`.

What is left is listed in section 6.  Of it, the following would add most:

10. An abstract history per key, implemented by `MemoryStore`, beside
    `DurableVersions` for one key of the durable backends.
11. Tags and named configurations of the memory backend; the listing algorithm
    against a reference definition.

## 3. The modules

### MemoryStore

Every procedure of the protected object `Memory_State` is one action: Ada runs
it under the lock.  Calls that stream a body are a record `call[c]` per client
task `c`, which moves through one action for each protected call, because the
code between them (the caller's `Read`, an allocation, the MD5) runs unlocked:

    PutObject ── Start ──> read ──Read──> grown ──ReleaseOld──> read … Commit ──> unwind ──> idle
                            │               └─AllocationFails──> unwind
                            ├─ Read, doubling does not fit ──> exact ──RetryExact──> grown | unwind
                            └─ Abandon ──> unwind ──ReleaseBuffer, ReleaseNotes, ReleaseSnapshot──> idle

`Copy_Object` starts from `Fetch_For_Copy`, which charges the copied source and
its annotations; `Put_Object_Annotation` ends in `Put_Annotation`;
`Get_Object` and `Get_Object_Annotation` hold a charged snapshot until the sink
has taken it.

| variable | code |
|---|---|
| `buckets` | `Buckets`: used, versioning, MFA Delete, object lock, and the sizes of the policy (charged while the new one is checked) and of one other document (discounted first), since the code budgets these two kinds differently |
| `objects` | the used object slots, as a set; `order` is `Publication`, `null` is `Is_Null_Version`, `cap` is the capacity of the body and `notes` that of the annotation |
| `order` | `Next_Version` |
| `bytes`, `reserved` | `Bytes`, `Reserved_Bytes` |
| `now` | the wall clock in half seconds; `UnixTime` is `Current_Unix_Time`, which rounds to the nearest second |
| `call` | the local variables of a streaming call: buffer capacity, the array a growth replaces, snapshot, annotations, bytes read |

Abstractions.  A body is a model value with a length and stands for its ETag.
An exact version ID, a digest of the order, is the order.  A generation has at
most one annotation.  Slots are a set, so their number counts and their index
does not.  A source delivers its body in pieces of at most `Chunk`; it may
declare its length truly, falsely (`Slips`) or not at all.  A call that is
refused before it changed anything is a stuttering step.  `Delete_Objects` is
one protected call over its entries, here two, written as a function on
`Catalog` applied twice.  A call reads the clock before it waits for the lock,
so a lock decision uses any earlier reading (`Readings`).

### MemoryMultipart

Adds `uploads`, `parts` and `nextUpload`, and the operations Start, part upload
(the same streaming call, ending in `CommitPart`), part copy, completion and
abort.  `DeleteBucket` is strengthened to `DeleteEmptyBucket`, which also looks
at the uploads, as the code does.  Completion is one action: its checks, the
assembly, the publication, the release of all parts and of the upload happen
under the lock.  A completion that is refused before it reserves the assembly
changes nothing and is a stuttering step; one that fails afterwards (no order or
slot is left, or an allocation raises) is `CompletionFails`, which gives back what
was reserved.

### MCMemoryStore, MCMemoryMultipart

Sizes of the model's bodies, the symmetry of the clients and the property that
the documentation claims of the retention instant.

### FilesStore

One key of one bucket of the files backend (`files.adb` is short for
`…-backends-files.adb`).  A directory is a record of what the running system
sees and of the states that a power loss may bring back; a barrier
(`SyncPath`, the C function `sync_path`) empties the second.  Every rename,
unlink and barrier of an operation is an action, in the order of the code, and a
fault may come between any two.

| variable | code |
|---|---|
| `objects` | the record at the object path: the legacy null generation |
| `versions` | the generation files: opaque, null, markers and null tombstones, each with its publication number |
| `notes` | the identities that have annotation sidecars |
| `configuration` | the versioning configuration |
| `staged` | bodies staged by tasks that wait for the gate |
| `op` | the operation that holds `Publication_Gate`, with the step it is at |
| `open`, `faults` | the store is open; the process deaths (`process`), power losses and barrier errors (`device`) so far |
| `noted`, `everNoted` | history: which bodies were acknowledged with an annotation |

`Put_Object_Internal` is `Stage`, `BeginPut`, `CopyNotes`, `Publish`,
`RetireNotes`, the removal of superseded null generations and `Finish`;
`Delete_Objects` runs `Delete_One` for each entry (`BeginDelete`, `NextEntry`);
`Complete_Multipart_Upload`, tags, annotations and versioning are their own
chains.  A barrier that fails ends the operation (`SyncFails`), and a copy that
has not published its record removes the annotations that it staged.  `Reopen` is the recovery of tombstones at `Open`, which a second fault
may cut off.  Selection (`SelectNull`, `SelectCurrent`, `SelectExact`) is that
of `Select_Generation`.

### SqliteStore

One key of one bucket of the SQLite backend.  The catalogue gate makes a
transaction, and a reference check with its unlink, one step; the steps between
them belong to several clients at once.

| variable | code |
|---|---|
| `rows` | `object_versions` with `object_annotations`; `order` is the publication order, `payload` and `note` name files |
| `sequence`, `status` | `sqlite_sequence`, `buckets.versioning_status` |
| `leases` | the temporary table `annotation_copy_leases`, which dies with the process |
| `objects`, `staging`, `flushed` | the two directories, and the files whose bytes are on the device |
| `calls` | the local variables of each client's call: its file, the files its commit retired, whether it committed, what it answers |

A put goes `Stage`, `Flush`, `Rename`, `SyncName`, `CommitPut`, then `Retire`
and its barriers for each retired file, `Release` for a copy, and `Return`; a
refused condition deletes the file again (`Refuse`, `SyncRefused`).  Deletions
and annotation removals commit first and then retire.  A copy leases the
annotation of its source whether it will publish it (`copy`) or leave it out
(`bare`, `Exclude_Annotations`), and also when the source is then refused for its
size or by a condition (`RefuseCopy`).  `Crash`, `PowerLoss`,
`SyncFails`, `CommitFails`, `CheckFails` and a busy file are the faults; a start
is `CleanStaging`, `CleanObjects` and `Open`.  SQLite itself is external: a
transaction is on the device when it commits, and one that reports an error has
no effect.

### DurableVersions

What a durable versioned store promises of one key, with no files in it: a
table from version identities to values, where one step publishes, removes or
retags one version, newer versions have greater orders, and a power loss
returns a version only to a value it had since the last settled one.
`FilesStore` and `SqliteStore` instantiate it with their own refinement
mappings (`Promise == INSTANCE DurableVersions WITH …`), and `OldOrNew` is its
specification: the faulty, many-step stores implement the one-step one.  In
`FilesStore` the fallback is what the directories may come back with; a
committed SQLite row does not come back, so there it is empty.

### ManagementConsole

The page (`ui`) is one thread; every `fetch` is a slot of `calls` that is served
and received in separate steps, so that clicks, the poll timer and the answers
of other fetches come between.  `live`, `sessions` and `stored` are the server's
sessions and buckets, which expiry and S3 clients change behind the page's back.
Each function of `app.js` that changes the page is an operator on the page
(`RenderStatus`, `RenderBuckets`, `ReceiveObjects`, …), each handler of the
management runtime a `Serve…` action.  A creation or deletion has its effect or is
refused; the answers that the page handles alike (400, 409, 503, 507) are one.
`Visits` bounds what happens in one visit.

### ClientTransfers

`Transfer_Many`: `Admit` a wave, run its tasks, `Join` them, go on or mark the
rest.  A task (`tasks[s]`) is an upload in one request, a multipart upload or a
download, known by its last request, the answer and the verdict; `Begin`,
`Receive`, `ReadBody`, `Interrupt`, `Fail` and `CleanedUp` are what
`Execute_Transfer` and the functions it calls do between two waits.  `Ends` is the
exception handler that aborts an initiated upload, `CloseFails` an exception of
`Files.Close` that replaces the outcome of an upload whose answer was read.  The
length of a body is compared only when the response states it (`sized`).  The server (`Serve`,
`uploads`, `published`) and the transport (`Lose`) are external: a request is
served at most once, possibly after its task has given it up, and an answer may
be a refusal or not validate.  Two assumptions are made about them: a server that
refuses a request has done nothing, so an error that is answered after the effect
is not modelled, and a body without a stated length is framed by the transport,
which raises when it ends too early.  `group` is the token of the wave's scope, `parent`
that of the caller.

## 4. The runs

Every run is exhaustive within its bounds.  `Calls`, `Operations` or `Visits`
selects what a run's callers do; the other sets bound its inputs.

| run | question | bounds that matter |
|---|---|---|
| `MemoryCapacity` | Are the two byte counters exact and within the limit while calls grow, fail and are cancelled? `TypeOK`, `CapacityBound`, `Accounting` | two clients, bodies of 1 and 2 bytes read byte by byte with a growth floor of 1, limit 6: doubling, the exact retry and refusal all happen, and both clients can be inside a growth |
| `MemoryVersions` | Is a history consistent, and are held generations kept, while versioning and locks change under streaming writers? `OrdersUnique`, `OneNullVersion`, `NoHistoryUnversioned`, `NoOrphans`, `LocksOnlyWhereEnabled`, `MFADeleteKeepsHistory`, `ProtectedStay`, `RetentionOnlyGrows` | two writers, one key, three orders: unversioned, enabled, suspended and re-created buckets with a marker and a null generation in every position; two clock readings, so that a stale one exists |
| `MemoryProgress` | Does If-None-Match: * create once, and does every call end? `CreateOnce`, `EveryCallReturns` | two clients whose buffers cannot both double |
| `MultipartRaces` | Parts, completion and abort against streams. `StagedAccounting`, `PartsHaveUploads`, `IdsNameOneUpload`, `PartsStayWithUpload`, `PublishesStagedParts` | two clients, two part numbers, two upload numbers, so that one upload follows another, a minimum size that one body misses |
| `MultipartHistory` | Completions under every versioning, with holds. `UploadsHaveBuckets`, `ProtectedStay` | two orders, one part, conditional completions |
| `MemoryRetentionInstant` | The documentation's claim about the retention instant. `NotReleasedEarly` is **violated** | two half-second ticks |
| `FilesDurable` | Is every version old or new whatever strikes, and a success final? `OnePublicationOneFile`, `NoTornRecord`, `OldOrNew`, `SuccessIsDurable`, `RecoveryCompletes`, `GateReleased` | three operations, two bodies, three publication numbers: a null generation superseded, a tombstone and its recovery; two power losses, or two other faults, so that the second strikes a recovery. Every write is a copy or a completion: a copy takes all the steps of a put and the barrier of its annotations before them |
| `FilesAnnotations` | Do annotations stay with their generation when nothing fails? `NotesFollow` | five operations: annotate, replace, copy, delete, look |
| `SqlitePublication` | Does every committed row have its files whatever strikes, and does a start find what a fault left? `RowsReadable`, `NothingLeaks`, `OldOrNew`, `StartReclaims` | two clients, four calls, four files, three rows: a copy, a bare copy or a refused one beside a deletion of its source, a null version under newer ones; one fault of each kind, or two crashes |
| `SqliteAnnotatedCopy` | Does a copy that committed succeed? `PublishedCopySucceeds` is **violated** | an annotated version and one copy |
| `ConsoleSession` | Does the page stay true to its answers? `OnePoll`, `BrowserTrue`, `EndedSessionNoticed`, `ControlsReleased` | four visits: everything at once with two fetches and one failure; browsing, deleting and refreshing with three fetches. One bucket has two pages of objects, so that More is shown and a deletion is refused, the other is empty and can be deleted |
| `ClientBatch` | Do the results tell the truth, and does a batch end? `ResultsTrue`, `OrphansExplained`, `StopsAfterFailure`, `JoinedReturn`, `InterruptedReturns` | three subjects in waves of two, each pair of different kinds in one wave, two parts, two faults: a refused part and then a refused abort |

`CHECK_DEADLOCK FALSE` stands where a run ends at its bounds or where the
system may stop: a batch that returned, a page with nothing under way.

### Findings

`MemoryRetentionInstant`.  `docs/qualification/object-lock-server.md:39-41`
says that a protected object cannot be released before the requested instant;
`Current_Unix_Time` (`memory.adb:207`) converts a `Duration` to an integer,
which rounds to nearest in Ada, so from half a second before the deadline the
generation counts as released.  `ProtectedStay`, which measures protection by
the code's own clock, holds.

`SqliteAnnotatedCopy`.  The last lease of an annotation cannot be given back:
`Release_Annotation_Copy_Leases_Internal` (`catalogs.adb:877`) subtracts one
from `refs` before it deletes the rows that reached zero, and the table is
created with `CHECK(refs>0)` (`catalogs.adb:2845`).  So a copy of an annotated
object commits and then answers with an error, and its lease stays until the
store is opened anew, against `docs/qualification/object-annotations-backend-server.md:42-44`.

### Known deviations without a run

Modelling met these as well; the operations or faults that lead to them are left
out of the runs above, each by the named bound, so that the properties hold.

- `Complete_Multipart_Upload` of the files backend stores no annotation
  identity (`files.adb:11855`), so a completed object in an unconfigured bucket
  inherits the annotations of the completed object it replaces.
  `FilesAnnotations` has no completions.
- A deletion of the files backend removes annotations before the generation
  (`files.adb:8430`), and a put synchronises their retirement before its own
  rename (`files.adb:7388`): a fault between leaves an object without the
  annotations it was acknowledged with, which is neither of the "old-or-new"
  states of `docs/architecture/files-layout.md:46-47`.  `FilesAnnotations` has
  no faults.
- What a failed barrier, or a death of the process before a barrier, left
  unsynchronised, `Open` and later operations do not synchronise.  A deletion
  sent again finds nothing, runs no barrier and succeeds (`files.adb:1436`), and
  a power loss brings the record back.  A versioning status that was set but is
  not on the device takes effect for later writes; a power loss then leaves
  generation files in an unconfigured bucket, under which the next put
  (`files.adb:7373`) is not visible.  `SuccessIsDurable` speaks of stores that
  only lost power (`Undamaged`), and `FilesDurable` has no power loss after
  another fault.
- `Delete_Objects` of the files backend evaluates the condition of an entry
  after it removed the earlier entries (`files.adb:8518`), whereas
  `docs/architecture/files-layout.md:137-140` describes a preflight.
- `docs/architecture/sqlite-backend.md:20-22` says that superseded bodies are
  retained until the recovery pass; `Put_Object_Internal` unlinks them at once
  (`…-backends-sqlite.adb:2233`).
- The console keeps the objects of the bucket that was open before when the
  first page of another one fails (`app.js:138`), rebuilds the rows after a poll
  that failed (`app.js:336`) and renders bucket listings in the order in which
  they arrive (`app.js:306`).  The pages in `BrowserTrue` are
  stated for as long as no request failed.
- A creation of a multipart upload that is cancelled, timed out or whose answer
  does not validate leaves an upload whose identity the client does not have; an
  abort that is lost or refused leaves one that it knows; and a failed subject may
  be published: `OrphansExplained` and `ResultsTrue` say exactly this much and no more, as
  `docs/architecture/client-transfers.md:65-75` does.

### Symmetry and fairness

Symmetry of the clients is used only in runs without liveness.

- `MemoryStore`: weak fairness of the steps that a streaming
  call takes by itself, per client.  Protected procedures never block, a source
  that does not deliver is cut by its deadline (`Check_Context`), and the Ada
  runtime schedules every task.  Nothing is asked of the steps that start a
  call, nor of cancellation or failing allocations.
- `FilesStore`: the task that holds the gate goes on (`Proceed`), and a store
  that was closed by a fault is opened again (`Reopen`).  Nothing is asked of
  clients or faults.
- `ManagementConsole`: a request is served and its answer received, unless it is
  lost, which the page sees as a failed `fetch`; a timer fires.
- `ClientTransfers`: the tasks of the client and the batch itself run, and a wait
  ends when its token is requested or its deadline passed.  Nothing is asked of
  the server, the network or the clock, so `InterruptedReturns` holds against a
  server that never answers; the abort ends by its own five seconds.

Every property of a passing run has a mutant, an operator beside the one that
it replaces, named in `PROJECT.json` and marked "Mutant" in the module.

## 5. The theorems

For all values of the constants that satisfy `SizesAssumption`,
`ConditionsAssumption` and `FiniteAssumption`: any number of buckets, keys,
clients, bytes and orders; for the multipart uploads those, `PartsAssumption` and
`AssemblyAssumption` (what completions ask for has the shape of an assembly): any
number of uploads and parts; for the console those of `ConsoleAssumption`: any
number of buckets, pages and fetches and any set of bounds on what may happen;
for the client those of `ClientAssumption`: any set of batches of any length,
any wave size and any number of faults; for the files backend those of
`FilesAssumption`: both commit modes, any set of fault sequences and any number of
records, publications and operations; for the SQLite backend those of
`SqliteAssumption`: any number of clients, files, rows and calls and any set of
fault sequences.

`MemoryStoreProofs` proves `TypeOK` and `CapacityBound`.  The inductive
invariant is `BudgetInv`, the type invariant (with what the names of a call in
progress range over) and `CapacityBound`.  The steps that raise `bytes` or
`reserved` are guarded by the code's own comparisons; a commit moves bytes from
`reserved` to `bytes`, so its own guard, which leaves out `reserved`, is enough
only together with the check `Reservation > Reserved_Bytes`.  `BudgetInv` does
not need exact accounting, so it holds for any set of clients.

`MemoryVersionProofs` proves `OrdersUnique`, `OneNullVersion`,
`NoHistoryUnversioned`, `NoOrphans`, `LocksOnlyWhereEnabled` and the action
properties `ProtectedStay` and `RetentionOnlyGrows`.  `VersionInv` joins them,
because none is inductive alone: that an unversioned write overwrites the only
generation needs `NoHistoryUnversioned`; that it does not overwrite a held one,
whose lock fields the code leaves in the slot, needs `LocksOnlyWhereEnabled`;
uniqueness of the overwritten slot needs `OrdersUnique`.  Each action is shown
to be a `GoodStep`, which preserves the invariant and keeps what is protected;
a batch of deletions is the composition of two entry lemmas.

It also proves `Accounting`, from `AccountInv`: `VersionInv`, finitely many
generations, the equation for each of the two counters, and `PromisesKept`, which
says of each call what it may hold at its program counter (an array that a growth
replaces only while it grows, a snapshot only in a copy or a read).  A step is
split into the two sides of the account: `BalanceStep` shows that `bytes` moves by
what the generations and documents show, `PromisesStep` that `reserved` moves by
what the calls hold.  The sums are folds over functions with a finite domain;
that a sum changes by what one value changes is proved in `ArithmeticFacts`, by
the library's theorem that a set has a minimal element under a well-founded
relation, which stands in for induction.

Two theorems have a hypothesis on what the callers do, the one under which the
run checks the same property.  `OneWriterWins` proves `CreateOnce` where every
write has If-None-Match: * and nobody deletes: `OnceInv` says that a call still
asks what it was asked, and that what a key shows is all that it has.
`AttestationIsNeeded` proves `MFADeleteKeepsHistory` where no deletion is
attested: it is a property of steps that needs the type invariant alone, but each
branch of the deletion, the batch of two entries and every publication.

`MemoryMultipartProofs` proves `PartsHaveUploads`, `UploadsHaveBuckets`,
`IdsNameOneUpload` and the action property `PartsStayWithUpload`.
`MultipartInv` joins the three invariants with `UploadsNumbered`: an upload is new
because `nextUpload` exceeds every number given out, so the parts of one that is
gone cannot come back under it.  For `IdsNameOneUpload` the same counter is followed
in one step (`NumbersAscend`): it never falls, and an upload that appears has a
number above it, so an ID that was given and whose upload has ended stays unused.
The steps of the store leave uploads and parts
alone and keep a bucket in use (`BucketsStay`), except the deletion of a bucket,
which asks for its uploads first; a part that was streamed is stored only after
the upload has been looked up again.  Nothing depends on the byte budget.

`StagedInv` joins these with `AccountInv`, extended to the staged parts, and with
the types of parts (`PartsWell`); each step of the uploads is shown to keep it, so
`StagedAccounting`, `CapacityBound` and `ProtectedStay` hold of the composition
`MultipartSpec` as well.  A completion moves the capacities of the parts that it
releases, and the transient one of the assembly, in one step of several sums.
`PublishesStagedParts` follows from the same invariant: no other step that
publishes changes the uploads, and the parts that an assembly lists are determined
by their numbers.

`ClientTransferProofs` proves `ResultsTrue` and `JoinedReturn`.  `IInv` has three
parts.  `SubjectsSound` relates a task, its destination and the requests that are
on their way, one subject at a time: `put` and `complete` are the only requests
that write, the plan determines the one a subject may send (`OneWrite`), and while
it is `Pending` the destination is empty, its task has read no answer and is
neither completed nor rejected.  So an answer that is read settles the
destination, although a request that was given up may still be served at any
later time.  `WavesInOrder` says which results are known and which tasks untouched
at each stage of the batch.  A step changes one subject (`SubjectStepKeeps`), so
the lemma of each action shows only that this one stays `Sound`.  Nothing is
assumed of the server's uploads, of fairness or of the two tokens.

`StopsAfterFailure` rests on `StopInv`: the batch has joined whole waves, and under
`Cancel_Remaining` every subject in them completed, so a subject behind a failure
lies in a wave not yet begun (`WaveNumber`, a fact about integer division).
`OrphansExplained` adds `UploadKnown`, which relates a task to the upload at the
server through the one request that creates it, and keeps the verdict of a task
whose creation went unanswered from being a rejection.

`FilesStoreProofs` proves `OnePublicationOneFile`, `NoTornRecord` and the action
property `RecoveryCompletes`.  The first two speak of every directory that a power
loss may bring back.  Each of these was the running one at some time, so
`DirectoriesGood` asks the same of all of them, and a step keeps it if it makes one
good directory out of another (`ChangedDirectory`); barriers and power losses only
choose among them.  A new file has a number of its own because `NextPublication`
exceeds that of the newest, which exists because numbers are bounded
(`GreatestNumber` in `ArithmeticFacts`); a tag update replaces one file by another of
the same number, so it needs `OperationGood`: the file it read when it took the
gate is still there.  `RecoveryGood` says how far a recovery has come, and that
nothing else runs until the store is open.

`SuccessIsFinal` proves `SuccessIsDurable` from `BarriersGood`: behind power losses
alone, a directory that may still fall back is one whose barrier is among those the
operation under way has yet to reach (`ObjectsSettle`, `VersionsSettle`,
`ConfigurationSettles`).  An operation that has none left finds everything settled
(`Quiet`), so what it answers is final.  The property itself excludes barriers that
failed and process deaths, after which a change may stay unsynchronised.

`VersionsAreDurable` proves the refinement `OldOrNew` from these and `PromiseInv`.
The fallback of the promise is computed from all directories that may come back,
so a step is followed in each of them: a rename adds one outcome for one version;
the removal of what a new null generation supersedes shows in none, because the
kept file is the newest null file of every directory that may come back before the
first unlink (`FileGood`; a number for it is left by `RoomLeft`); a barrier and a
power loss only choose.  Its hypothesis `PowerComesFirst` restricts the sequences of
faults: whatever comes before a power loss is a power loss.  Without it the
refinement is false, as TLC shows: a change that a failed barrier or a dead process
left unsynchronised may be undone by a later power loss although a newer change is
on the device.  The run `FilesDurable` has the same restriction, and any number of
process deaths and failed barriers may follow.

`AnnotationsFollow` proves `NotesFollow` while nothing has failed, where the store
has no completions; both restrictions are needed (see the known deviations).
`NotesInv` adds to `PromiseInv` that the generations on the shelf have different
bodies and carry the identity written for their own, that a body yet to be published
is new, and that what the holder of the gate retires belongs to no generation that
readers see.  The proof covers both values of `Commit`.

`SqliteStoreProofs` proves `RowsReadable` and the action property `StartReclaims`.
In `SqliteInv` a file belongs to a call until its commit (`Active`), and is
`Settled` from then on; what must stay (`Safe`) is what a row names or a copy has
leased.  A put unlinks the payload that it replaced without asking for references,
so the proof rests on `PayloadsAlone`: a payload is in one row, and no row or lease
has it as an annotation, whereas annotations are shared by copies and are unlinked
only after the check.  `FileSound` follows a file through flush, rename, directory
barrier and commit, and says at the commit that every directory which a power loss
may bring back has it.  That what is lent stays lent until a crash is true of this
code because the last lease is never given back (see the findings); a correct
release would need the count of the calls that hold it.

`NothingLeaks` is proved from `LeakFree`, which names for every file the row, the
lease or the call that will still rename, commit or unlink it: several calls may
have retired the same annotation file, and the last one to ask finds no reference.
`OldOrNew` is the refinement of `DurableVersions`.  The rows determine its table
(`TableOfRows`): a version is one row, orders are given out once (`RowsGood`), and
each row is readable by `RowsReadable`, so that no unlink, fault or start shows in
the table.  `RowsStep` says that a step of the store adds, removes or retags one
row or none, and each of these is shown to be the step of the promise.  A first
attempt stopped at definitions by `CASE` whose arms overlapped, where TLC takes the
first that holds and the logic says nothing; they are chains of `IF` now.

`ManagementConsoleProofs` proves `OnePoll` and `BrowserTrue`.  `ConsoleInv` has five
parts, none inductive alone.  `PollInv`: the page remembers its only timer, so that
`ClearTimer` cancels whatever is pending.  `SessionInv`: as long as nothing failed,
a page without a cookie shows no workbench and has no fetch with one, so no load is
refused; it is what lets `BrowserTrue` say more than "unless a load failed".
`LoadInv`: loads under way have different generations, none above that of the page,
and the button is disabled while the latest is under way.  `BrowserInv`: either
that load is still under way and continues what is listed, or what is listed is
the first pages in order.  A step changes the page in one of a few ways (`Turns`
with the browser unchanged, `Closed`, a load that starts or ends), and the lemma of
each action only shows which.

Model-checked only: liveness (`EveryCallReturns`, `GateReleased`,
`InterruptedReturns`, `EndedSessionNoticed`, `ControlsReleased`), which the provers
do not reach.  Every safety property of a passing run has a theorem; where the
theorem has a hypothesis, it is named above, and it is met by the run.

## 6. Not modelled

- *Memory backend*: tags, the contents of bucket documents, named
  configurations, the metadata-table state (one protected procedure compares and
  replaces) and listings; checksum configurations, which only add refusals; the
  limits `Natural'Last` and `Byte_Count'Last`, far above the budget; a
  `Storage_Error` inside `Commit` after the order was consumed and before the
  slot is complete.
- *Files backend*: buckets, uploads and their parts, locks, configurations other
  than versioning, listings, and the bytes of a record, whose validation decides
  only between a record and an unreadable one.
- *SQLite backend*: buckets, tags, locks, configurations, multipart parts,
  batches of more than one entry, checksums and readers; an error reported for a
  commit that is on the device.
- *Client*: the preparation and decoding of single requests; the composable
  operations, whose scheduling is in the Flyology runtime outside the
  repository; the hashing of the local file before an upload.
- *Server*: routing and authorisation keep no state between requests; stop and
  drain are those of `Flyology.HTTP.Server`, outside the repository.
- *Codecs, digests, signatures, credentials and the generated model* convert
  bytes without state that interleaves and stay with the repository's own tests
  and corpora.
- *Tools*: most of the repository's Python (`tools/`, some 56,000 lines) generates
  the codecs or verifies, with string searches, that sources and documents of
  each S3 operation are prepared alike.  The scripts run once, alone, over a
  source tree; no state of the storage system is in them, and a model of them
  would restate the scripts.  The logic of the system is in the Ada sources, in
  the page and in the two C files for barriers, which the modules above follow.
