# Verification of moli

Moli is a headless browser in Rust: a V8 renderer and a protocol server on top
of some ninety small crates. The renderer and the protocol layer are mostly
sequential data handling. The logic that is hard to test sits in the small
crates underneath: queues between threads, shared allocators, caches with
callbacks, ordered storage access. This project models those, one module per
component, checks them with TLC and proves the most important results for every
instance with TLAPS. Where the code is in doubt the model follows the code.

## 1. Inventory

| Component | State | Operations | Hard behaviour | What makes it correct |
|---|---|---|---|---|
| `moli-owner-queue`, `OwnerReadyTaskSource` | `incoming`, `ready`, `source_open` under a mutex; owner-local `tasks` | route: send, send batch; source: enqueue locally, front, pop, is_empty, edit, clear, drop | producers stay silent while `ready` is set; the owner sleeps on an emptiness answer; routes outlive the source | no lost wake, no task lost or duplicated, per-sender order, contiguous batches |
| `moli-disk-pool` | free chunks by offset and by size, `file_tail`, `free_bytes`, `may_write` | reserve, write, release, drop | writes run without the mutex; failed writes; long histories of splits and merges | extents disjoint, data intact, indexes consistent, nothing leaks |
| `moli-parkable-image` and its scheduler | per-image storage and readers, registry, `waiting_for_change`, Notify | create, snapshot, release, drop, scheduled and forced sweep, scheduler loop | first write outside the image lock; two sweeps at once; notifications that race a sweep or the scheduler's scan | readers keep bytes, one writer, registry and extents agree, no change slept through |
| `moli-dns-resolver` | in-flight map, positive cache and its expiry index, command channel, workers | resolve, finish, completions, shutdown | commands and completions outside the lock; expiry; shutdown behind queued work | each callback once, one command per key, fresh answers of the own partition, nobody stranded |
| `moli-storage-service` (tickets, queues, quota) | ticket sequence, three queues, quota owners and waiters | six kinds of operation, lease drops, drain, shutdown of SQL between two drains | blocking and asynchronous users of one lock; failed dispatch; hand-off of a bucket; order of drain stages | turns in ticket order, no orphan ticket, one quota owner, shutdown leaves nothing |
| `moli-indexeddb` transaction admission | queue of scopes per database, status per request, the owner's mailbox | enqueue, start, commit, abort, close, retire, tear down, close the database | claim against forced closure; readiness recomputed on every removal; three threads read one status | conflicting transactions in order, rollback before cancellation, every admission released |
| `moli-indexeddb` version change | FIFO of open and delete requests, registered connections, batches of notifications, close and retire flags | enqueue, begin, acknowledge, close, retire, drop, proceed | an acknowledgement held for a close receipt; a handshake over separate atomics | no `blocked` without cause, acknowledgements counted exactly, nobody waits for ever |
| `moli-sqlite` writeback | pending batch, counters, failure, closed | accept, timed commit, flush, close | deltas accepted during a commit; overwritten failure | a flush or close covers what was accepted before it, nothing is left unwritten |
| `moli-message-port`, `moli-broadcast-channel` | endpoints, peers, owners, pending messages and close | post, poll, transfer, close, discard | transfer while messages and closes arrive | an endpoint is in one place, close after messages, the holder is woken |
| `moli-shared-worker` | loading and running instances, clients | connect, finish or fail loading, remove | clients leave while the script loads | an instance lives exactly while it has clients |
| `moli-curl` owner thread | parked transfers, completion channel, admission | start, claim, expire, cancel | late DNS answers, timeouts, shutdown | a retired transfer is never revived |
| `moli-opfs` | catalogue, locks, staging files | open, write, commit, move, recover | crash between staging and catalogue | committed files survive, locks exclude |
| `moli-http-cache` | one directory per entry | publish, read, touch, evict | readers, writers and eviction without a common lock | a reader never sees a partial body |
| `moli-session-history` | joint steps, those of other renderers among them, revision | install, attach, push, replace, detach, plan, commit | plans that outlive the timeline they were made for | frames stay in their document, only current plans commit |
| `moli-owner-queue`, `OwnerTaskSource` | local queue and two channels | as above, and three ways to wait | only the stylesheet source is waited on, and it uses one of the two channels | not modelled |
| script tree, stylesheet blocking, streams, timers, action window | sequential state machines | | | |
| fetch, cookies, web storage, protocol, renderer, DOM, CSS, layout | large sequential code | | | not modelled (section 8) |

How they meet: every background component ends a job by sending to a page's
owner queue. The parkable images take extents from the disk pool, and so do
response bodies. The curl owner threads ask the shared DNS resolver and get its
answers through a channel. Renderer threads and workers share one storage
service per partition, whose shutdown brackets that of SQLite.

`PROJECT.json` lists every component with its status and, under `hazards`, the
lines at which these behaviours bite, each with the properties that cover it or
a note that names the planned module.

## 2. Plan

Done, in this order: owner queue, disk pool, parkable images, DNS resolver,
storage service; IndexedDB transaction admission with its abstract order and
the refinement, version changes, SQLite writeback, message ports, the HTTP
cache directory, joint session history; proofs of every invariant and action
property that the passing runs check, and of the refinement.

Next:

1. `CurlDnsResidence`, composed with `DnsResolver` by INSTANCE: late answers
   against expiry and cancellation.
2. OPFS staging and recovery after a crash; `StorageBuckets`, the durable
   metadata of buckets and their pending deletion.
3. Shared workers and broadcast channels beside `MessagePorts`.
4. More refinements: a FIFO of accepted tasks implemented by the owner queue; a
   counter of extents (what `ParkableImages` assumes of the pool) implemented by
   `DiskPool`; a FIFO lock implemented by the ticket sequence.
5. Proofs of those modules and refinements, and of what a context that dies
   leaves of the wakes of message ports.

Modules that are proved about use no RECURSIVE operator; parameters are
CONSTANTS with named assumptions; each operation is an action of its own.

## 3. Modules and the code

A step of a model is what the code does under one lock acquisition, or between
two of them. Definitions carry the source's names; `map` in `PROJECT.json` gives
the lines each one stands for. Operators marked `Fault:` are the plausible bugs
that the properties are measured against and are used by no specification.

**`OwnerReadyTaskSource`** (`owner_ready_task_source.rs`). The mutex makes each
route or source call one step. A task is its sender, its rank and its batch.
`wakes` counts published signals the owner has not received; the owner is
running, parked or gone, and parks only on the answer of `is_empty`.
`with_tasks_mut` hands the owner a closure over the whole queue: callers retain
the tasks of one identity, drop superseded ones, sort by deadline, promote a
task, and take the front or everything. The action allows any edit that drops
tasks, reorders the others and takes some from the front; `swapped` is the
history of the pairs an edit exchanged, and what is promised of order is
promised of the other pairs. `consumed` and `disposed` are history too.

**`DiskPool`** (`pool.rs`, `allocation.rs`). Reserve and release are single
steps. A write is one step per byte without the mutex, and may fail at any
byte; `disk` remembers the last writer of each byte. The choice of a hole (an
exact fit, else the largest), splitting, growing and both merges are translated
as they are.

**`ParkableImages`** (`image.rs`, `registry.rs`, `manager.rs`, and
`run_parkable_image_scheduler` in the renderer's network runtime). Scheduled
and forced sweeps are two processes with program counters; a scheduled sweep's
read of `waiting_for_change`, a sweep's list of strong references, its filter,
each image's prepare, write and completion, and the end of the sweep are
separate steps. Dropping an image is the storage, then the registration, then
the notification. `Instant`s are the bit `deadline has passed`. tokio's
`Notify` is modelled from its use: a stored permit and an armed future. The
pool is reduced to a number of extents and `mayWrite`.

**`DnsResolver`** (`moli-dns-resolver`). `admit` and `finish` are steps under the
lock; the command is sent, the lookup made and every completion called outside
it. An answer is the key it was made for, so crossing a partition would show.
The branch of `resolve` for a closed channel cannot be reached: shutdown owns
the service, and the build profiles abort on panic.

**`StorageService`** (`io_queue.rs`, `quota.rs`, `lib.rs`, the order of calls
in `buckets/deletion.rs`, and `StoragePartition::shutdown`). An operation has a
program counter and one of six kinds, which are the ways callers combine
tickets, quota and queues: on the caller's thread or through a queue, with the
quota of a bucket or without, the jobs of the maintenance queue, and commands
of the SQL owner, which sample usage in an OPFS turn on the quota queue
(`buckets/indexed_db.rs`) and keep their bucket until SQL replies. A condition
wait is the guard of the step behind it, since every change notifies all. A
worker thread may fail to start; the job and what it owns is then dropped, the
quota before the ticket. `drain_ready` is a process of its own: the thread that
won `draining` runs it and it never blocks. `shutdown` drains the maintenance
and quota queues, stops the SQL owner, drains them again and then the OPFS
queue. New calls end when it begins, except those of Blob reads accepted
before, which submit until SQL has been joined; the second drain is for them.
The constant `Work` says which mixtures of kinds an instance has.

**`TransactionOrder`**, **`TransactionQueue`** (`transaction_queue.rs`, the
database owner in `sqlite/service`, and the renderer's transaction tasks). The
abstract module says only what a client of the database may rely on: requests
are admitted in order, a request starts when no earlier one conflicts, and it
leaves once. The detailed one has the queue under its mutex, the mailbox and
the single owner that executes BEGIN, COMMIT, ABORT, retirement and STOP one
message at a time but in several steps, and one event loop per connection that
scans, starts, settles and is torn down. A COMMIT leaves its event loop in one
step and reaches the mailbox in another, through the quota worker, or is refused
there; the completion of a refused polite close is a step of its own, in which a
retirement that came meanwhile is tried again. `ImplementsOrder` is the abstract
specification under the mapping of statuses. `OrderedRemoval` holds the retain
by which entries leave the queue; `MessagePorts` closes the ports carried by
discarded messages with it.

**`VersionChange`** (`connection_notifications.rs`, `connection_queue.rs`,
`connections.rs`, `typed_state/factory.rs`). Requests wait in a FIFO; the head
notifies the other connections, collects acknowledgements and fires `blocked` or
goes on. Then the worker closes or creates the database: the open may fail, the
requester may be gone, and the lease of the FIFO is kept until the completion
event has been served. An open of the present version notifies nobody. Closing,
retiring and dropping a connection are the separate loads and stores of the
code, in its order, and read as sequentially consistent; in particular the
completion of a refused close loads `retirement_in_flight` in one step and takes
the held acknowledgements in another. The upgrade transaction is accepted work
of the new connection.

**`Writeback`** (`writeback.rs`). Callers, the one task with its deadline and its
`select`, and the blocking pool. A batch is the set of deltas merged into it. The
connection opens lazily, a write may fail, and blocking work may panic.

**`MessagePorts`** (`registry.rs` and, in the renderer,
`message_port_runtime.rs`, `message_ports/` and the worker loop). A registry
call is one step. A script call or a delivery is the list of registry calls it
still has to make, so that other threads run between two of them. A message is
the port it carries, or none. It is delivered, or refused, which closes its
port, or it does not deserialize. A dying context closes its ports one after
another, each with what it discards.

**`HttpCache`** (`store.rs`, `writer.rs`, `metadata.rs`, `eviction.rs`). One
entry directory; a step is one file-system operation; an operation may crash
between any two. Metadata is the name of the body it publishes. A directory is
listed and emptied file by file, and files created meanwhile may be removed
with the rest.

**`SessionHistory`** (`joint.rs`). A sequence of steps, each a function from the
contexts present to an entry; plans are kept and committed later, after any
mutation. Entries are fresh numbers with the document they belong to. The
timeline starts with the browser's entries as steps that hold nothing, at any of
which the page may be (`JointSessionHistory::new`), and the main realm may
install such a position again. Frames may attach before their parent has an
entry. `holder` is history: the document in which a frame was attached. A
context that is still shown elsewhere, or attached where its parent shows
nothing, is held by none, and nothing is promised of it.

## 4. Runs

`MC*` modules supply symmetry and the functions an instance is made of; each cfg
gives the constants.

| Run | Bounds | States | What it shows |
|---|---|---|---|
| `owner_queue` | 2 producers with 2 and 1 tasks, the owner with 1, batches up to 2, 2 exchanged pairs | 50 k | readiness is exact, no lost wake, each task in one place, order and batches kept but for what the owner reorders, every accepted task leaves the queue |
| `disk_pool` | 4 handles, capacity 6, sizes 0 to 3 | 212 k | disjoint extents, intact data, exact free list, no leak, growth only when no hole fits |
| `parkable_images` | 2 images, 1 extent, 1 client, 2 snapshots at a time, both sweeps, scheduler | 4.9 M | readers keep bytes; registry, extents and waiting flag agree with the images; one writer; no deadline slept through |
| `dns` | 3 requests, 2 partitions, a normal and a reserved name, 2 workers, TTL 1, time to 3 | 334 k | each callback once, one command per key, fresh answers of the own partition, shutdown strands nobody, every call is answered |
| `storage` | 3 operations, every mixture of kinds once, 2 client threads, 1 bucket | 439 k | turns in ticket order, no orphan ticket, one quota owner, shutdown leaves nothing, every operation ends unless a job overtook an earlier ticket |
| `storage_race` | 2 operations, 2 client threads | | violation, see section 6 |
| `transactions` | 2 conflicting requests of 2 connections, 2 closures | 245 k | the abstract order is implemented, cancelled means rolled back, a closed connection holds no admission, every admission is released |
| `version_change` | an upgrade and a delete, 1 connection open and 1 created, 2 calls | 178 k | acknowledgements exact, no `blocked` without cause except through the window of section 6, retirement completes, the head request goes on |
| `writeback` | 2 deltas, 1 query, 2 flushes, early limit 2 | 305 k | flush and close cover what was accepted before them, everything settles |
| `ports` | a page and a worker, 2 channels, 2 calls, 1 death; the channels are alike | 1.7 M | an endpoint is in one place and its owner holds it; a started port with work always has a wake coming while nobody has died |
| `cache` | 3 writers, 1 lookup, 1 removal, 1 republication, 1 crash | 4.6 M | hits are finished bodies; the published body exists |
| `session_history` | a page, a frame and a frame in it, 6 entries, 3 steps, up to 2 of other renderers, 1 plan | 3.0 M | a step shows a frame exactly with the document that holds it; a traversal commits as admitted |

Why the bounds suffice. Two producers and the owner are enough to fill the
source between any two owner calls, and two exchanged pairs to move a task of a
batch out of it or another task into it. Four handles in six bytes give splits,
both merges at once and growth beside holes. Two images and one extent give a
capacity miss beside an image that needs none; two sweeps are all there are.
Three requests let one lookup be shared, finish and expire, and be made again
while its first completions still run. Three operations give an owner, a waiter
and a ticket cancelled before a used one, from two threads, and a Blob read
that submits while the others drain; a mixture that differs only in the names
of its operations is left out. Two conflicting transactions on two connections
give a started one and one that waits for it, with a polite and a forced
closure of either; the same properties without liveness also hold for three
requests, one of them independent of the first. One registered connection and
the one an upgrade creates let a delete wait behind the upgrade and notify its
connection, and two calls are a close that is refused and the one after it. Two
deltas and two flushes put one delta before, during and after a commit. Two
calls let a port be transferred while a message or a close is on its way to it.
Three writers and a crash let a writer read a published name, be overtaken
twice and delete what it read. Two nested frames beside steps that hold nothing
let a frame be there before its parent, and one plan can be made, invalidated
by a detach that leaves the revision alone, and offered for commit; the theorem
covers any number of plans. Deadlock is not checked where the system may simply
have nothing left to do (bounded requests and tasks); it is checked for the
parkable images, which always can go on.

Every property has a mutant: a plausible bug in one mapped definition under
which the same run finds the property violated.

## 5. Fairness

Only threads and tasks the program itself keeps running are fair, and only
weakly. Owner queue: the event loop receives published wakes, and a running
owner dequeues until it sees emptiness. Parkable images: the scheduler task, a
sweep once begun, a due notification and time; clients owe nothing. DNS: a call
that has begun, and the pool threads (a system lookup returns). Storage: an
operation under way, the workers, `drain_ready` and shutdown once begun.
Transactions: the database owner, the quota worker that submits a commit, and the
event loops, which scan after a wake,
end what they have started and finish a teardown. Version changes: the event
loops that hold a request, a notification or a completion event, and the database
worker, which serves closings and replies. Writeback: the task,
the blocking pool and the thread that waits for the close receipt.
Nobody is obliged to call, to release, to close or to shut down. The ports, the
cache and the history are checked for safety only; `StartedPortsAreWoken` says
of the ports, state by state, what their liveness would rest on.

## 6. Findings

`storage_race` is a run. The others are met by configurations kept beside the
runs, each of which TLC ends with the counterexample described; the property is
what the quoted comment says and is defined in the module.

- **`storage_race` (code bug).** `dispatch_opfs` reserves its ticket and sends
  its job in two unsynchronised steps. Two threads of one partition can reserve
  in one order and send in the other. The single OPFS worker then blocks in
  `enter` for a ticket whose job is behind it in the channel, for ever, and
  `drain_io` never returns. `EndsUnlessOvertaken` shows that this overtaking is
  the only cause within the bounds.
- **`ParkableSuppression.cfg`, `OnlyExpiredDeadlinesSuppressed`.**
  `waiting_for_change` is documented (`manager.rs:30`) to suppress expired
  deadlines after a capacity miss; it suppresses every deadline, also the
  unexpired one of an idle image that has its disk backup and needs no capacity.
- **`TransactionRefused.cfg`, `RefusedAbortFinishes`.** A BEGIN that fails in
  SQLite gives its admission back. If the ABORT that follows is refused by a
  sealed mailbox, `finish_transaction_abort` (`lifecycle.rs:122`) counts on the
  rollback receipt of the retired connection, but a request that has left the
  queue is never cancelled and the transaction object stays unfinished.
- **`VersionLateTake.cfg`, `AcknowledgementFollowsReceipt`.** The acknowledgement
  of a `versionchange` event that closed its connection follows the receipt of
  that close (`connections.rs:83`). The completion of an earlier, refused close
  loads `retirement_in_flight` (399) and then takes every held acknowledgement
  (400); one held by a close accepted between the two is given with them, before
  its receipt, and the request may fire `blocked` although its connection is
  closing.
- **`PortsStaleWake.cfg`, `StaleWakeConsumesNothing`.** A worker's delivery loop
  (`delivery.rs:158`) resolves the port object once. When a handler transfers
  the port, the loop polls on and takes messages retained for the new owner; the
  page path guards against it (`page_message_port_delivery.rs:63`).
- **`PortsStaleOwner.cfg`, `OnlyStaleOwnersCleared`.** `wake_port_if_owned`
  (`message_port_runtime.rs:52`) uses an owner read earlier; if the port has been
  transferred and the former owner died, the failed send clears the living new
  owner.
- **`PortsOrphan.cfg`, `NoOrphanEndpoint`.** A message polled by a worker that is
  terminated before it materializes the message, or whose deserialization fails
  (`delivery.rs:246`), leaves the carried port open with nobody to close it
  (`delivery.rs:236`).
- **`CacheGuard.cfg`, `GuardedRepublish`.** The guard of a republication
  (`store.rs:184`) is a comparison followed by a rename; a writer that publishes
  in between is overwritten by the old hit.

`ParkableReaders.cfg` is kept in the same way and passes: with one image and two
clients an image left idle is parked in the end (`IdleImageIsParked`).

## 7. Proofs

All theorems are checked by TLAPS for every value of the constants. Each
invariant below was first checked by TLC on the run's instance. Every proof has
the same shape: the initial states satisfy the invariant, a lemma per action
says that the action keeps it, and frame lemmas say which parts an action
cannot touch.

**`OwnerReadyTaskSourceProofs`**: `TypeCorrect`, `WakesAreNeverLost`,
`ReadinessIsExact`, `ClosedSourceIsEmpty`, `WakesOnlyOnEdges`,
`DeliveryExactHolds`. `NoLostWake` is not inductive: a producer that finds
`ready` set publishes nothing. The invariant adds exact readiness, emptiness
after close and that only a gone owner has closed its source. `DeliveryExact`
is not inductive either, because `enqueue_local` inserts between the local
deque and the arrivals. `Line` therefore keeps the two halves in order and in
one piece separately and says that they share no batch, that arrivals hold
nothing of the owner's, and that no number above a sender's counter exists. An
edit is an embedding of what it leaves in what was there that inverts only the
pairs it records in `swapped` (`Thins`); such an embedding keeps order and
batches but for those pairs, and a record of pairs only grows.

**`DiskPoolProofs`**: `ExtentsNeverOverlap`, `StoredDataSurvives`,
`FreeListIsExact` (with `FreeIndexesAgree` and `HolesAreMaximal`),
`NoByteLeaks`, `GrowthIsNeeded`, `TypeCorrect`. Disjointness needs the agreement
of the two indexes (reserve takes from one, release searches the other), maximal
holes (else a merge could swallow a live extent's neighbour) and that every
extent lies below the tail; data integrity needs disjointness and that a write
stays inside its extent. The counter is the number of free bytes, and those are
the bytes below the tail that nobody owns (`FreeUnowned`), so a release adds and
a reservation removes exactly the bytes of its extent, however holes are merged.
That the counter never underflows is part of `TypeCorrect`. `GrowthIsNeeded` is
an action property: if some hole were large enough, the largest one would have
been a candidate.

**`ParkableImagesProofs`**: `ParkInvariant`, `ParkingExactHolds`,
`ReadersKeepBytesHolds`, `WaitIsJustifiedHolds`, `NoLostScheduleHolds`.
`ImageInv` says of each image that its storage state determines the index that
lists it, its extent and the sweep that writes it. The link that makes it
inductive is `WriterHolds`: a sweep in its unlocked write holds a reference to
the one image it put in Parking, so that image is neither dropped nor parked by
the other sweep. `WaitExplained` covers the windows in which the waiting flag
and the capacity disagree: whoever opened one still owes a notification or the
clearing store. `ScheduleKnown` does the same for the scheduler between its scan
and its sleep: a deadline it has not seen has a permit stored for it.

**`DnsResolverProofs`**: `DnsInvariant`, `AnsweredExactlyHolds`,
`OneCommandPerKeyHolds`, `ShutdownStrandsNobodyHolds`, `HitIsFreshHolds`.
`CommandInv`: a key in flight has one owner of its command, which is the caller
that admitted it, the channel or a worker (`OwnerAlone`, `OwnerThere`).
`PlaceInv`: a request is in one list, once, and that list belongs to its key.
`CacheInv`: no key is cached and in flight at once, and the expiry index names
each entry once. `StopInv`: the stop commands lie behind all accepted work.

**`StorageServiceProofs`**: `StorageInvariant`, `TicketsInOrderHolds`,
`QuotaHasOneOwnerHolds`, `ShutdownLeavesNothingHolds`. `SequenceInv`: tickets are
distinct and counted, those below the one served are over, an operation that
uses the file system holds the ticket served, a cancelled ticket belongs to
nobody and a live one to somebody. That serving moves past a run of cancelled
tickets to the first live one is shown for the least ticket at which it would
fail. `StepInv` ties program counters to tickets and quota; `QuotaInv` says who
owns a bucket, counting the callback that `drain_ready` has popped and not yet
called; `ListInv` and `PlaceInv` say where a job is. A SQL command is past its
turn (`PastTurn`). `StageInv` says what each stage of shutdown has excluded: who
may still call (`Callers`: Blob reads until SQL has been joined, then nobody),
and what may stand behind the barrier of a drain (`Barriers`: their jobs on the
quota queue in the first drain, nothing in the second). That the first drain
leaves nothing is false; that the second does needs that the owners of quota
which SQL held have been answered and their waiters handed on by then.

**`TransactionQueueProofs`**: `TransactionInvariant`,
`CanceledIsRolledBackHolds`, `ClosedHoldsNoAdmissionHolds`, `OrderImplemented`.
The invariant says that the queue holds each request once, that a ready or
started request has no earlier conflicting one in the queue, that statuses, the
mailbox and the owner's current message agree (`OwnerKnows`,
`RetireAnnounced`), also while a commit is with the quota worker and while a
refused close completes, and that a closed connection has nothing left
(`ClosedUnused`). `OrderImplemented` is the refinement: with the invariant,
every step maps to a step of `TransactionOrder` or to a stutter. It needs what
`Without` returns for every queue: the same entries without those removed, in
their order (`WithoutFacts`).

**`WritebackProofs`**: `WritebackInvariant`, `FlushCoversHolds`,
`CloseCoversHolds`. An accepted delta is pending, in the batch under way,
written, or part of a batch whose loss shows in the failure or in a later
success (`AcceptedPending`, `LossShows`). A flush or close is tied to the place
of the task that serves it (`FlushServed`, `CloseServed`, `FlushResult`): what
was accepted before the call cannot be behind the batch that answers it.

**`WritebackProofs`** also holds the proofs of `VersionChange`:
`VersionInvariant`, `BatchesCountAnswers` (`AcknowledgementsExact`),
`BlockedIsCaused` (`NoSpuriousBlocked`: a connection was left open, or an
acknowledgement was taken in the window of section 6). An acknowledgement is
queued for a connection, taken by its event or held until the close receipt, in
one of the three at a time and once (`Distinct`), so giving it removes one
member of the set the counter stands for (`Counted`). `NoSpuriousBlocked` needs
`Accounted`: a connection of the batch that is still registered was left open
by its own event, lost its acknowledgement in the window (together `Causes`),
or has yet to answer. When the last answer finds somebody registered, that one
is a cause. `Refusals` bounds the window: what the completion of a refused
close takes was held by that close or by one accepted since. To keep this,
nothing is registered again once its closing got past the registry (`Gone`),
and only connections that exist are closed, retired or answered for (`Known`).

**`TransactionQueueProofs`** also holds the proofs of `MessagePorts`:
`PortsInvariant`, `EndpointsHeldOnce` (`HeldOnce`), `StartedPortsWoken`
(`StartedPortsAreWoken`). `Alone` spells out that an endpoint has one place:
one object, one message of one queue, or one call that still carries it.
`AttachedHere` covers the calls between materializing a port and registering
its owner, `OwnerHolds` those between forgetting the object and detaching.
`WakesInv` is for the time before the first death: a detach stands before the
call that carries its port (`DetachFirst`), so no wake is sent for nobody;
whoever has an object is the owner or about to be (`Registered`); and a page
that ends its turn with more to deliver has queued the next (`MoreQueued`).

**`HttpCacheProofs`**: `HitsAreFinished`, `PublishedBodySurvives`. That a hit is
whole needs that every name in the metadata, and every name a lookup still
holds, is a finished body's, and that a writer past its flush has finished.
That the published body exists needs that whatever a writer has seen published
belongs to a writer that is through with its rename: a writer publishes once,
so the body it deletes is not published again, and nobody deletes a body that
is still to be published. The second holds until the entry is removed or a hit
republishes its metadata; then the directory may name a body that is gone, and
the next lookup removes the metadata.

**`HttpCacheProofs`** also holds the proofs of `SessionHistory`:
`HistoryInvariant`, `FramesStayInDocuments` (`FramesFollowDocuments`),
`CommitsFollowPlans` (`CommitsAsAdmitted`). `Framed` says of every step, those
that hold nothing included, that a frame is there exactly if its parent shows
the document that holds it. It is kept by `Put` only if the descendants it
removes are those of the replaced document and no others. That rests on the
tree of contexts, in which nobody is below itself (`NoLoop`), and on new
documents being new (`Bounded`). The main document may come after its frames
and then holds those attached at the steps it is put in. `Descendants` follows
the parent links recursively; `Ancestors`, the least set closed under them, is
shown to solve that recursion. `CommitsAsAdmitted` is an action property: a
plan that is still current has found every change it admitted to start from the
present entries and end at those of its step, and an id names one step
(`PairsOK`).

These three proof modules each EXTEND two components that share no constant and
no variable; the names of `VersionChange`, `MessagePorts` and `SessionHistory`
(`VersionSpec`, `PortsInit`, `historyVars`, `portOwner`, ...) are chosen so that
they can. Nothing proved about one of the two uses the other's assumption.

Assumptions are those the modules name: constants are numbers or sets of the
right kind; operations, requests and workers are finite sets; the model values
that stand for "no operation", the barrier of a drain and the close message are
not operations or jobs; there is at least one DNS worker and a time to live is
positive. Channels, contexts of a history and connections are finite sets; a
request that opens a connection opens one of its own, distinct from those open
before (`NewConn`); and the caps on the history leave room for the first
document. The caps on calls, deaths, plans and fresh numbers are any natural
numbers, so no result depends on how large they are.

The library's induction theorems take an operator as a parameter, which these
provers cannot instantiate. Where a fact about a recursive function is needed
(`Retain`, `Without`, the advance over cancelled tickets, the descendants of a
context) the set of indexes at
which it fails is shown to have no least member, with the well-foundedness of
the naturals.

Only model-checked: all liveness, which needs fairness (`AcceptedLeaves`,
`EveryLookupAnswered`, `EndsUnlessOvertaken`, `EveryAdmissionReleased`,
`EverythingSettles` and the others), and that the properties of section 6 are
violated, which TLC shows by a behaviour.

## 8. Not modelled

The V8 renderer, DOM, CSS, layout, paint and the parsers are sequential
transformations far beyond these tools; together with the protocol crates they
are nearly all of the repository's lines, so the models cover a small share of
it. The protocol crates are mostly command handlers; their scheduler is a
candidate once its queues are modelled. Fetch, cookies and web storage are
sequential policy over components above. Vendored code, benchmarks and smoke
tests are outside the project. Inside the modelled components: contents of
files and answers, names, logging and metrics; images too small to be parked;
upgrade transactions, deletion of the database file (with
`Published::deleting`, which refuses requests meanwhile), a COMMIT that reaches
the mailbox behind an ABORT of its transaction, and the requests inside a
transaction; author code that runs in getters while a message is serialized
(the ports are looked up again afterwards, `structured_clone.rs:1492`); the
ports of shared workers and of transferred streams; which entry the cache
evicts, headers, freshness, and the removal of metadata that do not parse or
name an unsafe file (what the cache publishes is renamed whole); capturing and
restoring a history across a navigation; weak memory order, which an
interleaving model cannot show (`connections.rs:452`); and panics, which abort
the process or are caught without a change of order, except in the writeback,
where one ends the task and loses its batch.
