--------------------------- MODULE ParkableImages ---------------------------
(***************************************************************************)
(* moli-parkable-image: encoded image bytes that move between memory and   *)
(* one extent of the disk pool, the manager that sweeps idle images to     *)
(* disk, and the scheduler task of moli-renderer-v8's network runtime that *)
(* drives it.                                                              *)
(*                                                                         *)
(* Every section under one lock (image state, with the registry nested in  *)
(* it; registry; waiting_for_change) is one step.  A sweep and a forced    *)
(* sweep run on blocking threads, client threads take and drop snapshots   *)
(* and handles, and the first disk write of an image runs without its      *)
(* lock.  The disk pool is reduced to what it promises (module DiskPool):  *)
(* it hands out at most Capacity extents, and none after a failed write.   *)
(* Every image is at least min_size_to_park long: shorter ones never enter *)
(* the registry.                                                           *)
(***************************************************************************)
EXTENDS Naturals, FiniteSetsExt

CONSTANTS
    Images,         \* the images ever created
    Clients,        \* threads that read and drop images
    MaxReaders,     \* bound: snapshots held at a time
    Capacity        \* extents the disk pool can hold

ASSUME ParkableAssumption ==
    /\ MaxReaders \in Nat
    /\ Capacity \in Nat

\* The two sweeps that can overlap: the scheduler's and a forced one.
Sweeps == {"scheduled", "forced"}

VARIABLES
    storage,        \* FrozenImageState::storage
    readers,        \* FrozenImageState::reader_count
    due,            \* park_after <= now
    owned,          \* a client holds the ParkableImage
    resident,       \* ParkableImageRegistry::resident
    parked,         \* ParkableImageRegistry::parked
    dying,          \* how far the drop of an image has come
    extents,        \* images that own a reserved or stored extent
    mayWrite,       \* DiskPool::may_write
    waiting,        \* waiting_for_change
    client,         \* what a client still has to do for its last call
    pc,             \* program counter of each sweep
    refs,           \* strong references a sweep holds
    cur,            \* images the sweep has not yet looked at in this phase
    missed,         \* ParkableImageSweepReport::unavailable # 0
    sched,          \* program counter of the scheduler task
    permit,         \* tokio Notify: stored permit
    armed,          \* tokio Notify: state of the armed future
    scan,           \* images next_parking_deadline has yet to inspect
    found           \* it has found a deadline

imageVars == <<storage, readers, due, owned, resident, parked, dying>>
poolVars == <<extents, mayWrite>>
sweepVars == <<pc, refs, cur, missed>>
notifyVars == <<permit, armed>>
scanVars == <<scan, found>>
vars == <<imageVars, poolVars, waiting, client, sweepVars, sched, notifyVars,
          scanVars>>

Init ==
    /\ storage = [i \in Images |-> "unborn"]
    /\ readers = [i \in Images |-> 0]
    /\ due = [i \in Images |-> FALSE]
    /\ owned = [i \in Images |-> FALSE]
    /\ resident = {} /\ parked = {}
    /\ dying = [i \in Images |-> "no"]
    /\ extents = {} /\ mayWrite = TRUE
    /\ waiting = FALSE
    /\ client = [c \in Clients |-> "idle"]
    /\ pc = [s \in Sweeps |-> "idle"]
    /\ refs = [s \in Sweeps |-> {}]
    /\ cur = [s \in Sweeps |-> {}]
    /\ missed = [s \in Sweeps |-> FALSE]
    /\ sched = "arm" /\ permit = FALSE /\ armed = "none"
    /\ scan = {} /\ found = FALSE

\* An image somebody still holds strongly: a weak reference upgrades.
Strong(i) == owned[i] \/ i \in scan \/ \E s \in Sweeps : i \in refs[s]

CanReserve == mayWrite /\ Cardinality(extents) < Capacity

\* parking_deadline returns Some.
HasDeadline(i) ==
    /\ storage[i] \in {"resident", "backed"}
    /\ readers[i] = 0
    /\ storage[i] = "backed" \/ mayWrite

MoveToParked(i) == resident' = resident \ {i} /\ parked' = parked \cup {i}
MoveToResident(i) == parked' = parked \ {i} /\ resident' = resident \cup {i}

\* notify_one on the scheduler's tokio Notify.
NotifyOne ==
    IF armed = "waiting" THEN armed' = "fired" /\ UNCHANGED permit
                         ELSE permit' = TRUE /\ UNCHANGED armed

-----------------------------------------------------------------------------
(* Clients.  A call that changes the schedule goes on to                   *)
(* notify_schedule_changed: clear the flag, then wake the scheduler.       *)

\* from_frozen_bytes and register_resident.
FromFrozenBytes(c, i) ==
    /\ client[c] = "idle" /\ storage[i] = "unborn"
    /\ storage' = [storage EXCEPT ![i] = "resident"]
    /\ owned' = [owned EXCEPT ![i] = TRUE]
    /\ resident' = resident \cup {i}
    /\ client' = [client EXCEPT ![c] = "clear"]
    /\ UNCHANGED <<readers, due, parked, dying, poolVars, waiting, sweepVars,
                   sched, notifyVars, scanVars>>

\* The snapshots held of all images.
Readers == MapThenSumSet(LAMBDA i : readers[i], Images)

\* Fault: a reader that arrives during the parking write takes the image out
\* of Parking.
SnapshotCancelsParking(c, i) ==
    /\ client[c] = "idle" /\ owned[i] /\ Readers < MaxReaders
    /\ IF storage[i] = "parked"
       THEN /\ storage' = [storage EXCEPT ![i] = "backed"]
            /\ MoveToResident(i)
       ELSE /\ storage' = [storage EXCEPT ![i] =
                             IF @ = "parking" THEN "resident" ELSE @]
            /\ UNCHANGED <<resident, parked>>
    /\ readers' = [readers EXCEPT ![i] = @ + 1]
    /\ client' = [client EXCEPT ![c] = IF readers[i] = 0 THEN "clear" ELSE @]
    /\ UNCHANGED <<due, owned, dying, poolVars, waiting, sweepVars, sched,
                   notifyVars, scanVars>>

\* snapshot: a parked image is read back under its lock and keeps its extent.
Snapshot(c, i) ==
    /\ client[c] = "idle" /\ owned[i] /\ Readers < MaxReaders
    /\ IF storage[i] = "parked"
       THEN /\ storage' = [storage EXCEPT ![i] = "backed"]
            /\ MoveToResident(i)
       ELSE UNCHANGED <<storage, resident, parked>>
    /\ readers' = [readers EXCEPT ![i] = @ + 1]
    /\ client' = [client EXCEPT ![c] = IF readers[i] = 0 THEN "clear" ELSE @]
    /\ UNCHANGED <<due, owned, dying, poolVars, waiting, sweepVars, sched,
                   notifyVars, scanVars>>

\* Clone for SnapshotLease: silent, because the image already has a reader.
CloneSnapshot(c, i) ==
    /\ client[c] = "idle" /\ Strong(i)
    /\ readers[i] > 0 /\ Readers < MaxReaders
    /\ readers' = [readers EXCEPT ![i] = @ + 1]
    /\ UNCHANGED <<storage, due, owned, resident, parked, dying, poolVars,
                   waiting, client, sweepVars, sched, notifyVars, scanVars>>

\* Drop for SnapshotLease: the last reader restarts the grace period.  Once
\* the image is gone the lease no longer upgrades and the drop does nothing.
ReleaseSnapshot(c, i) ==
    /\ client[c] = "idle" /\ Strong(i) /\ readers[i] > 0
    /\ readers' = [readers EXCEPT ![i] = @ - 1]
    /\ due' = [due EXCEPT ![i] = IF readers[i] = 1 THEN FALSE ELSE @]
    /\ client' = [client EXCEPT ![c] = IF readers[i] = 1 THEN "clear" ELSE @]
    /\ UNCHANGED <<storage, owned, resident, parked, dying, poolVars, waiting,
                   sweepVars, sched, notifyVars, scanVars>>

\* notify_schedule_changed, first half.
NotifyClear(c) ==
    /\ client[c] = "clear"
    /\ waiting' = FALSE
    /\ client' = [client EXCEPT ![c] = "wake"]
    /\ UNCHANGED <<imageVars, poolVars, sweepVars, sched, notifyVars, scanVars>>

\* notify_schedule_changed, second half.
NotifyWake(c) ==
    /\ client[c] = "wake"
    /\ NotifyOne
    /\ client' = [client EXCEPT ![c] = "idle"]
    /\ UNCHANGED <<imageVars, poolVars, waiting, sweepVars, sched, scanVars>>

\* The client drops its handle; a sweep may still hold the image.
DropHandle(i) ==
    /\ owned[i]
    /\ owned' = [owned EXCEPT ![i] = FALSE]
    /\ UNCHANGED <<storage, readers, due, resident, parked, dying, poolVars,
                   waiting, client, sweepVars, sched, notifyVars, scanVars>>

\* The last strong reference is gone.  The fields drop in declaration order:
\* the storage, with its extent, before the registration.
DropStorage(i) ==
    /\ storage[i] \notin {"unborn", "gone"} /\ ~Strong(i)
    /\ storage' = [storage EXCEPT ![i] = "gone"]
    /\ readers' = [readers EXCEPT ![i] = 0]
    /\ extents' = extents \ {i}
    /\ dying' = [dying EXCEPT ![i] = "unregister"]
    /\ UNCHANGED <<due, owned, resident, parked, mayWrite, waiting, client,
                   sweepVars, sched, notifyVars, scanVars>>

\* Drop for ParkableImageRegistration: unregister under the registry lock.
Unregister(i) ==
    /\ dying[i] = "unregister"
    /\ resident' = resident \ {i} /\ parked' = parked \ {i}
    /\ dying' = [dying EXCEPT ![i] =
                    IF i \in resident \cup parked THEN "clear" ELSE "no"]
    /\ UNCHANGED <<storage, readers, due, owned, poolVars, waiting, client,
                   sweepVars, sched, notifyVars, scanVars>>

\* unregister goes on to notify_schedule_changed.
UnregisterClear(i) ==
    /\ dying[i] = "clear"
    /\ waiting' = FALSE
    /\ dying' = [dying EXCEPT ![i] = "wake"]
    /\ UNCHANGED <<storage, readers, due, owned, resident, parked, poolVars,
                   client, sweepVars, sched, notifyVars, scanVars>>

UnregisterWake(i) ==
    /\ dying[i] = "wake"
    /\ NotifyOne
    /\ dying' = [dying EXCEPT ![i] = "no"]
    /\ UNCHANGED <<storage, readers, due, owned, resident, parked, poolVars,
                   waiting, client, sweepVars, sched, scanVars>>

\* The clock reaches park_after.  Nobody looks at the deadline of an image
\* that is parked or has readers before the last reader sets a new one.
Elapse(i) ==
    /\ storage[i] \in {"resident", "backed", "parking"} /\ readers[i] = 0
    /\ ~due[i]
    /\ due' = [due EXCEPT ![i] = TRUE]
    /\ UNCHANGED <<storage, readers, owned, resident, parked, dying, poolVars,
                   waiting, client, sweepVars, sched, notifyVars, scanVars>>

-----------------------------------------------------------------------------
(* Sweeps                                                                  *)

\* begin_scheduled_sweep: refused while the manager waits for a change.
BeginScheduled ==
    /\ sched = "sweep" /\ pc["scheduled"] = "idle"
    /\ IF waiting
       THEN sched' = "arm" /\ UNCHANGED <<waiting, pc>>
       ELSE /\ waiting' = TRUE
            /\ pc' = [pc EXCEPT !["scheduled"] = "list"]
            /\ UNCHANGED sched
    /\ UNCHANGED <<imageVars, poolVars, client, refs, cur, missed, notifyVars,
                   scanVars>>

\* begin_forced_sweep
BeginForced ==
    /\ pc["forced"] = "idle"
    /\ waiting' = TRUE
    /\ pc' = [pc EXCEPT !["forced"] = "list"]
    /\ UNCHANGED <<imageVars, poolVars, client, refs, cur, missed, sched,
                   notifyVars, scanVars>>

\* resident_images: upgrade every weak reference of the resident index.
ListResident(s) ==
    /\ pc[s] = "list"
    /\ LET live == {i \in resident : Strong(i)}
       IN  refs' = [refs EXCEPT ![s] = live] /\ cur' = [cur EXCEPT ![s] = live]
    /\ pc' = [pc EXCEPT ![s] = IF s = "scheduled" THEN "filter" ELSE "park"]
    /\ UNCHANGED <<imageVars, poolVars, waiting, client, missed, sched,
                   notifyVars, scanVars>>

\* The scheduled sweep keeps the images whose deadline has passed, locking
\* them one at a time before it parks any.
FilterDue(i) ==
    /\ pc["scheduled"] = "filter" /\ i \in cur["scheduled"]
    /\ refs' = [refs EXCEPT !["scheduled"] =
                   IF HasDeadline(i) /\ due[i] THEN @ ELSE @ \ {i}]
    /\ cur' = [cur EXCEPT !["scheduled"] = @ \ {i}]
    /\ UNCHANGED <<imageVars, poolVars, waiting, client, pc, missed, sched,
                   notifyVars, scanVars>>

FilterDone ==
    /\ pc["scheduled"] = "filter" /\ cur["scheduled"] = {}
    /\ pc' = [pc EXCEPT !["scheduled"] = "park"]
    /\ UNCHANGED <<imageVars, poolVars, waiting, client, refs, cur, missed,
                   sched, notifyVars, scanVars>>

\* prepare_parking passes its early returns: a resident image without readers
\* whose deadline has passed or is ignored.
Parkable(s, i) ==
    /\ storage[i] \in {"resident", "backed"}
    /\ readers[i] = 0
    /\ s = "forced" \/ due[i]

\* prepare_parking: one locked look at one image of the sweep.
PrepareParking(s, i) ==
    /\ pc[s] = "park" /\ i \in refs[s]
    /\ \/ /\ ~Parkable(s, i)            \* InUse, AlreadyParked or Delayed
          /\ refs' = [refs EXCEPT ![s] = @ \ {i}]
          /\ UNCHANGED <<storage, resident, parked, extents, pc, cur, missed>>
       \/ /\ Parkable(s, i) /\ storage[i] = "backed"
          /\ storage' = [storage EXCEPT ![i] = "parked"]
          /\ MoveToParked(i)
          /\ refs' = [refs EXCEPT ![s] = @ \ {i}]
          /\ UNCHANGED <<extents, pc, cur, missed>>
       \/ /\ Parkable(s, i) /\ storage[i] = "resident" /\ ~CanReserve
          /\ missed' = [missed EXCEPT ![s] = TRUE]
          /\ refs' = [refs EXCEPT ![s] = @ \ {i}]
          /\ UNCHANGED <<storage, resident, parked, extents, pc, cur>>
       \/ /\ Parkable(s, i) /\ storage[i] = "resident" /\ CanReserve
          /\ storage' = [storage EXCEPT ![i] = "parking"]
          /\ extents' = extents \cup {i}
          /\ pc' = [pc EXCEPT ![s] = "write"]
          /\ cur' = [cur EXCEPT ![s] = {i}]
          /\ UNCHANGED <<resident, parked, refs, missed>>
    /\ UNCHANGED <<readers, due, owned, dying, mayWrite, waiting, client, sched,
                   notifyVars, scanVars>>

\* DiskPool::write, without the image lock.
Write(s) ==
    /\ pc[s] = "write"
    /\ \/ /\ pc' = [pc EXCEPT ![s] = "written"]
          /\ UNCHANGED poolVars
       \/ /\ pc' = [pc EXCEPT ![s] = "failed"]
          /\ extents' = extents \ cur[s]
          /\ mayWrite' = FALSE
    /\ UNCHANGED <<imageVars, waiting, client, refs, cur, missed, sched,
                   notifyVars, scanVars>>

\* What ends the sweep's work on image i.
Completed(s, i) ==
    /\ pc' = [pc EXCEPT ![s] = "park"]
    /\ refs' = [refs EXCEPT ![s] = @ \ {i}]
    /\ cur' = [cur EXCEPT ![s] = {}]
    /\ UNCHANGED <<readers, due, owned, dying, poolVars, waiting, client, missed,
                   sched, notifyVars, scanVars>>

\* Fault: readers that arrived during the write are ignored.
CompleteIgnoringReaders(s, i) ==
    /\ pc[s] \in {"written", "failed"} /\ cur[s] = {i}
    /\ \/ /\ pc[s] = "written"
          /\ storage' = [storage EXCEPT ![i] = "parked"]
          /\ MoveToParked(i)
       \/ /\ pc[s] = "failed"
          /\ storage' = [storage EXCEPT ![i] = "resident"]
          /\ UNCHANGED <<resident, parked>>
    /\ Completed(s, i)

\* complete_parking_write: readers may have arrived during the write.
CompleteParkingWrite(s, i) ==
    /\ pc[s] \in {"written", "failed"} /\ cur[s] = {i}
    /\ \/ /\ pc[s] = "written" /\ readers[i] = 0
          /\ storage' = [storage EXCEPT ![i] = "parked"]
          /\ MoveToParked(i)
       \/ /\ pc[s] = "written" /\ readers[i] > 0
          /\ storage' = [storage EXCEPT ![i] = "backed"]
          /\ UNCHANGED <<resident, parked>>
       \/ /\ pc[s] = "failed"
          /\ storage' = [storage EXCEPT ![i] = "resident"]
          /\ UNCHANGED <<resident, parked>>
    /\ Completed(s, i)

\* Fault: a sweep that missed capacity arms the wait again.
FinishSweepRearms(s) ==
    /\ pc[s] = "park" /\ refs[s] = {}
    /\ waiting' = missed[s]
    /\ pc' = [pc EXCEPT ![s] = "finish"]
    /\ cur' = [cur EXCEPT ![s] = {}]
    /\ missed' = [missed EXCEPT ![s] = FALSE]
    /\ UNCHANGED <<imageVars, poolVars, client, refs, sched, notifyVars,
                   scanVars>>

\* finish_sweep: only a sweep that missed no capacity clears the flag.
FinishSweep(s) ==
    /\ pc[s] = "park" /\ refs[s] = {}
    /\ waiting' = IF missed[s] THEN waiting ELSE FALSE
    /\ pc' = [pc EXCEPT ![s] = "finish"]
    /\ cur' = [cur EXCEPT ![s] = {}]
    /\ missed' = [missed EXCEPT ![s] = FALSE]
    /\ UNCHANGED <<imageVars, poolVars, client, refs, sched, notifyVars,
                   scanVars>>

\* Fault: a sweep ends without waking the scheduler.
FinishSilent(s) ==
    /\ pc[s] = "finish"
    /\ pc' = [pc EXCEPT ![s] = "idle"]
    /\ sched' = IF s = "scheduled" THEN "arm" ELSE sched
    /\ UNCHANGED <<imageVars, poolVars, waiting, client, refs, cur, missed,
                   notifyVars, scanVars>>

\* ... and then wakes the scheduler; the scheduler awaits its own sweep.
FinishWake(s) ==
    /\ pc[s] = "finish"
    /\ NotifyOne
    /\ pc' = [pc EXCEPT ![s] = "idle"]
    /\ sched' = IF s = "scheduled" THEN "arm" ELSE sched
    /\ UNCHANGED <<imageVars, poolVars, waiting, client, refs, cur, missed,
                   scanVars>>

-----------------------------------------------------------------------------
(* run_parkable_image_scheduler                                            *)

\* The previous future is dropped, which hands an unread notification back,
\* and a new one is armed, which consumes a stored permit.
ArmNotified ==
    /\ sched = "arm"
    /\ LET stored == permit \/ armed = "fired"
       IN  armed' = IF stored THEN "done" ELSE "waiting"
    /\ permit' = FALSE
    /\ sched' = "check"
    /\ UNCHANGED <<imageVars, poolVars, waiting, client, sweepVars, scanVars>>

\* next_parking_deadline: nothing while waiting for a change ...
CheckWaiting ==
    /\ sched = "check"
    /\ sched' = IF waiting THEN "wait" ELSE "list"
    /\ UNCHANGED <<imageVars, poolVars, waiting, client, sweepVars, notifyVars, scanVars>>

\* ... else the residents are listed, under a lock of their own ...
ListResidents ==
    /\ sched = "list"
    /\ sched' = "scan"
    /\ scan' = {i \in resident : Strong(i)}
    /\ UNCHANGED <<imageVars, poolVars, waiting, client, sweepVars, notifyVars, found>>

\* ... and asked one at a time.
ScanDeadline(i) ==
    /\ sched = "scan" /\ i \in scan
    /\ scan' = scan \ {i}
    /\ found' = (found \/ HasDeadline(i))
    /\ UNCHANGED <<imageVars, poolVars, waiting, client, sweepVars, sched,
                   notifyVars>>

ScanDone ==
    /\ sched = "scan" /\ scan = {}
    /\ sched' = IF found THEN "sleep" ELSE "wait"
    /\ found' = FALSE
    /\ UNCHANGED <<imageVars, poolVars, waiting, client, sweepVars, notifyVars,
                   scan>>

\* The armed notification completes: look at the deadlines again.
Notified ==
    /\ sched \in {"sleep", "wait"} /\ armed \in {"fired", "done"}
    /\ armed' = "none"
    /\ sched' = "arm"
    /\ UNCHANGED <<imageVars, poolVars, waiting, client, sweepVars, permit,
                   scanVars>>

\* The earliest deadline found has passed (or has been overtaken by a change).
SleepElapsed ==
    /\ sched = "sleep"
    /\ sched' = "sweep"
    /\ UNCHANGED <<imageVars, poolVars, waiting, client, sweepVars, notifyVars,
                   scanVars>>

-----------------------------------------------------------------------------
Client ==
    \E c \in Clients :
        \/ \E i \in Images : \/ FromFrozenBytes(c, i) \/ Snapshot(c, i)
                             \/ CloneSnapshot(c, i) \/ ReleaseSnapshot(c, i)
        \/ NotifyClear(c) \/ NotifyWake(c)

Image ==
    \E i \in Images : \/ DropHandle(i) \/ DropStorage(i) \/ Unregister(i)
                      \/ UnregisterClear(i) \/ UnregisterWake(i) \/ Elapse(i)

SweepStep(s) ==
    \/ ListResident(s) \/ Write(s) \/ FinishSweep(s) \/ FinishWake(s)
    \/ \E i \in Images : PrepareParking(s, i) \/ CompleteParkingWrite(s, i)

ScheduledSweep ==
    \/ BeginScheduled \/ FilterDone \/ SweepStep("scheduled")
    \/ \E i \in Images : FilterDue(i)

Scheduler ==
    \/ ArmNotified \/ CheckWaiting \/ ListResidents \/ ScanDone \/ Notified
    \/ \E i \in Images : ScanDeadline(i)

Next ==
    \/ Client
    \/ Image
    \/ BeginForced
    \/ SweepStep("forced")
    \/ ScheduledSweep
    \/ Scheduler
    \/ SleepElapsed

Spec == Init /\ [][Next]_vars

\* The scheduler task, the sweeps it starts, a forced sweep once begun and
\* every notification once due keep running; time passes.  Clients owe
\* nothing: they may keep snapshots and handles forever.
Fairness ==
    /\ WF_vars(Scheduler) /\ WF_vars(SleepElapsed)
    /\ WF_vars(ScheduledSweep) /\ WF_vars(SweepStep("forced"))
    /\ \A c \in Clients : WF_vars(NotifyClear(c) \/ NotifyWake(c))
    /\ \A i \in Images :
          /\ WF_vars(DropStorage(i) \/ Unregister(i) \/ UnregisterClear(i)
                       \/ UnregisterWake(i))
          /\ WF_vars(Elapse(i))

FairSpec == Spec /\ Fairness

-----------------------------------------------------------------------------
(* Properties                                                              *)

Storage == {"unborn", "resident", "backed", "parking", "parked", "gone"}

\* Every variable has its type.
TypeOK ==
    /\ storage \in [Images -> Storage]
    /\ readers \in [Images -> Nat]
    /\ due \in [Images -> BOOLEAN] /\ owned \in [Images -> BOOLEAN]
    /\ resident \subseteq Images /\ parked \subseteq Images
    /\ dying \in [Images -> {"no", "unregister", "clear", "wake"}]
    /\ extents \subseteq Images /\ mayWrite \in BOOLEAN
    /\ waiting \in BOOLEAN
    /\ client \in [Clients -> {"idle", "clear", "wake"}]
    /\ pc \in [Sweeps -> {"idle", "list", "filter", "park", "write", "written",
                          "failed", "finish"}]
    /\ refs \in [Sweeps -> SUBSET Images] /\ cur \in [Sweeps -> SUBSET Images]
    /\ missed \in [Sweeps -> BOOLEAN]
    /\ sched \in {"arm", "check", "list", "scan", "sleep", "wait", "sweep"}
    /\ permit \in BOOLEAN /\ armed \in {"none", "waiting", "fired", "done"}
    /\ scan \subseteq Images /\ found \in BOOLEAN

Writing(s) == pc[s] \in {"write", "written", "failed"}

\* The registry never disagrees with an image about where its bytes are: the
\* debug assertions of ParkableImageRegistry hold in every interleaving.
RegistryExact ==
    /\ resident \cap parked = {}
    /\ \A i \in Images : storage[i] \notin {"unborn", "gone"} =>
          IF storage[i] = "parked" THEN i \in parked ELSE i \in resident

\* While a snapshot exists its image keeps the bytes in memory, also when the
\* snapshot is taken during the parking write.
ReadersKeepBytes == \A i \in Images : readers[i] > 0 => storage[i] # "parked"

\* Two overlapping sweeps never park the same image: a write that completes
\* finds the image still in Parking ("parking write completed after its state
\* was replaced" is unreachable).
OneWriterPerImage ==
    /\ \A s \in Sweeps : Writing(s) => \A i \in cur[s] : storage[i] = "parking"
    /\ \A s, t \in Sweeps : s # t /\ Writing(s) /\ Writing(t) =>
                                cur[s] \cap cur[t] = {}

\* One extent per image, owned exactly while the image has a backup, is
\* parked or is being written: neither a failed write nor a reader arriving
\* during the write leaks or drops one.
ExtentsMatchStorage ==
    \A i \in Images : i \in extents <=>
        \/ storage[i] \in {"backed", "parked"}
        \/ \E s \in Sweeps : pc[s] \in {"write", "written"} /\ cur[s] = {i}

\* Image, registry and pool agree at every step of two overlapping sweeps:
\* the index that lists an image, the write under way for it and the extent it
\* owns all follow from its storage state.
ParkingExact ==
    TypeOK /\ RegistryExact /\ OneWriterPerImage /\ ExtentsMatchStorage

\* No step of a sweep or of a notification is under way.
Quiet ==
    /\ \A s \in Sweeps : pc[s] = "idle"
    /\ \A c \in Clients : client[c] = "idle"
    /\ \A i \in Images : dying[i] = "no" /\ (Strong(i) \/ storage[i] \in {"unborn", "gone"})

\* waiting_for_change survives only a capacity miss that still stands: no
\* notification is overwritten by a sweep that was already under way.
WaitIsJustified == Quiet /\ waiting => ~CanReserve

\* The scheduler never sleeps through a deadline it should know of: when it
\* waits for a notification and none is due, no image is schedulable.
NoLostSchedule ==
    Quiet /\ sched = "wait" /\ armed = "waiting" /\ ~waiting =>
        \A i \in Images : ~HasDeadline(i)

Idle(i) == owned[i] /\ readers[i] = 0

\* An image that stays idle while the pool has room does not stay in memory.
IdleImageIsParked ==
    \A i \in Images : []<>~(Idle(i) /\ storage[i] = "resident" /\ CanReserve)

\* "Suppress expired deadlines after a capacity miss" (manager.rs): an idle
\* image with a disk backup needs no capacity, so while its deadline has not
\* expired the scheduler knows of it, also after another image's miss.
OnlyExpiredDeadlinesSuppressed ==
    Quiet /\ sched = "wait" /\ armed = "waiting" =>
        \A i \in Images : HasDeadline(i) /\ storage[i] = "backed" => due[i]
=============================================================================
