------------------------- MODULE ParkableImagesProofs -------------------------
(***************************************************************************)
(* What parking guarantees, for any number of images, clients and extents: *)
(* image, registry and pool agree while two sweeps overlap, a snapshot     *)
(* keeps its bytes, and neither the flag of the manager nor the sleep of   *)
(* its scheduler outlives its reason.                                      *)
(***************************************************************************)
EXTENDS ParkableImages, FiniteSetTheorems, TLAPS

-----------------------------------------------------------------------------
(* The images: a sweep that writes holds a reference to the one image it   *)
(* has put in Parking, so that image can be neither dropped nor parked by  *)
(* the other sweep before the write completes.                             *)

WriterHolds ==
    \A s \in Sweeps : Writing(s) =>
        \E i \in refs[s] : cur[s] = {i} /\ storage[i] = "parking"
WritersApart ==
    \A s, t \in Sweeps : s # t /\ Writing(s) /\ Writing(t) => cur[s] \cap cur[t] = {}
UnbornUnlisted == \A i \in Images : storage[i] = "unborn" => i \notin parked
DyingGone ==
    \A i \in Images :
        /\ dying[i] # "no" => storage[i] = "gone"
        /\ dying[i] = "unregister" => i \in resident \cup parked

ImageInv ==
    /\ TypeOK /\ IsFiniteSet(extents)
    /\ RegistryExact /\ UnbornUnlisted /\ DyingGone
    /\ ReadersKeepBytes
    /\ WriterHolds /\ WritersApart /\ ExtentsMatchStorage

(* The schedule: a flag that is set has a reason that still stands, or a   *)
(* sweep or an unregistration that is going to clear it.                   *)

Sweeping(s) == pc[s] \in {"list", "filter", "park", "write", "written", "failed"}

WaitExplained ==
    /\ \A s \in Sweeps : ~Sweeping(s) => ~missed[s]
    /\ waiting =>
        \/ ~CanReserve
        \/ \E s \in Sweeps : Sweeping(s) /\ ~missed[s]
        \/ \E i \in Images : dying[i] \in {"unregister", "clear"}

(* A change of the schedule that has not reached the scheduler yet.        *)

Announced ==
    \/ \E c \in Clients : client[c] # "idle"
    \/ \E i \in Images : dying[i] \in {"clear", "wake"}
    \/ \E s \in Sweeps : pc[s] # "idle"

\* Unless a change is announced, what the scheduler has found out is true.
ScheduleKnown ==
    armed = "waiting" /\ ~waiting /\ ~Announced =>
        \A i \in Images : HasDeadline(i) /\ Strong(i) =>
            /\ sched # "wait"
            /\ sched = "scan" => found \/ i \in scan

ParkInv == ImageInv /\ WaitExplained /\ ScheduleKnown

\* A runtime without images satisfies it.
LEMMA ParkInit == Init => ParkInv
<1> SUFFICES ASSUME Init PROVE ParkInv
    OBVIOUS
<1>1. TypeOK
    BY DEF Init, TypeOK, Storage, Sweeps
<1>2. IsFiniteSet(extents)
    BY FS_EmptySet DEF Init
<1>3. RegistryExact /\ UnbornUnlisted /\ DyingGone /\ ReadersKeepBytes
    BY DEF Init, RegistryExact, UnbornUnlisted, DyingGone, ReadersKeepBytes
<1>4. WriterHolds /\ WritersApart /\ ExtentsMatchStorage
    BY DEF Init, WriterHolds, WritersApart, ExtentsMatchStorage, Writing, Sweeps
<1>5. WaitExplained /\ ScheduleKnown
    BY DEF Init, WaitExplained, ScheduleKnown, Sweeps
<1> QED
    BY <1>1, <1>2, <1>3, <1>4, <1>5 DEF ParkInv, ImageInv

\* A new image enters the resident index in the step that makes it, and its
\* client goes on to announce it.
LEMMA FromFrozenBytesKeeps ==
    ASSUME ParkInv, NEW c \in Clients, NEW i \in Images, FromFrozenBytes(c, i)
    PROVE  ParkInv'
<1> USE DEF ParkInv, ImageInv, imageVars, poolVars, sweepVars, notifyVars, scanVars, FromFrozenBytes, Sweeps, Writing
<1>1. TypeOK'
    BY DEF TypeOK, Storage, MoveToResident, MoveToParked, NotifyOne, Completed, Parkable
<1>2. IsFiniteSet(extents)'
    BY FS_AddElement, FS_Difference DEF Completed
<1>3. (RegistryExact /\ UnbornUnlisted /\ DyingGone)'
    BY DEF TypeOK, RegistryExact, UnbornUnlisted, DyingGone, MoveToResident, MoveToParked, Completed, Parkable, WriterHolds
<1>4. ReadersKeepBytes'
    BY DEF TypeOK, ReadersKeepBytes, Completed, Parkable
<1>5. (WriterHolds /\ WritersApart)'
    BY DEF TypeOK, WriterHolds, WritersApart, Completed, Parkable, Strong
<1>6. ExtentsMatchStorage'
    BY DEF TypeOK, WriterHolds, WritersApart, ExtentsMatchStorage, Completed, Parkable, Strong
<1>7. WaitExplained'
    BY DEF TypeOK, WaitExplained, CanReserve, Sweeping, Completed, Parkable, DyingGone
<1>8. ScheduleKnown'
    BY DEF TypeOK, ScheduleKnown, Announced, HasDeadline, Strong, NotifyOne, Completed, RegistryExact
<1> QED
    BY <1>1, <1>2, <1>3, <1>4, <1>5, <1>6, <1>7, <1>8

\* A snapshot of a parked image brings it back to the resident index; the first
\* reader takes a deadline away and gives none.
LEMMA SnapshotKeeps ==
    ASSUME ParkInv, NEW c \in Clients, NEW i \in Images, Snapshot(c, i)
    PROVE  ParkInv'
<1> USE DEF ParkInv, ImageInv, imageVars, poolVars, sweepVars, notifyVars, scanVars, Snapshot, Sweeps, Writing
<1>1. TypeOK'
    BY DEF TypeOK, Storage, MoveToResident, MoveToParked, NotifyOne, Completed, Parkable
<1>2. IsFiniteSet(extents)'
    BY FS_AddElement, FS_Difference DEF Completed
<1>3. (RegistryExact /\ UnbornUnlisted /\ DyingGone)'
    BY DEF TypeOK, RegistryExact, UnbornUnlisted, DyingGone, MoveToResident, MoveToParked, Completed, Parkable, WriterHolds
<1>4. ReadersKeepBytes'
    BY DEF TypeOK, ReadersKeepBytes, Completed, Parkable
<1>5. (WriterHolds /\ WritersApart)'
    BY DEF TypeOK, WriterHolds, WritersApart, Completed, Parkable, Strong
<1>6. ExtentsMatchStorage'
    BY DEF TypeOK, WriterHolds, WritersApart, ExtentsMatchStorage, Completed, Parkable, Strong
<1>7. WaitExplained'
    BY DEF TypeOK, WaitExplained, CanReserve, Sweeping, Completed, Parkable, DyingGone
<1>8. ScheduleKnown'
    BY DEF TypeOK, ScheduleKnown, Announced, HasDeadline, Strong, NotifyOne, Completed, RegistryExact
<1> QED
    BY <1>1, <1>2, <1>3, <1>4, <1>5, <1>6, <1>7, <1>8

\* A clone finds a reader already there.
LEMMA CloneSnapshotKeeps ==
    ASSUME ParkInv, NEW c \in Clients, NEW i \in Images, CloneSnapshot(c, i)
    PROVE  ParkInv'
<1> USE DEF ParkInv, ImageInv, imageVars, poolVars, sweepVars, notifyVars, scanVars, CloneSnapshot, Sweeps, Writing
<1>1. TypeOK'
    BY DEF TypeOK, Storage, MoveToResident, MoveToParked, NotifyOne, Completed, Parkable
<1>2. IsFiniteSet(extents)'
    BY FS_AddElement, FS_Difference DEF Completed
<1>3. (RegistryExact /\ UnbornUnlisted /\ DyingGone)'
    BY DEF TypeOK, RegistryExact, UnbornUnlisted, DyingGone, MoveToResident, MoveToParked, Completed, Parkable, WriterHolds
<1>4. ReadersKeepBytes'
    BY DEF TypeOK, ReadersKeepBytes, Completed, Parkable
<1>5. (WriterHolds /\ WritersApart)'
    BY DEF TypeOK, WriterHolds, WritersApart, Completed, Parkable, Strong
<1>6. ExtentsMatchStorage'
    BY DEF TypeOK, WriterHolds, WritersApart, ExtentsMatchStorage, Completed, Parkable, Strong
<1>7. WaitExplained'
    BY DEF TypeOK, WaitExplained, CanReserve, Sweeping, Completed, Parkable, DyingGone
<1>8. ScheduleKnown'
    BY DEF TypeOK, ScheduleKnown, Announced, HasDeadline, Strong, NotifyOne, Completed, RegistryExact
<1> QED
    BY <1>1, <1>2, <1>3, <1>4, <1>5, <1>6, <1>7, <1>8

\* The last reader gives the image a deadline and goes on to announce it.
LEMMA ReleaseSnapshotKeeps ==
    ASSUME ParkInv, NEW c \in Clients, NEW i \in Images, ReleaseSnapshot(c, i)
    PROVE  ParkInv'
<1> USE DEF ParkInv, ImageInv, imageVars, poolVars, sweepVars, notifyVars, scanVars, ReleaseSnapshot, Sweeps, Writing
<1>1. TypeOK'
    <2>1. readers' \in [Images -> Nat]
        BY DEF TypeOK
    <2>2. due' \in [Images -> BOOLEAN]
        BY DEF TypeOK
    <2>3. client' \in [Clients -> {"idle", "clear", "wake"}]
        BY DEF TypeOK
    <2> QED BY <2>1, <2>2, <2>3 DEF TypeOK, Storage
<1>2. IsFiniteSet(extents)'
    BY FS_AddElement, FS_Difference DEF Completed
<1>3. (RegistryExact /\ UnbornUnlisted /\ DyingGone)'
    BY DEF TypeOK, RegistryExact, UnbornUnlisted, DyingGone, MoveToResident, MoveToParked, Completed, Parkable, WriterHolds
<1>4. ReadersKeepBytes'
    BY DEF TypeOK, ReadersKeepBytes, Completed, Parkable
<1>5. (WriterHolds /\ WritersApart)'
    BY DEF TypeOK, WriterHolds, WritersApart, Completed, Parkable, Strong
<1>6. ExtentsMatchStorage'
    BY DEF TypeOK, WriterHolds, WritersApart, ExtentsMatchStorage, Completed, Parkable, Strong
<1>7. WaitExplained'
    BY DEF TypeOK, WaitExplained, CanReserve, Sweeping, Completed, Parkable, DyingGone
<1>8. ScheduleKnown'
    BY DEF TypeOK, ScheduleKnown, Announced, HasDeadline, Strong, NotifyOne, Completed, RegistryExact
<1> QED
    BY <1>1, <1>2, <1>3, <1>4, <1>5, <1>6, <1>7, <1>8

\* Clearing the flag leaves the wake still announced.
LEMMA NotifyClearKeeps ==
    ASSUME ParkInv, NEW c \in Clients, NotifyClear(c)
    PROVE  ParkInv'
<1> USE DEF ParkInv, ImageInv, imageVars, poolVars, sweepVars, notifyVars, scanVars, NotifyClear, Sweeps, Writing
<1>1. TypeOK'
    BY DEF TypeOK, Storage, MoveToResident, MoveToParked, NotifyOne, Completed, Parkable
<1>2. IsFiniteSet(extents)'
    BY FS_AddElement, FS_Difference DEF Completed
<1>3. (RegistryExact /\ UnbornUnlisted /\ DyingGone)'
    BY DEF TypeOK, RegistryExact, UnbornUnlisted, DyingGone, MoveToResident, MoveToParked, Completed, Parkable, WriterHolds
<1>4. ReadersKeepBytes'
    BY DEF TypeOK, ReadersKeepBytes, Completed, Parkable
<1>5. (WriterHolds /\ WritersApart)'
    BY DEF TypeOK, WriterHolds, WritersApart, Completed, Parkable, Strong
<1>6. ExtentsMatchStorage'
    BY DEF TypeOK, WriterHolds, WritersApart, ExtentsMatchStorage, Completed, Parkable, Strong
<1>7. WaitExplained'
    BY DEF TypeOK, WaitExplained, CanReserve, Sweeping, Completed, Parkable, DyingGone
<1>8. ScheduleKnown'
    BY DEF TypeOK, ScheduleKnown, Announced, HasDeadline, Strong, NotifyOne, Completed, RegistryExact
<1> QED
    BY <1>1, <1>2, <1>3, <1>4, <1>5, <1>6, <1>7, <1>8

\* The wake reaches the scheduler: it is no longer armed and waiting.
LEMMA NotifyWakeKeeps ==
    ASSUME ParkInv, NEW c \in Clients, NotifyWake(c)
    PROVE  ParkInv'
<1> USE DEF ParkInv, ImageInv, imageVars, poolVars, sweepVars, notifyVars, scanVars, NotifyWake, Sweeps, Writing
<1>1. TypeOK'
    BY DEF TypeOK, Storage, MoveToResident, MoveToParked, NotifyOne, Completed, Parkable
<1>2. IsFiniteSet(extents)'
    BY FS_AddElement, FS_Difference DEF Completed
<1>3. (RegistryExact /\ UnbornUnlisted /\ DyingGone)'
    BY DEF TypeOK, RegistryExact, UnbornUnlisted, DyingGone, MoveToResident, MoveToParked, Completed, Parkable, WriterHolds
<1>4. ReadersKeepBytes'
    BY DEF TypeOK, ReadersKeepBytes, Completed, Parkable
<1>5. (WriterHolds /\ WritersApart)'
    BY DEF TypeOK, WriterHolds, WritersApart, Completed, Parkable, Strong
<1>6. ExtentsMatchStorage'
    BY DEF TypeOK, WriterHolds, WritersApart, ExtentsMatchStorage, Completed, Parkable, Strong
<1>7. WaitExplained'
    BY DEF TypeOK, WaitExplained, CanReserve, Sweeping, Completed, Parkable, DyingGone
<1>8. ScheduleKnown'
    BY DEF TypeOK, ScheduleKnown, Announced, HasDeadline, Strong, NotifyOne, Completed, RegistryExact
<1> QED
    BY <1>1, <1>2, <1>3, <1>4, <1>5, <1>6, <1>7, <1>8

\* Dropping a handle moves nothing.
LEMMA DropHandleKeeps ==
    ASSUME ParkInv, NEW i \in Images, DropHandle(i)
    PROVE  ParkInv'
<1> USE DEF ParkInv, ImageInv, imageVars, poolVars, sweepVars, notifyVars, scanVars, DropHandle, Sweeps, Writing
<1>1. TypeOK'
    BY DEF TypeOK, Storage, MoveToResident, MoveToParked, NotifyOne, Completed, Parkable
<1>2. IsFiniteSet(extents)'
    BY FS_AddElement, FS_Difference DEF Completed
<1>3. (RegistryExact /\ UnbornUnlisted /\ DyingGone)'
    BY DEF TypeOK, RegistryExact, UnbornUnlisted, DyingGone, MoveToResident, MoveToParked, Completed, Parkable, WriterHolds
<1>4. ReadersKeepBytes'
    BY DEF TypeOK, ReadersKeepBytes, Completed, Parkable
<1>5. (WriterHolds /\ WritersApart)'
    BY DEF TypeOK, WriterHolds, WritersApart, Completed, Parkable, Strong
<1>6. ExtentsMatchStorage'
    BY DEF TypeOK, WriterHolds, WritersApart, ExtentsMatchStorage, Completed, Parkable, Strong
<1>7. WaitExplained'
    BY DEF TypeOK, WaitExplained, CanReserve, Sweeping, Completed, Parkable, DyingGone
<1>8. ScheduleKnown'
    BY DEF TypeOK, ScheduleKnown, Announced, HasDeadline, Strong, NotifyOne, Completed, RegistryExact
<1> QED
    BY <1>1, <1>2, <1>3, <1>4, <1>5, <1>6, <1>7, <1>8

\* Nobody holds a dropped image, so no sweep is writing it; the extent it frees
\* is answered by the unregistration that follows.
LEMMA DropStorageKeeps ==
    ASSUME ParkInv, NEW i \in Images, DropStorage(i)
    PROVE  ParkInv'
<1> USE DEF ParkInv, ImageInv, imageVars, poolVars, sweepVars, notifyVars, scanVars, DropStorage, Sweeps, Writing
<1>1. TypeOK'
    BY DEF TypeOK, Storage, MoveToResident, MoveToParked, NotifyOne, Completed, Parkable
<1>2. IsFiniteSet(extents)'
    BY FS_AddElement, FS_Difference DEF Completed
<1>3. (RegistryExact /\ UnbornUnlisted /\ DyingGone)'
    BY DEF TypeOK, RegistryExact, UnbornUnlisted, DyingGone, MoveToResident, MoveToParked, Completed, Parkable, WriterHolds
<1>4. ReadersKeepBytes'
    BY DEF TypeOK, ReadersKeepBytes, Completed, Parkable
<1>5. (WriterHolds /\ WritersApart)'
    BY DEF TypeOK, WriterHolds, WritersApart, Completed, Parkable, Strong
<1>6. ExtentsMatchStorage'
    <2>1. \A s \in Sweeps : pc[s] \in {"write", "written"} => cur[s] # {i}
        BY DEF TypeOK, WriterHolds, Strong
    <2>2. /\ storage \in [Images -> Storage]
          /\ storage' = [storage EXCEPT ![i] = "gone"] /\ extents' = extents \ {i}
          /\ UNCHANGED <<pc, cur>>
        BY DEF TypeOK
    <2> QED BY <2>1, <2>2 DEF ExtentsMatchStorage
<1>7. WaitExplained'
    BY DEF TypeOK, WaitExplained, CanReserve, Sweeping, Completed, Parkable, DyingGone
<1>8. ScheduleKnown'
    <2>1. \A k \in Images : Strong(k)' <=> Strong(k)
        BY DEF Strong
    <2>2. \A k \in Images : HasDeadline(k)' => HasDeadline(k)
        BY DEF TypeOK, HasDeadline
    <2>3. Announced => Announced'
        BY DEF TypeOK, Announced, DyingGone
    <2> QED BY <2>1, <2>2, <2>3 DEF ScheduleKnown
<1> QED
    BY <1>1, <1>2, <1>3, <1>4, <1>5, <1>6, <1>7, <1>8

\* A dying image is still in an index, so its removal is announced.
LEMMA UnregisterKeeps ==
    ASSUME ParkInv, NEW i \in Images, Unregister(i)
    PROVE  ParkInv'
<1> USE DEF ParkInv, ImageInv, imageVars, poolVars, sweepVars, notifyVars, scanVars, Unregister, Sweeps, Writing
<1>1. TypeOK'
    BY DEF TypeOK, Storage, MoveToResident, MoveToParked, NotifyOne, Completed, Parkable
<1>2. IsFiniteSet(extents)'
    BY FS_AddElement, FS_Difference DEF Completed
<1>3. (RegistryExact /\ UnbornUnlisted /\ DyingGone)'
    BY DEF TypeOK, RegistryExact, UnbornUnlisted, DyingGone, MoveToResident, MoveToParked, Completed, Parkable, WriterHolds
<1>4. ReadersKeepBytes'
    BY DEF TypeOK, ReadersKeepBytes, Completed, Parkable
<1>5. (WriterHolds /\ WritersApart)'
    BY DEF TypeOK, WriterHolds, WritersApart, Completed, Parkable, Strong
<1>6. ExtentsMatchStorage'
    BY DEF TypeOK, WriterHolds, WritersApart, ExtentsMatchStorage, Completed, Parkable, Strong
<1>7. WaitExplained'
    BY DEF TypeOK, WaitExplained, CanReserve, Sweeping, Completed, Parkable, DyingGone
<1>8. ScheduleKnown'
    BY DEF TypeOK, ScheduleKnown, Announced, HasDeadline, Strong, NotifyOne, Completed, RegistryExact
<1> QED
    BY <1>1, <1>2, <1>3, <1>4, <1>5, <1>6, <1>7, <1>8

\* As for a client, clearing the flag leaves the wake announced.
LEMMA UnregisterClearKeeps ==
    ASSUME ParkInv, NEW i \in Images, UnregisterClear(i)
    PROVE  ParkInv'
<1> USE DEF ParkInv, ImageInv, imageVars, poolVars, sweepVars, notifyVars, scanVars, UnregisterClear, Sweeps, Writing
<1>1. TypeOK'
    BY DEF TypeOK, Storage, MoveToResident, MoveToParked, NotifyOne, Completed, Parkable
<1>2. IsFiniteSet(extents)'
    BY FS_AddElement, FS_Difference DEF Completed
<1>3. (RegistryExact /\ UnbornUnlisted /\ DyingGone)'
    BY DEF TypeOK, RegistryExact, UnbornUnlisted, DyingGone, MoveToResident, MoveToParked, Completed, Parkable, WriterHolds
<1>4. ReadersKeepBytes'
    BY DEF TypeOK, ReadersKeepBytes, Completed, Parkable
<1>5. (WriterHolds /\ WritersApart)'
    BY DEF TypeOK, WriterHolds, WritersApart, Completed, Parkable, Strong
<1>6. ExtentsMatchStorage'
    BY DEF TypeOK, WriterHolds, WritersApart, ExtentsMatchStorage, Completed, Parkable, Strong
<1>7. WaitExplained'
    BY DEF TypeOK, WaitExplained, CanReserve, Sweeping, Completed, Parkable, DyingGone
<1>8. ScheduleKnown'
    BY DEF TypeOK, ScheduleKnown, Announced, HasDeadline, Strong, NotifyOne, Completed, RegistryExact
<1> QED
    BY <1>1, <1>2, <1>3, <1>4, <1>5, <1>6, <1>7, <1>8

\* As for a client, the wake reaches the scheduler.
LEMMA UnregisterWakeKeeps ==
    ASSUME ParkInv, NEW i \in Images, UnregisterWake(i)
    PROVE  ParkInv'
<1> USE DEF ParkInv, ImageInv, imageVars, poolVars, sweepVars, notifyVars, scanVars, UnregisterWake, Sweeps, Writing
<1>1. TypeOK'
    BY DEF TypeOK, Storage, MoveToResident, MoveToParked, NotifyOne, Completed, Parkable
<1>2. IsFiniteSet(extents)'
    BY FS_AddElement, FS_Difference DEF Completed
<1>3. (RegistryExact /\ UnbornUnlisted /\ DyingGone)'
    BY DEF TypeOK, RegistryExact, UnbornUnlisted, DyingGone, MoveToResident, MoveToParked, Completed, Parkable, WriterHolds
<1>4. ReadersKeepBytes'
    BY DEF TypeOK, ReadersKeepBytes, Completed, Parkable
<1>5. (WriterHolds /\ WritersApart)'
    BY DEF TypeOK, WriterHolds, WritersApart, Completed, Parkable, Strong
<1>6. ExtentsMatchStorage'
    BY DEF TypeOK, WriterHolds, WritersApart, ExtentsMatchStorage, Completed, Parkable, Strong
<1>7. WaitExplained'
    BY DEF TypeOK, WaitExplained, CanReserve, Sweeping, Completed, Parkable, DyingGone
<1>8. ScheduleKnown'
    BY DEF TypeOK, ScheduleKnown, Announced, HasDeadline, Strong, NotifyOne, Completed, RegistryExact
<1> QED
    BY <1>1, <1>2, <1>3, <1>4, <1>5, <1>6, <1>7, <1>8

\* A deadline that passes is no new deadline.
LEMMA ElapseKeeps ==
    ASSUME ParkInv, NEW i \in Images, Elapse(i)
    PROVE  ParkInv'
<1> USE DEF ParkInv, ImageInv, imageVars, poolVars, sweepVars, notifyVars, scanVars, Elapse, Sweeps, Writing
<1>1. TypeOK'
    BY DEF TypeOK, Storage, MoveToResident, MoveToParked, NotifyOne, Completed, Parkable
<1>2. IsFiniteSet(extents)'
    BY FS_AddElement, FS_Difference DEF Completed
<1>3. (RegistryExact /\ UnbornUnlisted /\ DyingGone)'
    BY DEF TypeOK, RegistryExact, UnbornUnlisted, DyingGone, MoveToResident, MoveToParked, Completed, Parkable, WriterHolds
<1>4. ReadersKeepBytes'
    BY DEF TypeOK, ReadersKeepBytes, Completed, Parkable
<1>5. (WriterHolds /\ WritersApart)'
    BY DEF TypeOK, WriterHolds, WritersApart, Completed, Parkable, Strong
<1>6. ExtentsMatchStorage'
    BY DEF TypeOK, WriterHolds, WritersApart, ExtentsMatchStorage, Completed, Parkable, Strong
<1>7. WaitExplained'
    BY DEF TypeOK, WaitExplained, CanReserve, Sweeping, Completed, Parkable, DyingGone
<1>8. ScheduleKnown'
    BY DEF TypeOK, ScheduleKnown, Announced, HasDeadline, Strong, NotifyOne, Completed, RegistryExact
<1> QED
    BY <1>1, <1>2, <1>3, <1>4, <1>5, <1>6, <1>7, <1>8

\* The flag that a scheduled sweep sets is explained by the sweep.
LEMMA BeginScheduledKeeps ==
    ASSUME ParkInv, BeginScheduled
    PROVE  ParkInv'
<1> USE DEF ParkInv, ImageInv, imageVars, poolVars, sweepVars, notifyVars, scanVars, BeginScheduled, Sweeps, Writing
<1>1. TypeOK'
    BY DEF TypeOK, Storage, MoveToResident, MoveToParked, NotifyOne, Completed, Parkable
<1>2. IsFiniteSet(extents)'
    BY FS_AddElement, FS_Difference DEF Completed
<1>3. (RegistryExact /\ UnbornUnlisted /\ DyingGone)'
    BY DEF TypeOK, RegistryExact, UnbornUnlisted, DyingGone, MoveToResident, MoveToParked, Completed, Parkable, WriterHolds
<1>4. ReadersKeepBytes'
    BY DEF TypeOK, ReadersKeepBytes, Completed, Parkable
<1>5. (WriterHolds /\ WritersApart)'
    BY DEF TypeOK, WriterHolds, WritersApart, Completed, Parkable, Strong
<1>6. ExtentsMatchStorage'
    BY DEF TypeOK, WriterHolds, WritersApart, ExtentsMatchStorage, Completed, Parkable, Strong
<1>7. WaitExplained'
    BY DEF TypeOK, WaitExplained, CanReserve, Sweeping, Completed, Parkable, DyingGone
<1>8. ScheduleKnown'
    BY DEF TypeOK, ScheduleKnown, Announced, HasDeadline, Strong, NotifyOne, Completed, RegistryExact
<1> QED
    BY <1>1, <1>2, <1>3, <1>4, <1>5, <1>6, <1>7, <1>8

\* So is the flag of a forced one.
LEMMA BeginForcedKeeps ==
    ASSUME ParkInv, BeginForced
    PROVE  ParkInv'
<1> USE DEF ParkInv, ImageInv, imageVars, poolVars, sweepVars, notifyVars, scanVars, BeginForced, Sweeps, Writing
<1>1. TypeOK'
    BY DEF TypeOK, Storage, MoveToResident, MoveToParked, NotifyOne, Completed, Parkable
<1>2. IsFiniteSet(extents)'
    BY FS_AddElement, FS_Difference DEF Completed
<1>3. (RegistryExact /\ UnbornUnlisted /\ DyingGone)'
    BY DEF TypeOK, RegistryExact, UnbornUnlisted, DyingGone, MoveToResident, MoveToParked, Completed, Parkable, WriterHolds
<1>4. ReadersKeepBytes'
    BY DEF TypeOK, ReadersKeepBytes, Completed, Parkable
<1>5. (WriterHolds /\ WritersApart)'
    BY DEF TypeOK, WriterHolds, WritersApart, Completed, Parkable, Strong
<1>6. ExtentsMatchStorage'
    BY DEF TypeOK, WriterHolds, WritersApart, ExtentsMatchStorage, Completed, Parkable, Strong
<1>7. WaitExplained'
    BY DEF TypeOK, WaitExplained, CanReserve, Sweeping, Completed, Parkable, DyingGone
<1>8. ScheduleKnown'
    BY DEF TypeOK, ScheduleKnown, Announced, HasDeadline, Strong, NotifyOne, Completed, RegistryExact
<1> QED
    BY <1>1, <1>2, <1>3, <1>4, <1>5, <1>6, <1>7, <1>8

\* Listing takes references only to images somebody still holds.
LEMMA ListResidentKeeps ==
    ASSUME ParkInv, NEW s \in Sweeps, ListResident(s)
    PROVE  ParkInv'
<1> USE DEF ParkInv, ImageInv, imageVars, poolVars, sweepVars, notifyVars, scanVars, ListResident, Sweeps, Writing
<1>1. TypeOK'
    BY DEF TypeOK, Storage, MoveToResident, MoveToParked, NotifyOne, Completed, Parkable
<1>2. IsFiniteSet(extents)'
    BY FS_AddElement, FS_Difference DEF Completed
<1>3. (RegistryExact /\ UnbornUnlisted /\ DyingGone)'
    BY DEF TypeOK, RegistryExact, UnbornUnlisted, DyingGone, MoveToResident, MoveToParked, Completed, Parkable, WriterHolds
<1>4. ReadersKeepBytes'
    BY DEF TypeOK, ReadersKeepBytes, Completed, Parkable
<1>5. (WriterHolds /\ WritersApart)'
    BY DEF TypeOK, WriterHolds, WritersApart, Completed, Parkable, Strong
<1>6. ExtentsMatchStorage'
    BY DEF TypeOK, WriterHolds, WritersApart, ExtentsMatchStorage, Completed, Parkable, Strong
<1>7. WaitExplained'
    BY DEF TypeOK, WaitExplained, CanReserve, Sweeping, Completed, Parkable, DyingGone
<1>8. ScheduleKnown'
    BY DEF TypeOK, ScheduleKnown, Announced, HasDeadline, Strong, NotifyOne, Completed, RegistryExact
<1> QED
    BY <1>1, <1>2, <1>3, <1>4, <1>5, <1>6, <1>7, <1>8

\* Filtering drops references before any image is being written.
LEMMA FilterDueKeeps ==
    ASSUME ParkInv, NEW i \in Images, FilterDue(i)
    PROVE  ParkInv'
<1> USE DEF ParkInv, ImageInv, imageVars, poolVars, sweepVars, notifyVars, scanVars, FilterDue, Sweeps, Writing
<1>1. TypeOK'
    BY DEF TypeOK, Storage, MoveToResident, MoveToParked, NotifyOne, Completed, Parkable
<1>2. IsFiniteSet(extents)'
    BY FS_AddElement, FS_Difference DEF Completed
<1>3. (RegistryExact /\ UnbornUnlisted /\ DyingGone)'
    BY DEF TypeOK, RegistryExact, UnbornUnlisted, DyingGone, MoveToResident, MoveToParked, Completed, Parkable, WriterHolds
<1>4. ReadersKeepBytes'
    BY DEF TypeOK, ReadersKeepBytes, Completed, Parkable
<1>5. (WriterHolds /\ WritersApart)'
    BY DEF TypeOK, WriterHolds, WritersApart, Completed, Parkable, Strong
<1>6. ExtentsMatchStorage'
    BY DEF TypeOK, WriterHolds, WritersApart, ExtentsMatchStorage, Completed, Parkable, Strong
<1>7. WaitExplained'
    BY DEF TypeOK, WaitExplained, CanReserve, Sweeping, Completed, Parkable, DyingGone
<1>8. ScheduleKnown'
    BY DEF TypeOK, ScheduleKnown, Announced, HasDeadline, Strong, NotifyOne, Completed, RegistryExact
<1> QED
    BY <1>1, <1>2, <1>3, <1>4, <1>5, <1>6, <1>7, <1>8

\* The end of the filter only moves the sweep.
LEMMA FilterDoneKeeps ==
    ASSUME ParkInv, FilterDone
    PROVE  ParkInv'
<1> USE DEF ParkInv, ImageInv, imageVars, poolVars, sweepVars, notifyVars, scanVars, FilterDone, Sweeps, Writing
<1>1. TypeOK'
    BY DEF TypeOK, Storage, MoveToResident, MoveToParked, NotifyOne, Completed, Parkable
<1>2. IsFiniteSet(extents)'
    BY FS_AddElement, FS_Difference DEF Completed
<1>3. (RegistryExact /\ UnbornUnlisted /\ DyingGone)'
    BY DEF TypeOK, RegistryExact, UnbornUnlisted, DyingGone, MoveToResident, MoveToParked, Completed, Parkable, WriterHolds
<1>4. ReadersKeepBytes'
    BY DEF TypeOK, ReadersKeepBytes, Completed, Parkable
<1>5. (WriterHolds /\ WritersApart)'
    BY DEF TypeOK, WriterHolds, WritersApart, Completed, Parkable, Strong
<1>6. ExtentsMatchStorage'
    BY DEF TypeOK, WriterHolds, WritersApart, ExtentsMatchStorage, Completed, Parkable, Strong
<1>7. WaitExplained'
    BY DEF TypeOK, WaitExplained, CanReserve, Sweeping, Completed, Parkable, DyingGone
<1>8. ScheduleKnown'
    BY DEF TypeOK, ScheduleKnown, Announced, HasDeadline, Strong, NotifyOne, Completed, RegistryExact
<1> QED
    BY <1>1, <1>2, <1>3, <1>4, <1>5, <1>6, <1>7, <1>8

\* Preparing one image: the branch that parks a backed image needs it without
\* readers, a miss explains the flag, and the branch that starts a write finds
\* the image in Resident, so no other sweep is writing it.
LEMMA PrepareParkingKeeps ==
    ASSUME ParkInv, NEW s \in Sweeps, NEW i \in Images, PrepareParking(s, i)
    PROVE  ParkInv'
<1> USE DEF ParkInv, ImageInv, imageVars, poolVars, sweepVars, notifyVars, scanVars, PrepareParking, Sweeps, Writing
<1>1. TypeOK'
    <2>1. storage' \in [Images -> Storage]
        BY DEF TypeOK, Storage
    <2>2. /\ resident' \subseteq Images /\ parked' \subseteq Images /\ extents' \subseteq Images
          /\ refs' \in [Sweeps -> SUBSET Images] /\ cur' \in [Sweeps -> SUBSET Images]
        BY DEF TypeOK, MoveToParked
    <2>3. missed' \in [Sweeps -> BOOLEAN]
        BY DEF TypeOK
    <2>4. pc' \in [Sweeps -> {"idle", "list", "filter", "park", "write", "written", "failed", "finish"}]
        BY DEF TypeOK
    <2> QED BY <2>1, <2>2, <2>3, <2>4 DEF TypeOK
<1>2. IsFiniteSet(extents)'
    BY FS_AddElement, FS_Difference DEF Completed
<1>3. (RegistryExact /\ UnbornUnlisted /\ DyingGone)'
    BY DEF TypeOK, RegistryExact, UnbornUnlisted, DyingGone, MoveToResident, MoveToParked, Completed, Parkable, WriterHolds
<1>4. ReadersKeepBytes'
    BY DEF TypeOK, ReadersKeepBytes, Completed, Parkable
<1>5. (WriterHolds /\ WritersApart)'
    BY DEF TypeOK, WriterHolds, WritersApart, Completed, Parkable, Strong
<1>6. ExtentsMatchStorage'
    BY DEF TypeOK, WriterHolds, WritersApart, ExtentsMatchStorage, Completed, Parkable, Strong
<1>7. WaitExplained'
    BY DEF TypeOK, WaitExplained, CanReserve, Sweeping, Completed, Parkable, DyingGone
<1>8. ScheduleKnown'
    BY DEF TypeOK, ScheduleKnown, Announced, HasDeadline, Strong, NotifyOne, Completed, RegistryExact
<1> QED
    BY <1>1, <1>2, <1>3, <1>4, <1>5, <1>6, <1>7, <1>8

\* The write runs without the lock: it changes the pool alone, and a failure
\* closes the pool for good.
LEMMA WriteKeeps ==
    ASSUME ParkInv, NEW s \in Sweeps, Write(s)
    PROVE  ParkInv'
<1> USE DEF ParkInv, ImageInv, imageVars, poolVars, sweepVars, notifyVars, scanVars, Write, Sweeps, Writing
<1>0. /\ pc' = [pc EXCEPT ![s] = "written"] \/ pc' = [pc EXCEPT ![s] = "failed"]
      /\ extents' = extents \/ extents' = extents \ cur[s]
      /\ mayWrite' \in {mayWrite, FALSE}
    OBVIOUS
<1>1. TypeOK'
    <2>1. extents' \subseteq Images /\ mayWrite' \in BOOLEAN
        BY <1>0 DEF TypeOK
    <2>2. pc' \in [Sweeps -> {"idle", "list", "filter", "park", "write", "written", "failed", "finish"}]
        BY <1>0 DEF TypeOK
    <2> QED BY <2>1, <2>2 DEF TypeOK
<1>2. IsFiniteSet(extents)'
    <2>1. IsFiniteSet(extents)
        OBVIOUS
    <2>2. IsFiniteSet(extents \ cur[s])
        BY <2>1, FS_Difference
    <2> QED BY <1>0, <2>1, <2>2
<1>3. (RegistryExact /\ UnbornUnlisted /\ DyingGone)'
    BY DEF TypeOK, RegistryExact, UnbornUnlisted, DyingGone, MoveToResident, MoveToParked, Completed, Parkable, WriterHolds
<1>4. ReadersKeepBytes'
    BY DEF TypeOK, ReadersKeepBytes, Completed, Parkable
<1>5. (WriterHolds /\ WritersApart)'
    BY DEF TypeOK, WriterHolds, WritersApart, Completed, Parkable, Strong
<1>6. ExtentsMatchStorage'
    BY DEF TypeOK, WriterHolds, WritersApart, ExtentsMatchStorage, Completed, Parkable, Strong
<1>7. WaitExplained'
    BY DEF TypeOK, WaitExplained, CanReserve, Sweeping, Completed, Parkable, DyingGone
<1>8. ScheduleKnown'
    BY DEF TypeOK, ScheduleKnown, Announced, HasDeadline, Strong, NotifyOne, Completed, RegistryExact
<1> QED
    BY <1>1, <1>2, <1>3, <1>4, <1>5, <1>6, <1>7, <1>8

\* The completion decides by the readers it then finds.
LEMMA CompleteParkingWriteKeeps ==
    ASSUME ParkInv, NEW s \in Sweeps, NEW i \in Images, CompleteParkingWrite(s, i)
    PROVE  ParkInv'
<1> USE DEF ParkInv, ImageInv, imageVars, poolVars, sweepVars, notifyVars, scanVars, CompleteParkingWrite, Sweeps, Writing
<1>1. TypeOK'
    BY DEF TypeOK, Storage, MoveToResident, MoveToParked, NotifyOne, Completed, Parkable
<1>2. IsFiniteSet(extents)'
    BY FS_AddElement, FS_Difference DEF Completed
<1>3. (RegistryExact /\ UnbornUnlisted /\ DyingGone)'
    BY DEF TypeOK, RegistryExact, UnbornUnlisted, DyingGone, MoveToResident, MoveToParked, Completed, Parkable, WriterHolds
<1>4. ReadersKeepBytes'
    BY DEF TypeOK, ReadersKeepBytes, Completed, Parkable
<1>5. (WriterHolds /\ WritersApart)'
    BY DEF TypeOK, WriterHolds, WritersApart, Completed, Parkable, Strong
<1>6. ExtentsMatchStorage'
    BY DEF TypeOK, WriterHolds, WritersApart, ExtentsMatchStorage, Completed, Parkable, Strong
<1>7. WaitExplained'
    BY DEF TypeOK, WaitExplained, CanReserve, Sweeping, Completed, Parkable, DyingGone
<1>8. ScheduleKnown'
    BY DEF TypeOK, ScheduleKnown, Announced, HasDeadline, Strong, NotifyOne, Completed, RegistryExact
<1> QED
    BY <1>1, <1>2, <1>3, <1>4, <1>5, <1>6, <1>7, <1>8

\* A sweep that missed nothing clears the flag; one that missed leaves it to
\* whatever explains it besides.
LEMMA FinishSweepKeeps ==
    ASSUME ParkInv, NEW s \in Sweeps, FinishSweep(s)
    PROVE  ParkInv'
<1> USE DEF ParkInv, ImageInv, imageVars, poolVars, sweepVars, notifyVars, scanVars, FinishSweep, Sweeps, Writing
<1>1. TypeOK'
    BY DEF TypeOK, Storage, MoveToResident, MoveToParked, NotifyOne, Completed, Parkable
<1>2. IsFiniteSet(extents)'
    BY FS_AddElement, FS_Difference DEF Completed
<1>3. (RegistryExact /\ UnbornUnlisted /\ DyingGone)'
    BY DEF TypeOK, RegistryExact, UnbornUnlisted, DyingGone, MoveToResident, MoveToParked, Completed, Parkable, WriterHolds
<1>4. ReadersKeepBytes'
    BY DEF TypeOK, ReadersKeepBytes, Completed, Parkable
<1>5. (WriterHolds /\ WritersApart)'
    BY DEF TypeOK, WriterHolds, WritersApart, Completed, Parkable, Strong
<1>6. ExtentsMatchStorage'
    BY DEF TypeOK, WriterHolds, WritersApart, ExtentsMatchStorage, Completed, Parkable, Strong
<1>7. WaitExplained'
    BY DEF TypeOK, WaitExplained, CanReserve, Sweeping, Completed, Parkable, DyingGone
<1>8. ScheduleKnown'
    BY DEF TypeOK, ScheduleKnown, Announced, HasDeadline, Strong, NotifyOne, Completed, RegistryExact
<1> QED
    BY <1>1, <1>2, <1>3, <1>4, <1>5, <1>6, <1>7, <1>8

\* The end of a sweep reaches the scheduler.
LEMMA FinishWakeKeeps ==
    ASSUME ParkInv, NEW s \in Sweeps, FinishWake(s)
    PROVE  ParkInv'
<1> USE DEF ParkInv, ImageInv, imageVars, poolVars, sweepVars, notifyVars, scanVars, FinishWake, Sweeps, Writing
<1>1. TypeOK'
    BY DEF TypeOK, Storage, MoveToResident, MoveToParked, NotifyOne, Completed, Parkable
<1>2. IsFiniteSet(extents)'
    BY FS_AddElement, FS_Difference DEF Completed
<1>3. (RegistryExact /\ UnbornUnlisted /\ DyingGone)'
    BY DEF TypeOK, RegistryExact, UnbornUnlisted, DyingGone, MoveToResident, MoveToParked, Completed, Parkable, WriterHolds
<1>4. ReadersKeepBytes'
    BY DEF TypeOK, ReadersKeepBytes, Completed, Parkable
<1>5. (WriterHolds /\ WritersApart)'
    BY DEF TypeOK, WriterHolds, WritersApart, Completed, Parkable, Strong
<1>6. ExtentsMatchStorage'
    BY DEF TypeOK, WriterHolds, WritersApart, ExtentsMatchStorage, Completed, Parkable, Strong
<1>7. WaitExplained'
    BY DEF TypeOK, WaitExplained, CanReserve, Sweeping, Completed, Parkable, DyingGone
<1>8. ScheduleKnown'
    BY DEF TypeOK, ScheduleKnown, Announced, HasDeadline, Strong, NotifyOne, Completed, RegistryExact
<1> QED
    BY <1>1, <1>2, <1>3, <1>4, <1>5, <1>6, <1>7, <1>8

\* An armed scheduler has yet to check.
LEMMA ArmNotifiedKeeps ==
    ASSUME ParkInv, ArmNotified
    PROVE  ParkInv'
<1> USE DEF ParkInv, ImageInv, imageVars, poolVars, sweepVars, notifyVars, scanVars, ArmNotified, Sweeps, Writing
<1>1. TypeOK'
    BY DEF TypeOK, Storage, MoveToResident, MoveToParked, NotifyOne, Completed, Parkable
<1>2. IsFiniteSet(extents)'
    BY FS_AddElement, FS_Difference DEF Completed
<1>3. (RegistryExact /\ UnbornUnlisted /\ DyingGone)'
    BY DEF TypeOK, RegistryExact, UnbornUnlisted, DyingGone, MoveToResident, MoveToParked, Completed, Parkable, WriterHolds
<1>4. ReadersKeepBytes'
    BY DEF TypeOK, ReadersKeepBytes, Completed, Parkable
<1>5. (WriterHolds /\ WritersApart)'
    BY DEF TypeOK, WriterHolds, WritersApart, Completed, Parkable, Strong
<1>6. ExtentsMatchStorage'
    BY DEF TypeOK, WriterHolds, WritersApart, ExtentsMatchStorage, Completed, Parkable, Strong
<1>7. WaitExplained'
    BY DEF TypeOK, WaitExplained, CanReserve, Sweeping, Completed, Parkable, DyingGone
<1>8. ScheduleKnown'
    BY DEF TypeOK, ScheduleKnown, Announced, HasDeadline, Strong, NotifyOne, Completed, RegistryExact
<1> QED
    BY <1>1, <1>2, <1>3, <1>4, <1>5, <1>6, <1>7, <1>8

\* A scheduler that waits has seen the flag.
LEMMA CheckWaitingKeeps ==
    ASSUME ParkInv, CheckWaiting
    PROVE  ParkInv'
<1> USE DEF ParkInv, ImageInv, imageVars, poolVars, sweepVars, notifyVars, scanVars, CheckWaiting, Sweeps, Writing
<1>1. TypeOK'
    BY DEF TypeOK, Storage, MoveToResident, MoveToParked, NotifyOne, Completed, Parkable
<1>2. IsFiniteSet(extents)'
    BY FS_AddElement, FS_Difference DEF Completed
<1>3. (RegistryExact /\ UnbornUnlisted /\ DyingGone)'
    BY DEF TypeOK, RegistryExact, UnbornUnlisted, DyingGone, MoveToResident, MoveToParked, Completed, Parkable, WriterHolds
<1>4. ReadersKeepBytes'
    BY DEF TypeOK, ReadersKeepBytes, Completed, Parkable
<1>5. (WriterHolds /\ WritersApart)'
    BY DEF TypeOK, WriterHolds, WritersApart, Completed, Parkable, Strong
<1>6. ExtentsMatchStorage'
    BY DEF TypeOK, WriterHolds, WritersApart, ExtentsMatchStorage, Completed, Parkable, Strong
<1>7. WaitExplained'
    BY DEF TypeOK, WaitExplained, CanReserve, Sweeping, Completed, Parkable, DyingGone
<1>8. ScheduleKnown'
    BY DEF TypeOK, ScheduleKnown, Announced, HasDeadline, Strong, NotifyOne, Completed, RegistryExact
<1> QED
    BY <1>1, <1>2, <1>3, <1>4, <1>5, <1>6, <1>7, <1>8

\* Every image with a deadline that somebody holds is resident, so it is scanned.
LEMMA ListResidentsKeeps ==
    ASSUME ParkInv, ListResidents
    PROVE  ParkInv'
<1> USE DEF ParkInv, ImageInv, imageVars, poolVars, sweepVars, notifyVars, scanVars, ListResidents, Sweeps, Writing
<1>1. TypeOK'
    BY DEF TypeOK, Storage, MoveToResident, MoveToParked, NotifyOne, Completed, Parkable
<1>2. IsFiniteSet(extents)'
    BY FS_AddElement, FS_Difference DEF Completed
<1>3. (RegistryExact /\ UnbornUnlisted /\ DyingGone)'
    BY DEF TypeOK, RegistryExact, UnbornUnlisted, DyingGone, MoveToResident, MoveToParked, Completed, Parkable, WriterHolds
<1>4. ReadersKeepBytes'
    BY DEF TypeOK, ReadersKeepBytes, Completed, Parkable
<1>5. (WriterHolds /\ WritersApart)'
    BY DEF TypeOK, WriterHolds, WritersApart, Completed, Parkable, Strong
<1>6. ExtentsMatchStorage'
    BY DEF TypeOK, WriterHolds, WritersApart, ExtentsMatchStorage, Completed, Parkable, Strong
<1>7. WaitExplained'
    BY DEF TypeOK, WaitExplained, CanReserve, Sweeping, Completed, Parkable, DyingGone
<1>8. ScheduleKnown'
    BY DEF TypeOK, ScheduleKnown, Announced, HasDeadline, Strong, NotifyOne, Completed, RegistryExact
<1> QED
    BY <1>1, <1>2, <1>3, <1>4, <1>5, <1>6, <1>7, <1>8

\* A deadline that is scanned is found.
LEMMA ScanDeadlineKeeps ==
    ASSUME ParkInv, NEW i \in Images, ScanDeadline(i)
    PROVE  ParkInv'
<1> USE DEF ParkInv, ImageInv, imageVars, poolVars, sweepVars, notifyVars, scanVars, ScanDeadline, Sweeps, Writing
<1>1. TypeOK'
    BY DEF TypeOK, Storage, MoveToResident, MoveToParked, NotifyOne, Completed, Parkable
<1>2. IsFiniteSet(extents)'
    BY FS_AddElement, FS_Difference DEF Completed
<1>3. (RegistryExact /\ UnbornUnlisted /\ DyingGone)'
    BY DEF TypeOK, RegistryExact, UnbornUnlisted, DyingGone, MoveToResident, MoveToParked, Completed, Parkable, WriterHolds
<1>4. ReadersKeepBytes'
    BY DEF TypeOK, ReadersKeepBytes, Completed, Parkable
<1>5. (WriterHolds /\ WritersApart)'
    BY DEF TypeOK, WriterHolds, WritersApart, Completed, Parkable, Strong
<1>6. ExtentsMatchStorage'
    BY DEF TypeOK, WriterHolds, WritersApart, ExtentsMatchStorage, Completed, Parkable, Strong
<1>7. WaitExplained'
    BY DEF TypeOK, WaitExplained, CanReserve, Sweeping, Completed, Parkable, DyingGone
<1>8. ScheduleKnown'
    BY DEF TypeOK, ScheduleKnown, Announced, HasDeadline, Strong, NotifyOne, Completed, RegistryExact
<1> QED
    BY <1>1, <1>2, <1>3, <1>4, <1>5, <1>6, <1>7, <1>8

\* The scheduler waits only when the scan has found nothing.
LEMMA ScanDoneKeeps ==
    ASSUME ParkInv, ScanDone
    PROVE  ParkInv'
<1> USE DEF ParkInv, ImageInv, imageVars, poolVars, sweepVars, notifyVars, scanVars, ScanDone, Sweeps, Writing
<1>1. TypeOK'
    BY DEF TypeOK, Storage, MoveToResident, MoveToParked, NotifyOne, Completed, Parkable
<1>2. IsFiniteSet(extents)'
    BY FS_AddElement, FS_Difference DEF Completed
<1>3. (RegistryExact /\ UnbornUnlisted /\ DyingGone)'
    BY DEF TypeOK, RegistryExact, UnbornUnlisted, DyingGone, MoveToResident, MoveToParked, Completed, Parkable, WriterHolds
<1>4. ReadersKeepBytes'
    BY DEF TypeOK, ReadersKeepBytes, Completed, Parkable
<1>5. (WriterHolds /\ WritersApart)'
    BY DEF TypeOK, WriterHolds, WritersApart, Completed, Parkable, Strong
<1>6. ExtentsMatchStorage'
    BY DEF TypeOK, WriterHolds, WritersApart, ExtentsMatchStorage, Completed, Parkable, Strong
<1>7. WaitExplained'
    BY DEF TypeOK, WaitExplained, CanReserve, Sweeping, Completed, Parkable, DyingGone
<1>8. ScheduleKnown'
    BY DEF TypeOK, ScheduleKnown, Announced, HasDeadline, Strong, NotifyOne, Completed, RegistryExact
<1> QED
    BY <1>1, <1>2, <1>3, <1>4, <1>5, <1>6, <1>7, <1>8

\* A notified scheduler is no longer armed.
LEMMA NotifiedKeeps ==
    ASSUME ParkInv, Notified
    PROVE  ParkInv'
<1> USE DEF ParkInv, ImageInv, imageVars, poolVars, sweepVars, notifyVars, scanVars, Notified, Sweeps, Writing
<1>1. TypeOK'
    BY DEF TypeOK, Storage, MoveToResident, MoveToParked, NotifyOne, Completed, Parkable
<1>2. IsFiniteSet(extents)'
    BY FS_AddElement, FS_Difference DEF Completed
<1>3. (RegistryExact /\ UnbornUnlisted /\ DyingGone)'
    BY DEF TypeOK, RegistryExact, UnbornUnlisted, DyingGone, MoveToResident, MoveToParked, Completed, Parkable, WriterHolds
<1>4. ReadersKeepBytes'
    BY DEF TypeOK, ReadersKeepBytes, Completed, Parkable
<1>5. (WriterHolds /\ WritersApart)'
    BY DEF TypeOK, WriterHolds, WritersApart, Completed, Parkable, Strong
<1>6. ExtentsMatchStorage'
    BY DEF TypeOK, WriterHolds, WritersApart, ExtentsMatchStorage, Completed, Parkable, Strong
<1>7. WaitExplained'
    BY DEF TypeOK, WaitExplained, CanReserve, Sweeping, Completed, Parkable, DyingGone
<1>8. ScheduleKnown'
    BY DEF TypeOK, ScheduleKnown, Announced, HasDeadline, Strong, NotifyOne, Completed, RegistryExact
<1> QED
    BY <1>1, <1>2, <1>3, <1>4, <1>5, <1>6, <1>7, <1>8

\* A scheduler that sleeps makes no claim.
LEMMA SleepElapsedKeeps ==
    ASSUME ParkInv, SleepElapsed
    PROVE  ParkInv'
<1> USE DEF ParkInv, ImageInv, imageVars, poolVars, sweepVars, notifyVars, scanVars, SleepElapsed, Sweeps, Writing
<1>1. TypeOK'
    BY DEF TypeOK, Storage, MoveToResident, MoveToParked, NotifyOne, Completed, Parkable
<1>2. IsFiniteSet(extents)'
    BY FS_AddElement, FS_Difference DEF Completed
<1>3. (RegistryExact /\ UnbornUnlisted /\ DyingGone)'
    BY DEF TypeOK, RegistryExact, UnbornUnlisted, DyingGone, MoveToResident, MoveToParked, Completed, Parkable, WriterHolds
<1>4. ReadersKeepBytes'
    BY DEF TypeOK, ReadersKeepBytes, Completed, Parkable
<1>5. (WriterHolds /\ WritersApart)'
    BY DEF TypeOK, WriterHolds, WritersApart, Completed, Parkable, Strong
<1>6. ExtentsMatchStorage'
    BY DEF TypeOK, WriterHolds, WritersApart, ExtentsMatchStorage, Completed, Parkable, Strong
<1>7. WaitExplained'
    BY DEF TypeOK, WaitExplained, CanReserve, Sweeping, Completed, Parkable, DyingGone
<1>8. ScheduleKnown'
    BY DEF TypeOK, ScheduleKnown, Announced, HasDeadline, Strong, NotifyOne, Completed, RegistryExact
<1> QED
    BY <1>1, <1>2, <1>3, <1>4, <1>5, <1>6, <1>7, <1>8

\* Every step of clients, images, sweeps and scheduler keeps the invariant.
LEMMA ParkStep == ParkInv /\ [Next]_vars => ParkInv'
<1> SUFFICES ASSUME ParkInv, [Next]_vars PROVE ParkInv'
    OBVIOUS
<1>1. CASE Client
    BY <1>1, FromFrozenBytesKeeps, SnapshotKeeps, CloneSnapshotKeeps, ReleaseSnapshotKeeps, NotifyClearKeeps,
       NotifyWakeKeeps DEF Client
<1>2. CASE Image
    BY <1>2, DropHandleKeeps, DropStorageKeeps, UnregisterKeeps, UnregisterClearKeeps, UnregisterWakeKeeps,
       ElapseKeeps DEF Image
<1>3. ASSUME NEW s \in Sweeps, SweepStep(s) PROVE ParkInv'
    BY <1>3, ListResidentKeeps, WriteKeeps, FinishSweepKeeps, FinishWakeKeeps, PrepareParkingKeeps,
       CompleteParkingWriteKeeps DEF SweepStep
<1>4. CASE BeginForced \/ SleepElapsed
    BY <1>4, BeginForcedKeeps, SleepElapsedKeeps
<1>5. CASE ScheduledSweep
    BY <1>3, <1>5, BeginScheduledKeeps, FilterDoneKeeps, FilterDueKeeps DEF ScheduledSweep, Sweeps
<1>6. CASE Scheduler
    BY <1>6, ArmNotifiedKeeps, CheckWaitingKeeps, ListResidentsKeeps, ScanDoneKeeps, NotifiedKeeps, ScanDeadlineKeeps DEF Scheduler
<1>7. CASE UNCHANGED vars
    <2> USE <1>7 DEF vars, imageVars, poolVars, sweepVars, notifyVars, scanVars, ParkInv, ImageInv
    <2>1. ImageInv'
        BY DEF TypeOK, RegistryExact, UnbornUnlisted, DyingGone, ReadersKeepBytes, WriterHolds, WritersApart,
           ExtentsMatchStorage, Writing
    <2>2. (WaitExplained /\ ScheduleKnown)'
        BY DEF WaitExplained, ScheduleKnown, CanReserve, Sweeping, Announced, HasDeadline, Strong
    <2> QED BY <2>1, <2>2
<1> QED
    BY <1>1, <1>2, <1>3, <1>4, <1>5, <1>6, <1>7 DEF Next, Sweeps

\* The invariant holds in every reachable state.
THEOREM ParkInvariant == Spec => []ParkInv
BY ParkInit, ParkStep, PTL DEF Spec

\* The registry's index, the write under way and the extent of an image all
\* follow from its storage, at every step of two overlapping sweeps: the debug
\* assertions of ParkableImageRegistry and the completion's "parking write
\* completed after its state was replaced" hold in every interleaving.
THEOREM ParkingExactHolds == Spec => []ParkingExact
<1>1. ParkInv => ParkingExact
    BY DEF ParkInv, ImageInv, ParkingExact, OneWriterPerImage, WriterHolds, WritersApart
<1> QED
    BY <1>1, ParkInvariant, PTL

\* A snapshot, also one taken during the parking write, keeps the bytes of its
\* image in memory (image.rs: prepare_parking, complete_parking_write).
THEOREM ReadersKeepBytesHolds == Spec => []ReadersKeepBytes
<1>1. ParkInv => ReadersKeepBytes
    BY DEF ParkInv, ImageInv
<1> QED
    BY <1>1, ParkInvariant, PTL

\* waiting_for_change outlives no capacity miss (manager.rs: finish_sweep,
\* notify_schedule_changed): at rest it is set only while nothing can be
\* reserved.
THEOREM WaitIsJustifiedHolds == Spec => []WaitIsJustified
<1>1. ParkInv => WaitIsJustified
    BY DEF ParkInv, WaitExplained, WaitIsJustified, Quiet, Sweeping
<1> QED
    BY <1>1, ParkInvariant, PTL

\* The scheduler task never waits for a notification while an image is
\* schedulable and none is due (next_parking_deadline against the armed
\* tokio Notify).
THEOREM NoLostScheduleHolds == Spec => []NoLostSchedule
<1>1. ParkInv => NoLostSchedule
    <2> SUFFICES ASSUME ParkInv, Quiet, sched = "wait", armed = "waiting", ~waiting, NEW i \in Images
                 PROVE  ~HasDeadline(i)
        BY DEF NoLostSchedule
    <2>1. ~Announced
        BY DEF Quiet, Announced
    <2>2. HasDeadline(i) => Strong(i)
        BY DEF Quiet, HasDeadline
    <2> QED
        BY <2>1, <2>2 DEF ParkInv, ScheduleKnown
<1> QED
    BY <1>1, ParkInvariant, PTL
==============================================================================
