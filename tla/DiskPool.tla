------------------------------ MODULE DiskPool ------------------------------
(***************************************************************************)
(* moli-disk-pool: one anonymous temporary file shared by parkable images  *)
(* and response bodies, cut into immutable extents.  Reservations and      *)
(* stored data are handles that return their extent when dropped.          *)
(*                                                                         *)
(* Reserve and release run under the allocation mutex and are single       *)
(* steps.  The bytes of a write are not: PoolFile::write_all_at runs       *)
(* without the mutex, byte after byte, while other handles reserve, write  *)
(* and release.  Only the allocator keeps their writes apart.              *)
(***************************************************************************)
EXTENDS Naturals, FiniteSets

CONSTANTS
    Handles,        \* the ReservedChunk / DiskData values ever created
    MaxCapacity,    \* DiskPoolInner::max_capacity, which also bounds the file
    Sizes,          \* the payload lengths callers ask for (0 is refused)
    NoOne           \* content of a byte never written

ASSUME DiskPoolAssumption ==
    /\ MaxCapacity \in Nat
    /\ Sizes \subseteq Nat
    /\ NoOne \notin Handles

VARIABLES
    mayWrite,       \* AllocationState::may_write
    fileTail,       \* AllocationState::file_tail
    byOffset,       \* AllocationState::free_chunks_by_offset, as extents
    bySize,         \* AllocationState::free_chunks_by_size, <<len, offset>>
    freeBytes,      \* AllocationState::free_bytes
    phase,          \* life of each handle
    extent,         \* the extent a live handle owns
    progress,       \* bytes of the payload already in the file
    disk            \* last writer of every byte of the file

allocation == <<mayWrite, fileTail, byOffset, bySize, freeBytes>>
vars == <<mayWrite, fileTail, byOffset, bySize, freeBytes, phase, extent,
          progress, disk>>

Extent == [off : Nat, len : Nat]
NoExtent == [off |-> 0, len |-> 0]

End(e) == e.off + e.len
Live == {"reserved", "writing", "stored"}
Held == {h \in Handles : phase[h] \in Live}

Init ==
    /\ mayWrite = TRUE
    /\ fileTail = 0
    /\ byOffset = {}
    /\ bySize = {}
    /\ freeBytes = 0
    /\ phase = [h \in Handles |-> "new"]
    /\ extent = [h \in Handles |-> NoExtent]
    /\ progress = [h \in Handles |-> 0]
    /\ disk = [b \in 0..(MaxCapacity - 1) |-> NoOne]

-----------------------------------------------------------------------------
(* The allocator                                                           *)

\* Fault: only an exact fit is ever reused.
CandidatesExactOnly(size) == {c \in bySize : c[1] = size}

\* The size-index entries find_free_chunk takes for a request: those of
\* exactly that size, or else, when larger, those of the largest size.
Candidates(size) ==
    LET exact == {c \in bySize : c[1] = size}
    IN  IF exact # {} THEN exact
        ELSE {c \in bySize : c[1] > size /\ \A d \in bySize : d[1] <= c[1]}

\* The candidate of lowest offset.
IsFit(c, size) ==
    c \in Candidates(size) /\ \A d \in Candidates(size) : c[2] <= d[2]

\* Fault: the rest of a split chunk starts one byte early.
TakeFreeOverlapping(h, c, size) ==
    LET rest == IF c[1] > size
                THEN {[off |-> c[2] + size - 1, len |-> c[1] - size]} ELSE {}
    IN  /\ byOffset' = (byOffset \ {[off |-> c[2], len |-> c[1]]}) \cup rest
        /\ bySize' = (bySize \ {c}) \cup {<<r.len, r.off>> : r \in rest}
        /\ freeBytes' = freeBytes - size
        /\ extent' = [extent EXCEPT ![h] = [off |-> c[2], len |-> size]]
        /\ UNCHANGED fileTail

\* find_free_chunk on entry c: unlink it from both indexes and link the rest.
TakeFree(h, c, size) ==
    LET rest == IF c[1] > size
                THEN {[off |-> c[2] + size, len |-> c[1] - size]} ELSE {}
    IN  /\ byOffset' = (byOffset \ {[off |-> c[2], len |-> c[1]]}) \cup rest
        /\ bySize' = (bySize \ {c}) \cup {<<r.len, r.off>> : r \in rest}
        /\ freeBytes' = freeBytes - size
        /\ extent' = [extent EXCEPT ![h] = [off |-> c[2], len |-> size]]
        /\ UNCHANGED fileTail

\* No free chunk fits: grow the file, up to the capacity.
TakeTail(h, size) ==
    /\ fileTail + size <= MaxCapacity
    /\ fileTail' = fileTail + size
    /\ extent' = [extent EXCEPT ![h] = [off |-> fileTail, len |-> size]]
    /\ UNCHANGED <<byOffset, bySize, freeBytes>>

\* try_reserve_chunk.  A refusal changes nothing.
TryReserveChunk(h, size) ==
    /\ phase[h] = "new"
    /\ size # 0
    /\ mayWrite
    /\ \/ \E c \in bySize : IsFit(c, size) /\ TakeFree(h, c, size)
       \/ Candidates(size) = {} /\ TakeTail(h, size)
    /\ phase' = [phase EXCEPT ![h] = "reserved"]
    /\ UNCHANGED <<mayWrite, progress, disk>>

\* release_chunk: the left neighbour is the free extent of greatest offset
\* below e, the right one that of least offset at or above it.
LeftOf(e) ==
    {f \in byOffset : /\ f.off < e.off
                      /\ \A g \in byOffset : g.off < e.off => g.off <= f.off}
RightOf(e) ==
    {f \in byOffset : /\ f.off >= e.off
                      /\ \A g \in byOffset : g.off >= e.off => f.off <= g.off}

\* Fault: only the left neighbour is merged.
ReleaseChunkLeftOnly(e) ==
    LET left == {f \in LeftOf(e) : End(f) = e.off}
        low == IF left = {} THEN e.off ELSE (CHOOSE f \in left : TRUE).off
        merged == [off |-> low, len |-> End(e) - low]
    IN  /\ byOffset' = (byOffset \ left) \cup {merged}
        /\ bySize' = (bySize \ {<<f.len, f.off>> : f \in left})
                        \cup {<<merged.len, merged.off>>}
        /\ freeBytes' = freeBytes + e.len
        /\ UNCHANGED fileTail

\* Merge e with a neighbour that touches it, then link the result.
ReleaseChunk(e) ==
    LET left == {f \in LeftOf(e) : End(f) = e.off}
        right == {f \in RightOf(e) : End(e) = f.off}
        gone == left \cup right
        low == IF left = {} THEN e.off ELSE (CHOOSE f \in left : TRUE).off
        high == IF right = {} THEN End(e) ELSE End(CHOOSE f \in right : TRUE)
        merged == [off |-> low, len |-> high - low]
    IN  /\ byOffset' = (byOffset \ gone) \cup {merged}
        /\ bySize' = (bySize \ {<<f.len, f.off>> : f \in gone})
                        \cup {<<merged.len, merged.off>>}
        /\ freeBytes' = freeBytes + e.len
        /\ UNCHANGED fileTail

-----------------------------------------------------------------------------
(* Handles                                                                 *)

\* Drop for ReservedChunk, which is also how `write` gives up on data of the
\* wrong length or a chunk of another pool.
DropReservation(h) ==
    /\ phase[h] = "reserved"
    /\ ReleaseChunk(extent[h])
    /\ phase' = [phase EXCEPT ![h] = "dead"]
    /\ UNCHANGED <<mayWrite, extent, progress, disk>>

\* Fault: `write` borrows the extent, so the consumed chunk's drop returns it
\* to the allocator while the bytes go out.
BeginWriteBorrowed(h) ==
    /\ phase[h] = "reserved"
    /\ ReleaseChunk(extent[h])
    /\ phase' = [phase EXCEPT ![h] = "writing"]
    /\ UNCHANGED <<mayWrite, extent, progress, disk>>

\* write: the chunk gives up its extent and the bytes start to go out.
BeginWrite(h) ==
    /\ phase[h] = "reserved"
    /\ phase' = [phase EXCEPT ![h] = "writing"]
    /\ UNCHANGED <<allocation, extent, progress, disk>>

\* One byte of PoolFile::write_all_at, without the mutex.
WriteByte(h) ==
    /\ phase[h] = "writing" /\ progress[h] < extent[h].len
    /\ disk' = [disk EXCEPT ![extent[h].off + progress[h]] = h]
    /\ progress' = [progress EXCEPT ![h] = @ + 1]
    /\ UNCHANGED <<allocation, phase, extent>>

\* write_all_at succeeds and the handle becomes DiskData.
FinishWrite(h) ==
    /\ phase[h] = "writing" /\ progress[h] = extent[h].len
    /\ phase' = [phase EXCEPT ![h] = "stored"]
    /\ UNCHANGED <<allocation, extent, progress, disk>>

\* Fault: a failed write disables the pool and forgets the extent.
FailWriteLeaks(h) ==
    /\ phase[h] = "writing" /\ progress[h] < extent[h].len
    /\ mayWrite' = FALSE
    /\ phase' = [phase EXCEPT ![h] = "dead"]
    /\ UNCHANGED <<fileTail, byOffset, bySize, freeBytes, extent, progress, disk>>

\* write_all_at fails part way: the extent returns and the pool refuses
\* every later reservation.
FailWrite(h) ==
    /\ phase[h] = "writing" /\ progress[h] < extent[h].len
    /\ ReleaseChunk(extent[h])
    /\ mayWrite' = FALSE
    /\ phase' = [phase EXCEPT ![h] = "dead"]
    /\ UNCHANGED <<extent, progress, disk>>

\* Drop for DiskData.
DropData(h) ==
    /\ phase[h] = "stored"
    /\ ReleaseChunk(extent[h])
    /\ phase' = [phase EXCEPT ![h] = "dead"]
    /\ UNCHANGED <<mayWrite, extent, progress, disk>>

Next ==
    \E h \in Handles :
        \/ \E size \in Sizes : TryReserveChunk(h, size)
        \/ DropReservation(h)
        \/ BeginWrite(h)
        \/ WriteByte(h)
        \/ FinishWrite(h)
        \/ FailWrite(h)
        \/ DropData(h)

Spec == Init /\ [][Next]_vars

-----------------------------------------------------------------------------
(* Properties                                                              *)

\* Every variable has its type.
TypeOK ==
    /\ mayWrite \in BOOLEAN
    /\ fileTail \in Nat
    /\ byOffset \subseteq Extent
    /\ bySize \subseteq Nat \X Nat
    /\ freeBytes \in Nat
    /\ phase \in [Handles -> {"new", "dead"} \cup Live]
    /\ extent \in [Handles -> Extent]
    /\ progress \in [Handles -> Nat]
    /\ disk \in [0..(MaxCapacity - 1) -> Handles \cup {NoOne}]

Disjoint(e, f) == End(e) <= f.off \/ End(f) <= e.off

\* No two live handles own a common byte, and no byte of a live handle is on
\* the free list: a concurrent write can never land in another handle's data.
ExtentsDisjoint ==
    /\ \A g, h \in Held : g # h => Disjoint(extent[g], extent[h])
    /\ \A h \in Held, f \in byOffset : Disjoint(extent[h], f)

\* A stored handle reads back what it wrote, whatever was reserved, written,
\* failed or released around it.
DataIntact ==
    \A h \in Handles : phase[h] \in {"writing", "stored"} =>
        \A i \in 0..(progress[h] - 1) : disk[extent[h].off + i] = h

\* The two indexes describe the same free extents (the debug assertions of
\* insert_free_chunk and remove_free_chunk): release searches one of them,
\* reserve the other.
IndexesAgree == bySize = {<<e.len, e.off>> : e \in byOffset}

\* free_bytes, which is only ever adjusted by a difference, is the number of
\* bytes the free extents cover (the sum of their lengths, as none overlap).
Bytes(e) == e.off..(End(e) - 1)
FreeSpace == UNION {Bytes(e) : e \in byOffset}
FreeBytesExact == freeBytes = Cardinality(FreeSpace)

\* Release coalesces: two free extents never touch, so fragmentation is no
\* worse than the live extents make it.
Coalesced ==
    \A e, f \in byOffset : e # f => End(e) < f.off \/ End(f) < e.off

\* The free list is exact after any sequence of splits, merges and failures:
\* both indexes and the byte count describe the same holes, and every hole is
\* maximal.
FreeListExact == IndexesAgree /\ FreeBytesExact /\ Coalesced

\* No space leaks: every byte below the tail is free or owned by a handle,
\* also after failed and abandoned writes, and the tail respects the capacity.
NothingLeaks ==
    /\ fileTail <= MaxCapacity
    /\ \A b \in 0..(fileTail - 1) :
          \/ \E e \in byOffset : b \in e.off..(End(e) - 1)
          \/ \E h \in Held : b \in extent[h].off..(End(extent[h]) - 1)

\* The file grows only when no single free extent could hold the request.
GrowsOnlyWhenNeeded ==
    [][fileTail' > fileTail =>
          \A e \in byOffset : e.len < fileTail' - fileTail]_vars
=============================================================================
