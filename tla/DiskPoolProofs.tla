--------------------------- MODULE DiskPoolProofs ---------------------------
(***************************************************************************)
(* For any number of handles, any request sizes and any capacity: extents  *)
(* never overlap, stored bytes survive, the two free indexes and the byte  *)
(* counter agree, holes are maximal and no byte leaks.                     *)
(***************************************************************************)
EXTENDS DiskPool, FiniteSetTheorems, WellFoundedInduction, TLAPS

\* TypeOK without free_bytes, whose sign depends on a sum over the free list.
Types ==
    /\ mayWrite \in BOOLEAN
    /\ fileTail \in Nat
    /\ byOffset \subseteq Extent
    /\ phase \in [Handles -> {"new", "dead"} \cup Live]
    /\ extent \in [Handles -> Extent]
    /\ progress \in [Handles -> Nat]
    /\ disk \in [0..(MaxCapacity - 1) -> Handles \cup {NoOne}]

\* Free and owned extents are nonempty and lie below the tail.
InFile ==
    /\ fileTail <= MaxCapacity
    /\ \A f \in byOffset : f.len > 0 /\ End(f) <= fileTail
    /\ \A h \in Held : extent[h].len > 0 /\ End(extent[h]) <= fileTail

\* A write has written nothing before it starts and never more than it owns.
ProgressBounded ==
    /\ \A h \in Held : progress[h] <= extent[h].len
    /\ \A h \in Handles : phase[h] \in {"new", "reserved"} => progress[h] = 0

AllocInv ==
    /\ Types
    /\ IndexesAgree
    /\ InFile
    /\ Coalesced
    /\ ExtentsDisjoint
    /\ NothingLeaks

\* The inductive invariant.  Disjointness of live and free extents needs that
\* holes are maximal and indexed consistently; integrity of the data needs
\* disjointness.
IInv == AllocInv /\ ProgressBounded /\ DataIntact

LEMMA InitIInv == Init => IInv
<1> SUFFICES ASSUME Init PROVE IInv
  OBVIOUS
<1>1. Types
  BY DiskPoolAssumption DEF Init, Types, Extent, NoExtent, Live
<1>2. Held = {} /\ byOffset = {} /\ bySize = {} /\ fileTail = 0
  BY DEF Init, Held, Live
<1>3. IndexesAgree /\ InFile /\ Coalesced /\ ExtentsDisjoint /\ NothingLeaks
  BY <1>2, DiskPoolAssumption
     DEF IndexesAgree, InFile, Coalesced, ExtentsDisjoint, NothingLeaks
<1>4. ProgressBounded /\ DataIntact
  BY <1>2 DEF Init, ProgressBounded, DataIntact
<1>5. QED
  BY <1>1, <1>3, <1>4 DEF IInv, AllocInv

\* An extent is its offset and its length.
LEMMA ExtentUnique ==
    ASSUME NEW f \in Extent, NEW g \in Extent, f.off = g.off, f.len = g.len
    PROVE  f = g
<1>1. f = [off |-> f.off, len |-> f.len] /\ g = [off |-> g.off, len |-> g.len]
  BY DEF Extent
<1>2. QED
  BY <1>1

\* What release_chunk does to the free list, without the neighbour search:
\* the released extent and the holes that touch it become one hole, and no
\* other hole touches that one.
LEMMA ReleaseFacts ==
    ASSUME AllocInv, NEW h \in Held, ReleaseChunk(extent[h])
    PROVE  \E m \in Extent, gone \in SUBSET byOffset :
              /\ byOffset' = (byOffset \ gone) \cup {m}
              /\ bySize' = (bySize \ {<<f.len, f.off>> : f \in gone})
                              \cup {<<m.len, m.off>>}
              /\ m.len > 0 /\ End(m) <= fileTail
              /\ m.off <= extent[h].off /\ End(extent[h]) <= End(m)
              /\ \A f \in gone : m.off <= f.off /\ End(f) <= End(m)
              /\ \A f \in byOffset \ gone : End(f) < m.off \/ End(m) < f.off
              /\ \A g \in Held \ {h} : Disjoint(extent[g], m)
<1> DEFINE e == extent[h]
           left == {f \in LeftOf(e) : End(f) = e.off}
           right == {f \in RightOf(e) : End(e) = f.off}
           low == IF left = {} THEN e.off ELSE (CHOOSE f \in left : TRUE).off
           high == IF right = {} THEN End(e) ELSE End(CHOOSE f \in right : TRUE)
           m == [off |-> low, len |-> high - low]
           gone == left \cup right
<1>0. /\ e \in Extent /\ e.off \in Nat /\ e.len \in Nat /\ e.len > 0
      /\ End(e) <= fileTail /\ fileTail \in Nat /\ End(e) = e.off + e.len
      /\ \A f \in byOffset : /\ f.off \in Nat /\ f.len \in Nat /\ f.len > 0
                             /\ End(f) = f.off + f.len /\ End(f) <= fileTail
      /\ \A f \in byOffset : Disjoint(e, f)
  BY DEF AllocInv, Types, InFile, Held, Extent, End, ExtentsDisjoint
<1>1. \A f \in byOffset : End(f) = e.off => f \in left
  BY <1>0 DEF AllocInv, Coalesced, LeftOf
<1>2. \A f \in byOffset : End(e) = f.off => f \in right
  BY <1>0 DEF AllocInv, Coalesced, RightOf, Disjoint
<1>3. \A f \in left : f \in byOffset /\ End(f) = e.off
  BY DEF LeftOf
<1>4. \A f \in right : f \in byOffset /\ End(e) = f.off
  BY DEF RightOf
<1>5. \A f, g \in left : f = g
  BY <1>0, <1>3 DEF AllocInv, Coalesced
<1>6. \A f, g \in right : f = g
  BY <1>0, <1>4 DEF AllocInv, Coalesced
<1>7. /\ low \in Nat /\ low <= e.off
      /\ left = {} => low = e.off
      /\ \A f \in left : low = f.off
  BY <1>0, <1>3, <1>5
<1>8. /\ high \in Nat /\ End(e) <= high /\ high <= fileTail
      /\ right = {} => high = End(e)
      /\ \A f \in right : high = End(f)
  BY <1>0, <1>4, <1>6
<1>9. /\ byOffset' = (byOffset \ gone) \cup {m}
      /\ bySize' = (bySize \ {<<f.len, f.off>> : f \in gone})
                      \cup {<<m.len, m.off>>}
  BY DEF ReleaseChunk
<1> HIDE DEF left, right, low, high
<1>10. m \in Extent /\ m.off = low /\ End(m) = high /\ m.len > 0
  BY <1>0, <1>7, <1>8 DEF Extent, End
<1>11. gone \in SUBSET byOffset
  BY <1>3, <1>4
<1>12. \A f \in gone : m.off <= f.off /\ End(f) <= End(m)
  BY <1>0, <1>3, <1>4, <1>7, <1>8, <1>10
<1>13. ASSUME NEW f \in byOffset \ gone
       PROVE  End(f) < m.off \/ End(m) < f.off
  <2>1. End(f) # e.off /\ End(e) # f.off
    BY <1>1, <1>2
  <2>2. CASE End(f) < e.off
    <3>1. CASE left = {}
      BY <2>2, <3>1, <1>7, <1>10
    <3>2. CASE left # {}
      <4>1. PICK l \in left : TRUE
        BY <3>2
      <4>2. l \in byOffset /\ End(l) = e.off /\ low = l.off /\ l # f
        BY <4>1, <1>3, <1>7
      <4>3. End(f) < l.off \/ End(l) < f.off
        BY <4>2 DEF AllocInv, Coalesced
      <4>4. QED
        BY <4>2, <4>3, <2>2, <1>0, <1>10
    <3>3. QED
      BY <3>1, <3>2
  <2>3. CASE End(e) < f.off
    <3>1. CASE right = {}
      BY <2>3, <3>1, <1>8, <1>10
    <3>2. CASE right # {}
      <4>1. PICK r \in right : TRUE
        BY <3>2
      <4>2. r \in byOffset /\ End(e) = r.off /\ high = End(r) /\ r # f
        BY <4>1, <1>4, <1>8
      <4>3. End(f) < r.off \/ End(r) < f.off
        BY <4>2 DEF AllocInv, Coalesced
      <4>4. QED
        BY <4>2, <4>3, <2>3, <1>0, <1>10
    <3>3. QED
      BY <3>1, <3>2
  <2>4. QED
    BY <2>1, <2>2, <2>3, <1>0 DEF Disjoint
<1>14. ASSUME NEW g \in Held \ {h}
       PROVE  Disjoint(extent[g], m)
  <2>1. /\ extent[g].off \in Nat /\ extent[g].len \in Nat /\ extent[g].len > 0
        /\ End(extent[g]) = extent[g].off + extent[g].len
        /\ Disjoint(extent[g], e)
        /\ \A f \in byOffset : Disjoint(extent[g], f)
    BY DEF AllocInv, Types, InFile, Held, Extent, End, ExtentsDisjoint
  <2>2. CASE End(extent[g]) <= e.off
    <3>1. CASE left = {}
      BY <2>2, <3>1, <1>7, <1>10 DEF Disjoint
    <3>2. CASE left # {}
      <4>1. PICK l \in left : TRUE
        BY <3>2
      <4>2. l \in byOffset /\ End(l) = e.off /\ low = l.off
        BY <4>1, <1>3, <1>7
      <4>3. QED
        BY <4>2, <2>1, <2>2, <1>0, <1>10 DEF Disjoint
    <3>3. QED
      BY <3>1, <3>2
  <2>3. CASE End(e) <= extent[g].off
    <3>1. CASE right = {}
      BY <2>3, <3>1, <1>8, <1>10 DEF Disjoint
    <3>2. CASE right # {}
      <4>1. PICK r \in right : TRUE
        BY <3>2
      <4>2. r \in byOffset /\ End(e) = r.off /\ high = End(r)
        BY <4>1, <1>4, <1>8
      <4>3. r.off \in Nat /\ End(r) \in Nat /\ Disjoint(extent[g], r)
        BY <4>2, <2>1, <1>0
      <4>4. End(r) <= extent[g].off
        BY <4>2, <4>3, <2>1, <2>3, <1>0 DEF Disjoint
      <4>5. QED
        BY <4>2, <4>4, <1>10 DEF Disjoint
    <3>3. QED
      BY <3>1, <3>2
  <2>4. QED
    BY <2>1, <2>2, <2>3 DEF Disjoint
<1>15. QED
  <2> HIDE DEF m, gone
  <2>1. m.off <= extent[h].off /\ End(extent[h]) <= End(m)
    BY <1>7, <1>8, <1>10
  <2>2. QED
    BY <1>8, <1>9, <1>10, <1>11, <1>12, <1>13, <1>14, <2>1

\* Releasing the extent of a handle that dies keeps the allocator's invariant.
LEMMA ReleaseAllocInv ==
    ASSUME AllocInv, NEW h \in Held, ReleaseChunk(extent[h]),
           phase' = [phase EXCEPT ![h] = "dead"],
           mayWrite' \in BOOLEAN,
           UNCHANGED <<extent, progress, disk>>
    PROVE  AllocInv'
<1>1. PICK m \in Extent, gone \in SUBSET byOffset :
              /\ byOffset' = (byOffset \ gone) \cup {m}
              /\ bySize' = (bySize \ {<<f.len, f.off>> : f \in gone})
                              \cup {<<m.len, m.off>>}
              /\ m.len > 0 /\ End(m) <= fileTail
              /\ m.off <= extent[h].off /\ End(extent[h]) <= End(m)
              /\ \A f \in gone : m.off <= f.off /\ End(f) <= End(m)
              /\ \A f \in byOffset \ gone : End(f) < m.off \/ End(m) < f.off
              /\ \A g \in Held \ {h} : Disjoint(extent[g], m)
  BY ReleaseFacts
<1>2. fileTail' = fileTail
  BY DEF ReleaseChunk
<1>3. Held' = Held \ {h}
  BY DEF Held, Live, AllocInv, Types
<1>4. Types'
  BY <1>1, <1>2 DEF AllocInv, Types, Held
<1>5. IndexesAgree'
  <2>1. \A f, g \in byOffset : f.len = g.len /\ f.off = g.off => f = g
    BY ExtentUnique DEF AllocInv, Types
  <2>2. bySize = {<<e.len, e.off>> : e \in byOffset}
    BY DEF AllocInv, IndexesAgree
  <2>3. ASSUME NEW x \in bySize' PROVE x \in {<<e.len, e.off>> : e \in byOffset'}
    <3>1. CASE x = <<m.len, m.off>>
      BY <1>1, <3>1
    <3>2. CASE x # <<m.len, m.off>>
      <4>1. PICK e \in byOffset : x = <<e.len, e.off>> /\ e \notin gone
        BY <1>1, <2>2, <2>3, <3>2
      <4>2. e \in byOffset'
        BY <1>1, <4>1
      <4>3. QED
        BY <4>1, <4>2
    <3>3. QED
      BY <3>1, <3>2
  <2>4. ASSUME NEW e \in byOffset' PROVE <<e.len, e.off>> \in bySize'
    <3>1. CASE e = m
      BY <1>1, <3>1
    <3>2. CASE e # m
      <4>1. e \in byOffset /\ e \notin gone
        BY <1>1, <2>4, <3>2
      <4>2. <<e.len, e.off>> \in bySize
        BY <2>2, <4>1
      <4>3. \A f \in gone : <<f.len, f.off>> # <<e.len, e.off>>
        BY <2>1, <4>1
      <4>4. QED
        BY <1>1, <4>2, <4>3
    <3>3. QED
      BY <3>1, <3>2
  <2>5. QED
    BY <2>3, <2>4 DEF IndexesAgree
<1>6. InFile'
  BY <1>1, <1>2, <1>3 DEF AllocInv, InFile, End
<1>7. Coalesced'
  BY <1>1 DEF AllocInv, Coalesced, End
<1>8. ExtentsDisjoint'
  BY <1>1, <1>3 DEF AllocInv, ExtentsDisjoint, End, Disjoint
<1>9. NothingLeaks'
  <2> SUFFICES ASSUME NEW b \in 0..(fileTail - 1)
               PROVE  \/ \E e \in byOffset' : b \in e.off..(End(e) - 1)
                      \/ \E g \in Held \ {h} :
                            b \in extent[g].off..(End(extent[g]) - 1)
    BY <1>2, <1>3 DEF NothingLeaks, AllocInv, End
  <2>0. /\ b \in Nat /\ m.off \in Nat /\ m.len \in Nat /\ End(m) = m.off + m.len
        /\ \A f \in byOffset : f.off \in Nat /\ f.len \in Nat
                               /\ End(f) = f.off + f.len
        /\ extent[h].off \in Nat /\ extent[h].len \in Nat
        /\ End(extent[h]) = extent[h].off + extent[h].len
    BY DEF AllocInv, Types, Extent, End, Held
  <2>1. ASSUME NEW e \in byOffset, b \in e.off..(End(e) - 1)
        PROVE  \E f \in byOffset' : b \in f.off..(End(f) - 1)
    <3>1. CASE e \in gone
      <4>1. b \in m.off..(End(m) - 1)
        BY <1>1, <2>0, <2>1, <3>1
      <4>2. QED
        BY <1>1, <4>1
    <3>2. CASE e \notin gone
      BY <1>1, <2>1, <3>2
    <3>3. QED
      BY <3>1, <3>2
  <2>2. ASSUME b \in extent[h].off..(End(extent[h]) - 1)
        PROVE  \E f \in byOffset' : b \in f.off..(End(f) - 1)
    <3>1. b \in m.off..(End(m) - 1)
      BY <1>1, <2>0, <2>2
    <3>2. QED
      BY <1>1, <3>1
  <2>3. QED
    BY <2>1, <2>2 DEF AllocInv, NothingLeaks
<1>10. QED
  BY <1>4, <1>5, <1>6, <1>7, <1>8, <1>9 DEF AllocInv

\* Reserving part or all of a hole keeps the allocator's invariant.
LEMMA TakeFreeAllocInv ==
    ASSUME AllocInv, NEW h \in Handles, phase[h] = "new",
           NEW size \in Nat, size # 0,
           NEW c \in bySize, c[1] >= size, TakeFree(h, c, size),
           phase' = [phase EXCEPT ![h] = "reserved"],
           UNCHANGED <<mayWrite, progress, disk>>
    PROVE  AllocInv'
<1>1. PICK a \in byOffset : c = <<a.len, a.off>>
  BY DEF AllocInv, IndexesAgree
<1> DEFINE new == [off |-> a.off, len |-> size]
           r == [off |-> a.off + size, len |-> a.len - size]
           rest == IF a.len > size THEN {r} ELSE {}
<1>2. a \in Extent /\ a.off \in Nat /\ a.len \in Nat /\ a.len >= size
      /\ a = [off |-> a.off, len |-> a.len]
  BY <1>1 DEF AllocInv, Types, Extent
<1>3. /\ byOffset' = (byOffset \ {a}) \cup rest
      /\ bySize' = (bySize \ {c}) \cup {<<x.len, x.off>> : x \in rest}
      /\ extent' = [extent EXCEPT ![h] = new]
      /\ fileTail' = fileTail
  BY <1>1, <1>2 DEF TakeFree
<1>4. /\ new \in Extent /\ new.off = a.off /\ new.len = size
      /\ End(new) = a.off + size /\ End(a) = a.off + a.len
      /\ \A x \in rest : /\ x \in Extent /\ x.len > 0
                         /\ x.off = a.off + size /\ End(x) = End(a)
  BY <1>2 DEF Extent, End
<1>5. Held' = Held \cup {h} /\ h \notin Held
  BY DEF Held, Live, AllocInv, Types
<1>6. /\ extent'[h] = new
      /\ \A g \in Held : extent'[g] = extent[g]
  BY <1>3, <1>5 DEF AllocInv, Types, Held
<1>7. \A f \in byOffset : /\ f.off \in Nat /\ f.len \in Nat /\ f.len > 0
                          /\ End(f) = f.off + f.len /\ End(f) <= fileTail
  BY DEF AllocInv, Types, InFile, Extent, End
<1>8. \A g \in Held : /\ extent[g].off \in Nat /\ extent[g].len \in Nat
                      /\ extent[g].len > 0 /\ End(extent[g]) <= fileTail
                      /\ End(extent[g]) = extent[g].off + extent[g].len
  BY DEF AllocInv, Types, InFile, Extent, End, Held
<1> HIDE DEF new, rest
<1>9. Types'
  BY <1>3, <1>4 DEF AllocInv, Types, Live
<1>10. IndexesAgree'
  <2>1. \A f, g \in byOffset : f.len = g.len /\ f.off = g.off => f = g
    BY ExtentUnique DEF AllocInv, Types
  <2>2. bySize = {<<e.len, e.off>> : e \in byOffset}
    BY DEF AllocInv, IndexesAgree
  <2>3. bySize \ {c} = {<<e.len, e.off>> : e \in byOffset \ {a}}
    BY <1>1, <2>1, <2>2
  <2>4. QED
    BY <1>3, <2>3 DEF IndexesAgree
<1>11. InFile'
  <2>1. \A f \in byOffset' : f.len > 0 /\ End(f) <= fileTail
    BY <1>1, <1>3, <1>4, <1>7
  <2>2. \A g \in Held' : extent'[g].len > 0 /\ End(extent'[g]) <= fileTail
    <3>1. new.len > 0 /\ End(new) <= fileTail
      BY <1>1, <1>2, <1>4, <1>7 DEF AllocInv, Types
    <3>2. QED
      BY <1>5, <1>6, <1>8, <3>1
  <2>3. QED
    BY <1>3, <2>1, <2>2 DEF AllocInv, InFile, End
<1>12. Coalesced'
  <2>1. ASSUME NEW f \in byOffset \ {a}, NEW x \in rest
        PROVE  End(f) < x.off \/ End(x) < f.off
    <3>1. End(f) < a.off \/ End(a) < f.off
      BY <1>1, <2>1 DEF AllocInv, Coalesced
    <3>2. QED
      BY <1>1, <1>2, <1>4, <1>7, <2>1, <3>1
  <2>2. \A x, y \in rest : x = y
    BY DEF rest
  <2>3. QED
    BY <1>3, <2>1, <2>2 DEF AllocInv, Coalesced
<1>13. ExtentsDisjoint'
  <2>1. \A g \in Held : Disjoint(extent[g], a)
    BY <1>1 DEF AllocInv, ExtentsDisjoint
  <2>2. \A g \in Held : Disjoint(extent[g], new) /\ Disjoint(new, extent[g])
    BY <1>1, <1>2, <1>4, <1>7, <1>8, <2>1 DEF Disjoint
  <2>3. \A g \in Held, x \in rest : Disjoint(extent[g], x)
    BY <1>1, <1>2, <1>4, <1>7, <1>8, <2>1 DEF Disjoint
  <2>4. \A x \in rest : Disjoint(new, x)
    BY <1>2, <1>4 DEF Disjoint
  <2>5. \A f \in byOffset \ {a} : Disjoint(new, f)
    <3> SUFFICES ASSUME NEW f \in byOffset \ {a} PROVE Disjoint(new, f)
      OBVIOUS
    <3>1. End(f) < a.off \/ End(a) < f.off
      BY <1>1 DEF AllocInv, Coalesced
    <3>2. QED
      BY <1>1, <1>2, <1>4, <1>7, <3>1 DEF Disjoint
  <2>6. ASSUME NEW g \in Held', NEW k \in Held', g # k
        PROVE  Disjoint(extent'[g], extent'[k])
    BY <1>5, <1>6, <2>2, <2>6 DEF AllocInv, ExtentsDisjoint
  <2>7. ASSUME NEW g \in Held', NEW f \in byOffset'
        PROVE  Disjoint(extent'[g], f)
    BY <1>3, <1>5, <1>6, <2>3, <2>4, <2>5 DEF AllocInv, ExtentsDisjoint
  <2>8. QED
    BY <2>6, <2>7 DEF ExtentsDisjoint, Disjoint, End
<1>14. NothingLeaks'
  <2> SUFFICES ASSUME NEW b \in 0..(fileTail - 1)
               PROVE  \/ \E e \in byOffset' : b \in e.off..(End(e) - 1)
                      \/ \E g \in Held' :
                            b \in extent'[g].off..(End(extent'[g]) - 1)
    BY <1>3 DEF NothingLeaks, AllocInv, End
  <2>1. ASSUME NEW g \in Held, b \in extent[g].off..(End(extent[g]) - 1)
        PROVE  \E k \in Held' : b \in extent'[k].off..(End(extent'[k]) - 1)
    BY <1>5, <1>6, <2>1
  <2>2. ASSUME NEW e \in byOffset \ {a}, b \in e.off..(End(e) - 1)
        PROVE  \E f \in byOffset' : b \in f.off..(End(f) - 1)
    BY <1>3, <2>2
  <2>3. ASSUME b \in a.off..(End(a) - 1)
        PROVE  \/ \E e \in byOffset' : b \in e.off..(End(e) - 1)
               \/ \E g \in Held' :
                     b \in extent'[g].off..(End(extent'[g]) - 1)
    <3>1. CASE b < a.off + size
      <4>1. b \in new.off..(End(new) - 1)
        BY <1>2, <1>4, <2>3, <3>1
      <4>2. QED
        BY <1>5, <1>6, <4>1
    <3>2. CASE b >= a.off + size
      <4>1. rest = {r} /\ b \in r.off..(End(r) - 1)
        BY <1>2, <2>3, <3>2 DEF rest, End
      <4>2. QED
        BY <1>3, <4>1
    <3>3. QED
      BY <3>1, <3>2, <1>2
  <2>4. QED
    BY <1>1, <2>1, <2>2, <2>3 DEF AllocInv, NothingLeaks
<1>15. QED
  BY <1>9, <1>10, <1>11, <1>12, <1>13, <1>14 DEF AllocInv

\* Growing the file keeps the allocator's invariant.
LEMMA TakeTailAllocInv ==
    ASSUME AllocInv, NEW h \in Handles, phase[h] = "new",
           NEW size \in Nat, size # 0, TakeTail(h, size),
           phase' = [phase EXCEPT ![h] = "reserved"],
           UNCHANGED <<mayWrite, progress, disk>>
    PROVE  AllocInv'
<1> DEFINE new == [off |-> fileTail, len |-> size]
<1>1. /\ fileTail \in Nat /\ new \in Extent
      /\ new.off = fileTail /\ new.len = size /\ End(new) = fileTail + size
  BY DEF AllocInv, Types, Extent, End
<1>2. /\ fileTail' = fileTail + size /\ fileTail' <= MaxCapacity
      /\ extent' = [extent EXCEPT ![h] = new]
      /\ byOffset' = byOffset /\ bySize' = bySize
  BY DEF TakeTail
<1>3. Held' = Held \cup {h} /\ h \notin Held
  BY DEF Held, Live, AllocInv, Types
<1>4. extent'[h] = new /\ \A g \in Held : extent'[g] = extent[g]
  BY <1>2, <1>3 DEF AllocInv, Types, Held
<1>5. \A f \in byOffset : /\ f.off \in Nat /\ f.len \in Nat /\ f.len > 0
                          /\ End(f) = f.off + f.len /\ End(f) <= fileTail
  BY DEF AllocInv, Types, InFile, Extent, End
<1>6. \A g \in Held : /\ extent[g].off \in Nat /\ extent[g].len \in Nat
                      /\ extent[g].len > 0 /\ End(extent[g]) <= fileTail
                      /\ End(extent[g]) = extent[g].off + extent[g].len
  BY DEF AllocInv, Types, InFile, Extent, End, Held
<1> HIDE DEF new
<1>7. Types'
  BY <1>1, <1>2 DEF AllocInv, Types, Live
<1>8. IndexesAgree' /\ Coalesced'
  BY <1>2 DEF AllocInv, IndexesAgree, Coalesced, End
<1>9. InFile'
  <2>1. \A f \in byOffset' : f.len > 0 /\ End(f) <= fileTail'
    BY <1>1, <1>2, <1>5
  <2>2. \A g \in Held' : extent'[g].len > 0 /\ End(extent'[g]) <= fileTail'
    BY <1>1, <1>2, <1>3, <1>4, <1>6
  <2>3. QED
    BY <1>2, <2>1, <2>2 DEF InFile, End
<1>10. ExtentsDisjoint'
  <2>1. \A g \in Held : Disjoint(extent[g], new) /\ Disjoint(new, extent[g])
    BY <1>1, <1>6 DEF Disjoint
  <2>2. \A f \in byOffset : Disjoint(new, f)
    BY <1>1, <1>5 DEF Disjoint
  <2>3. ASSUME NEW g \in Held', NEW k \in Held', g # k
        PROVE  Disjoint(extent'[g], extent'[k])
    BY <1>3, <1>4, <2>1, <2>3 DEF AllocInv, ExtentsDisjoint
  <2>4. ASSUME NEW g \in Held', NEW f \in byOffset'
        PROVE  Disjoint(extent'[g], f)
    BY <1>2, <1>3, <1>4, <2>2 DEF AllocInv, ExtentsDisjoint
  <2>5. QED
    BY <2>3, <2>4 DEF ExtentsDisjoint, Disjoint, End
<1>11. NothingLeaks'
  <2> SUFFICES ASSUME NEW b \in 0..(fileTail' - 1)
               PROVE  \/ \E e \in byOffset : b \in e.off..(End(e) - 1)
                      \/ \E g \in Held' :
                            b \in extent'[g].off..(End(extent'[g]) - 1)
    BY <1>2 DEF NothingLeaks, End
  <2>1. CASE b \in 0..(fileTail - 1)
    BY <1>3, <1>4, <2>1 DEF AllocInv, NothingLeaks
  <2>2. CASE b \notin 0..(fileTail - 1)
    <3>1. b \in new.off..(End(new) - 1)
      BY <1>1, <1>2, <2>2
    <3>2. QED
      BY <1>3, <1>4, <3>1
  <2>3. QED
    BY <2>1, <2>2
<1>12. QED
  BY <1>7, <1>8, <1>9, <1>10, <1>11 DEF AllocInv

\* A step that leaves the allocator, the extents and the set of live handles
\* alone leaves its invariant alone.
LEMMA StutterAllocInv ==
    ASSUME AllocInv, UNCHANGED <<allocation, extent>>, Held' = Held,
           Types'
    PROVE  AllocInv'
<1>1. IndexesAgree' /\ Coalesced'
  BY DEF allocation, AllocInv, IndexesAgree, Coalesced, End
<1>2. InFile' /\ ExtentsDisjoint'
  BY DEF allocation, AllocInv, InFile, ExtentsDisjoint, Disjoint, End
<1>3. NothingLeaks'
  BY DEF allocation, AllocInv, NothingLeaks, End
<1>4. QED
  BY <1>1, <1>2, <1>3 DEF AllocInv

\* Every way of giving an extent back preserves the whole invariant.
LEMMA ReleaseIInv ==
    ASSUME IInv, NEW h \in Held, ReleaseChunk(extent[h]),
           phase' = [phase EXCEPT ![h] = "dead"],
           mayWrite' \in BOOLEAN,
           UNCHANGED <<extent, progress, disk>>
    PROVE  IInv'
<1>1. AllocInv'
  BY ReleaseAllocInv DEF IInv
<1>2. ProgressBounded' /\ DataIntact'
  BY DEF IInv, AllocInv, Types, ProgressBounded, DataIntact, Held, Live
<1>3. QED
  BY <1>1, <1>2 DEF IInv

\* Every step preserves the invariant.
LEMMA NextIInv == IInv /\ [Next]_vars => IInv'
<1> SUFFICES ASSUME IInv, [Next]_vars PROVE IInv'
  OBVIOUS
<1> USE DEF IInv
<1>1. ASSUME NEW h \in Handles, NEW size \in Sizes, TryReserveChunk(h, size)
      PROVE  IInv'
  <2>1. size \in Nat /\ size # 0 /\ phase[h] = "new"
    BY <1>1, DiskPoolAssumption DEF TryReserveChunk
  <2>2. AllocInv'
    <3>1. ASSUME NEW c \in bySize, IsFit(c, size), TakeFree(h, c, size)
          PROVE  AllocInv'
      <4>1. PICK a \in byOffset : c = <<a.len, a.off>>
        BY <3>1 DEF AllocInv, IndexesAgree
      <4>2. c[1] >= size
        BY <2>1, <3>1, <4>1 DEF IsFit, Candidates, AllocInv, Types, Extent
      <4>3. QED
        BY <1>1, <2>1, <3>1, <4>2, TakeFreeAllocInv DEF TryReserveChunk
    <3>2. QED
      BY <1>1, <2>1, <3>1, TakeTailAllocInv DEF TryReserveChunk
  <2>3. extent' \in [Handles -> Extent] /\ \A g \in Handles \ {h} :
                extent'[g] = extent[g] /\ phase'[g] = phase[g]
    BY <1>1, <2>2 DEF TryReserveChunk, TakeFree, TakeTail, AllocInv, Types
  <2>4. phase'[h] = "reserved" /\ progress' = progress /\ disk' = disk
    BY <1>1 DEF TryReserveChunk, AllocInv, Types
  <2>5. ProgressBounded'
    <3>1. progress[h] = 0 /\ extent'[h].len \in Nat
      BY <2>1, <2>3 DEF ProgressBounded, Extent
    <3>2. \A g \in Held' : progress'[g] <= extent'[g].len
      BY <2>3, <2>4, <3>1 DEF ProgressBounded, Held
    <3>3. \A g \in Handles : phase'[g] \in {"new", "reserved"} =>
                             progress'[g] = 0
      BY <2>3, <2>4, <3>1 DEF ProgressBounded
    <3>4. QED
      BY <3>2, <3>3 DEF ProgressBounded
  <2>6. DataIntact'
    BY <2>3, <2>4 DEF DataIntact
  <2>7. QED
    BY <2>2, <2>5, <2>6
<1>2. ASSUME NEW h \in Handles, DropReservation(h) \/ FailWrite(h) \/ DropData(h)
      PROVE  IInv'
  <2>1. h \in Held
    BY <1>2 DEF Held, Live, DropReservation, FailWrite, DropData
  <2>2. mayWrite' \in BOOLEAN
    BY <1>2 DEF DropReservation, FailWrite, DropData, AllocInv, Types
  <2>3. QED
    BY <1>2, <2>1, <2>2, ReleaseIInv DEF DropReservation, FailWrite, DropData
<1>3. ASSUME NEW h \in Handles, BeginWrite(h) \/ FinishWrite(h) PROVE IInv'
  <2>1. Held' = Held /\ UNCHANGED <<allocation, extent, progress, disk>>
    BY <1>3 DEF BeginWrite, FinishWrite, Held, Live, AllocInv, Types
  <2>2. Types'
    BY <1>3 DEF BeginWrite, FinishWrite, AllocInv, Types, Live, allocation
  <2>3. AllocInv'
    BY <2>1, <2>2, StutterAllocInv
  <2>4. ProgressBounded'
    BY <1>3, <2>1 DEF BeginWrite, FinishWrite, ProgressBounded, AllocInv, Types
  <2>5. \A g \in Handles : phase'[g] \in {"writing", "stored"} =>
            phase[g] \in {"writing", "stored"} \/ progress[g] = 0
    BY <1>3 DEF BeginWrite, FinishWrite, ProgressBounded, AllocInv, Types
  <2>6. DataIntact'
    BY <2>1, <2>5 DEF DataIntact
  <2>7. QED
    BY <2>3, <2>4, <2>6
<1>4. ASSUME NEW h \in Handles, WriteByte(h) PROVE IInv'
  <2> DEFINE at == extent[h].off + progress[h]
  <2>1. /\ h \in Held /\ phase[h] = "writing"
        /\ extent[h].off \in Nat /\ extent[h].len \in Nat /\ progress[h] \in Nat
        /\ progress[h] < extent[h].len
        /\ End(extent[h]) = extent[h].off + extent[h].len
        /\ End(extent[h]) <= fileTail /\ fileTail <= MaxCapacity
        /\ fileTail \in Nat /\ MaxCapacity \in Nat
    BY <1>4, DiskPoolAssumption
       DEF WriteByte, Held, Live, AllocInv, Types, InFile, Extent, End
  <2>2. at \in 0..(MaxCapacity - 1)
    BY <2>1
  <2>3. /\ disk' = [disk EXCEPT ![at] = h]
        /\ progress' = [progress EXCEPT ![h] = @ + 1]
        /\ UNCHANGED <<allocation, phase, extent>>
    BY <1>4 DEF WriteByte
  <2> HIDE DEF at
  <2>4. Types' /\ Held' = Held
    BY <2>1, <2>2, <2>3 DEF AllocInv, Types, Held, allocation
  <2>5. AllocInv'
    BY <2>3, <2>4, StutterAllocInv
  <2>6. ProgressBounded'
    BY <2>1, <2>3, <2>4 DEF ProgressBounded, AllocInv, Types
  <2>7. ASSUME NEW g \in Handles, phase[g] \in {"writing", "stored"},
               NEW i \in 0..(progress'[g] - 1)
        PROVE  disk'[extent[g].off + i] = g
    <3>1. /\ g \in Held /\ progress[g] \in Nat /\ progress[g] <= extent[g].len
          /\ extent[g].off \in Nat /\ extent[g].len \in Nat
          /\ End(extent[g]) = extent[g].off + extent[g].len
          /\ End(extent[g]) <= fileTail
      BY <2>7 DEF Held, Live, AllocInv, Types, Extent, ProgressBounded, End,
                  InFile
    <3>2. CASE g = h
      <4>1. CASE i = progress[h]
        BY <2>2, <2>3, <3>2, <4>1 DEF at, AllocInv, Types
      <4>2. CASE i # progress[h]
        <5>1. i \in 0..(progress[h] - 1)
          BY <2>1, <2>3, <2>7, <3>2, <4>2 DEF AllocInv, Types
        <5>2. disk[extent[h].off + i] = h /\ extent[h].off + i # at
          BY <2>1, <4>2, <5>1 DEF DataIntact, at
        <5>3. extent[h].off + i \in 0..(MaxCapacity - 1)
          BY <2>1, <5>1
        <5>4. QED
          BY <2>3, <3>2, <5>2, <5>3 DEF AllocInv, Types
      <4>3. QED
        BY <4>1, <4>2
    <3>3. CASE g # h
      <4>1. i \in 0..(progress[g] - 1)
        BY <2>3, <2>7, <3>3 DEF AllocInv, Types
      <4>2. disk[extent[g].off + i] = g
        BY <2>7, <4>1 DEF DataIntact
      <4>3. Disjoint(extent[g], extent[h])
        BY <2>1, <3>1, <3>3 DEF AllocInv, ExtentsDisjoint
      <4>4. extent[g].off + i # at /\ extent[g].off + i \in 0..(MaxCapacity - 1)
        BY <2>1, <3>1, <4>1, <4>3 DEF Disjoint, at
      <4>5. QED
        BY <2>3, <4>2, <4>4 DEF AllocInv, Types
    <3>4. QED
      BY <3>2, <3>3
  <2>8. DataIntact'
    BY <2>3, <2>7 DEF DataIntact
  <2>9. QED
    BY <2>5, <2>6, <2>8
<1>5. CASE UNCHANGED vars
  <2>1. Types' /\ Held' = Held /\ UNCHANGED <<allocation, extent>>
    BY <1>5 DEF vars, allocation, AllocInv, Types, Held
  <2>2. AllocInv'
    BY <2>1, StutterAllocInv
  <2>3. ProgressBounded' /\ DataIntact'
    BY <1>5, <2>1 DEF vars, ProgressBounded, DataIntact
  <2>4. QED
    BY <2>2, <2>3
<1>6. QED
  BY <1>1, <1>2, <1>3, <1>4, <1>5 DEF Next

LEMMA SpecIInv == Spec => []IInv
  BY InitIInv, NextIInv, PTL DEF Spec

\* No two live handles share a byte and no live byte is free, for any number
\* of handles, any sizes and any capacity.
THEOREM ExtentsNeverOverlap == Spec => []ExtentsDisjoint
<1>1. IInv => ExtentsDisjoint
  BY DEF IInv, AllocInv
<1>2. QED
  BY <1>1, SpecIInv, PTL

\* What a handle has written stays in the file until the handle is dropped,
\* although no write holds the allocation mutex.
THEOREM StoredDataSurvives == Spec => []DataIntact
<1>1. IInv => DataIntact
  BY DEF IInv
<1>2. QED
  BY <1>1, SpecIInv, PTL

\* The offset index and the size index always describe the same holes.
THEOREM FreeIndexesAgree == Spec => []IndexesAgree
<1>1. IInv => IndexesAgree
  BY DEF IInv, AllocInv
<1>2. QED
  BY <1>1, SpecIInv, PTL

\* Two holes never touch.
THEOREM HolesAreMaximal == Spec => []Coalesced
<1>1. IInv => Coalesced
  BY DEF IInv, AllocInv
<1>2. QED
  BY <1>1, SpecIInv, PTL

\* Every byte below the tail is free or owned, and the tail respects the
\* capacity: failed and abandoned writes leak nothing.
THEOREM NoByteLeaks == Spec => []NothingLeaks
<1>1. IInv => NothingLeaks
  BY DEF IInv, AllocInv
<1>2. QED
  BY <1>1, SpecIInv, PTL

-----------------------------------------------------------------------------
(* The byte counter.                                                       *)

\* The free bytes are those below the tail that no live handle owns, so what
\* a merge does to the free list need not be looked at again to count them.
FreeUnowned ==
    FreeSpace = {b \in 0..(fileTail - 1) : \A g \in Held : b \notin Bytes(extent[g])}

\* That follows from disjointness and the absence of leaks.
LEMMA FreeIsUnowned == AllocInv => FreeUnowned
<1> SUFFICES ASSUME AllocInv
             PROVE  FreeSpace = {b \in 0..(fileTail - 1) :
                                    \A g \in Held : b \notin Bytes(extent[g])}
  BY DEF FreeUnowned
<1>1. /\ fileTail \in Nat
      /\ \A f \in byOffset : /\ f.off \in Nat /\ f.len \in Nat /\ f.len > 0
                             /\ End(f) = f.off + f.len /\ End(f) <= fileTail
      /\ \A g \in Held : /\ extent[g].off \in Nat /\ extent[g].len \in Nat
                         /\ End(extent[g]) = extent[g].off + extent[g].len
  BY DEF AllocInv, Types, InFile, Extent, End, Held
<1>2. ASSUME NEW f \in byOffset, NEW b \in Bytes(f)
      PROVE  b \in 0..(fileTail - 1) /\ \A g \in Held : b \notin Bytes(extent[g])
  <2>1. \A g \in Held : Disjoint(extent[g], f)
    BY DEF AllocInv, ExtentsDisjoint
  <2> QED BY <1>1, <2>1 DEF Bytes, Disjoint
<1>3. ASSUME NEW b \in 0..(fileTail - 1), \A g \in Held : b \notin Bytes(extent[g])
      PROVE  \E f \in byOffset : b \in Bytes(f)
  BY <1>3 DEF AllocInv, NothingLeaks, Bytes
<1> QED BY <1>2, <1>3 DEF FreeSpace

\* The free bytes are finitely many.
LEMMA SpaceIsFinite ==
    AllocInv => /\ IsFiniteSet(FreeSpace)
                /\ Cardinality(FreeSpace) \in Nat
<1> SUFFICES ASSUME AllocInv PROVE IsFiniteSet(FreeSpace) /\ Cardinality(FreeSpace) \in Nat
  OBVIOUS
<1>1. FreeSpace \in SUBSET (0..(fileTail - 1))
  BY FreeIsUnowned DEF FreeUnowned
<1>2. IsFiniteSet(0..(fileTail - 1))
  <2>1. 0 \in Int /\ fileTail - 1 \in Int
    BY DEF AllocInv, Types
  <2> QED BY <2>1, FS_Interval
<1>3. IsFiniteSet(FreeSpace)
  BY <1>1, <1>2, FS_Subset
<1> QED BY <1>3, FS_CardinalityType

\* An extent covers as many bytes as it is long.
LEMMA BytesCount ==
    ASSUME NEW e \in Extent
    PROVE  IsFiniteSet(Bytes(e)) /\ Cardinality(Bytes(e)) = e.len
<1>1. PICK a, z \in Int : a = e.off /\ z = End(e) - 1
  BY DEF Extent, End
<1>2. a \in Int /\ z \in Int /\ e.len \in Nat /\ z = a + e.len - 1
  BY <1>1 DEF Extent, End
<1>3. IsFiniteSet(a..z) /\ Cardinality(a..z) = IF a > z THEN 0 ELSE z - a + 1
  BY <1>2, FS_Interval
<1> QED BY <1>1, <1>2, <1>3 DEF Bytes

\* The counter of a released extent.
LEMMA ReleaseCounts ==
    ASSUME AllocInv, FreeBytesExact, AllocInv',
           NEW h \in Held, ReleaseChunk(extent[h]),
           phase' = [phase EXCEPT ![h] = "dead"], extent' = extent
    PROVE  FreeBytesExact'
<1>1. PICK S, B : S = FreeSpace /\ B = Bytes(extent[h])
  OBVIOUS
<1>2. Held' = Held \ {h} /\ fileTail' = fileTail /\ freeBytes' = freeBytes + extent[h].len
  BY DEF Held, Live, AllocInv, Types, ReleaseChunk
<1>3. FreeSpace' = {b \in 0..(fileTail' - 1) : \A g \in Held' : b \notin Bytes(extent[g])'}
  <2>1. FreeUnowned'
    BY FreeIsUnowned, PTL
  <2> QED BY <2>1 DEF FreeUnowned
<1>4. S = {b \in 0..(fileTail - 1) : \A g \in Held : b \notin Bytes(extent[g])}
  BY <1>1, FreeIsUnowned DEF FreeUnowned
<1>5. \A g \in Held : g # h => \A b \in Bytes(extent[g]) : b \notin B
  <2> SUFFICES ASSUME NEW g \in Held, g # h, NEW b \in Bytes(extent[g]) PROVE b \notin B
    OBVIOUS
  <2>1. /\ extent[g].off \in Nat /\ extent[g].len \in Nat
        /\ extent[h].off \in Nat /\ extent[h].len \in Nat
        /\ Disjoint(extent[g], extent[h])
    BY DEF AllocInv, Types, Held, Extent, ExtentsDisjoint
  <2> QED BY <1>1, <2>1 DEF Bytes, Disjoint, End
<1>6. B \subseteq 0..(fileTail - 1)
  <2>1. /\ extent[h].off \in Nat /\ extent[h].len \in Nat /\ fileTail \in Nat
        /\ End(extent[h]) <= fileTail
    BY DEF AllocInv, Types, Held, Extent, InFile
  <2> QED BY <1>1, <2>1 DEF Bytes, End
<1>7. \A g \in Held : Bytes(extent[g])' = Bytes(extent[g])
  BY DEF Bytes, End
<1>8. FreeSpace' = S \cup B /\ S \cap B = {}
  <2>1. \A b \in 0..(fileTail - 1) : b \in FreeSpace' <=> b \in S \/ b \in B
    BY <1>1, <1>2, <1>3, <1>4, <1>5, <1>7
  <2>2. FreeSpace' \subseteq 0..(fileTail - 1) /\ S \subseteq 0..(fileTail - 1)
    BY <1>2, <1>3, <1>4
  <2> QED BY <1>1, <1>4, <1>6, <2>1, <2>2
<1>9. IsFiniteSet(S) /\ Cardinality(S) \in Nat /\ Cardinality(S) = freeBytes
  BY <1>1, SpaceIsFinite DEF FreeBytesExact
<1>10. IsFiniteSet(B) /\ Cardinality(B) = extent[h].len /\ extent[h].len \in Nat
  BY <1>1, BytesCount DEF AllocInv, Types, Held, Extent
<1>11. Cardinality(S \cup B) = Cardinality(S) + Cardinality(B) - Cardinality({})
  BY <1>8, <1>9, <1>10, FS_Union
<1>12. Cardinality(S \cup B) = freeBytes + extent[h].len
  BY <1>9, <1>10, <1>11, FS_EmptySet
<1> QED BY <1>2, <1>8, <1>12 DEF FreeBytesExact

\* The counter of a reservation taken from a hole.
LEMMA TakeFreeCounts ==
    ASSUME AllocInv, FreeBytesExact, AllocInv',
           NEW h \in Handles, phase[h] = "new", NEW size \in Nat,
           NEW c \in bySize, c[1] >= size, TakeFree(h, c, size),
           phase' = [phase EXCEPT ![h] = "reserved"]
    PROVE  FreeBytesExact'
<1>0. PICK a \in byOffset : c = <<a.len, a.off>>
  BY DEF AllocInv, IndexesAgree
<1>1. PICK S, e : S = FreeSpace /\ e = [off |-> a.off, len |-> size]
  OBVIOUS
<1>a. /\ a.off \in Nat /\ a.len \in Nat /\ size <= a.len /\ End(a) = a.off + a.len
      /\ e \in Extent /\ e.off = a.off /\ e.len = size /\ End(e) = a.off + size
  BY <1>0, <1>1 DEF AllocInv, Types, Extent, End
<1>2. /\ Held' = Held \cup {h} /\ h \notin Held /\ fileTail' = fileTail
      /\ freeBytes' = freeBytes - size
      /\ extent'[h] = e /\ \A g \in Held : extent'[g] = extent[g]
  BY <1>0, <1>1 DEF Held, Live, AllocInv, Types, TakeFree
<1>3. FreeSpace' = {b \in 0..(fileTail' - 1) : \A g \in Held' : b \notin Bytes(extent[g])'}
  <2>1. FreeUnowned'
    BY FreeIsUnowned, PTL
  <2> QED BY <2>1 DEF FreeUnowned
<1>4. S = {b \in 0..(fileTail - 1) : \A g \in Held : b \notin Bytes(extent[g])}
  BY <1>1, FreeIsUnowned DEF FreeUnowned
<1>5. Bytes(e) \subseteq S
  <2>1. Bytes(e) \subseteq Bytes(a)
    BY <1>a DEF Bytes
  <2> QED BY <1>0, <1>1, <2>1 DEF FreeSpace
<1>6. /\ \A g \in Held : Bytes(extent'[g]) = Bytes(extent[g])
      /\ Bytes(extent'[h]) = Bytes(e)
  BY <1>2
<1>7. FreeSpace' = S \ Bytes(e) /\ S \cap Bytes(e) = Bytes(e)
  <2>1. \A g \in Held' : Bytes(extent[g])' = Bytes(extent'[g])
    BY DEF Bytes, End
  <2> QED BY <1>2, <1>3, <1>4, <1>5, <1>6, <2>1
<1>8. IsFiniteSet(S) /\ Cardinality(S) \in Nat /\ Cardinality(S) = freeBytes
  BY <1>1, SpaceIsFinite DEF FreeBytesExact
<1>9. Cardinality(Bytes(e)) = size
  BY <1>a, BytesCount
<1>10. Cardinality(S \ Bytes(e)) = Cardinality(S) - Cardinality(Bytes(e))
  BY <1>7, <1>8, FS_Difference
<1> QED BY <1>2, <1>7, <1>8, <1>9, <1>10 DEF FreeBytesExact

\* Every step keeps the counter exact.
LEMMA NextCounts == IInv /\ IInv' /\ FreeBytesExact /\ [Next]_vars => FreeBytesExact'
<1> SUFFICES ASSUME IInv, IInv', FreeBytesExact, [Next]_vars PROVE FreeBytesExact'
  OBVIOUS
<1>0. AllocInv /\ AllocInv'
  BY DEF IInv
<1>1. CASE UNCHANGED <<byOffset, freeBytes>>
  BY <1>1 DEF FreeBytesExact, FreeSpace, Bytes, End
<1>2. ASSUME NEW h \in Handles, NEW size \in Sizes, TryReserveChunk(h, size)
      PROVE  FreeBytesExact'
  <2>1. size \in Nat /\ phase[h] = "new" /\ phase' = [phase EXCEPT ![h] = "reserved"]
    BY <1>2, DiskPoolAssumption DEF TryReserveChunk
  <2>2. ASSUME NEW c \in bySize, IsFit(c, size), TakeFree(h, c, size)
        PROVE  FreeBytesExact'
    <3>1. PICK a \in byOffset : c = <<a.len, a.off>>
      BY <1>0 DEF AllocInv, IndexesAgree
    <3>2. c[1] >= size
      BY <1>0, <2>1, <2>2, <3>1 DEF IsFit, Candidates, AllocInv, Types, Extent
    <3> QED BY <1>0, <2>1, <2>2, <3>2, TakeFreeCounts
  <2>3. ASSUME TakeTail(h, size) PROVE FreeBytesExact'
    BY <1>1, <2>3 DEF TakeTail
  <2> QED BY <1>2, <2>2, <2>3 DEF TryReserveChunk
<1>3. ASSUME NEW h \in Handles, DropReservation(h) \/ FailWrite(h) \/ DropData(h)
      PROVE  FreeBytesExact'
  <2>1. h \in Held
    BY <1>3 DEF Held, Live, DropReservation, FailWrite, DropData
  <2>2. /\ ReleaseChunk(extent[h]) /\ phase' = [phase EXCEPT ![h] = "dead"]
        /\ extent' = extent
    BY <1>3 DEF DropReservation, FailWrite, DropData
  <2> QED BY <1>0, <2>1, <2>2, ReleaseCounts
<1>4. ASSUME NEW h \in Handles, BeginWrite(h) \/ FinishWrite(h) \/ WriteByte(h)
      PROVE  FreeBytesExact'
  BY <1>1, <1>4 DEF BeginWrite, FinishWrite, WriteByte, allocation
<1>5. CASE UNCHANGED vars
  BY <1>1, <1>5 DEF vars
<1> QED
  BY <1>2, <1>3, <1>4, <1>5 DEF Next

\* The free list is exact after any sequence of splits, merges and failures:
\* both indexes and the byte counter describe the same holes and every hole
\* is maximal, although release_chunk and find_free_chunk only ever adjust
\* the counter by a difference.
THEOREM FreeListIsExact == Spec => []FreeListExact
<1>1. Init => FreeBytesExact
  <2>1. Init => FreeSpace = {} /\ freeBytes = 0
    BY DEF Init, FreeSpace
  <2> QED BY <2>1, FS_EmptySet DEF FreeBytesExact
<1>2. IInv /\ FreeBytesExact /\ [Next]_vars => IInv' /\ FreeBytesExact'
  BY NextIInv, NextCounts
<1>3. IInv /\ FreeBytesExact => FreeListExact
  BY DEF IInv, AllocInv, FreeListExact
<1> QED BY <1>1, <1>2, <1>3, InitIInv, PTL DEF Spec

\* Every variable keeps its type; that free_bytes never underflows is what
\* needs the exact count.
THEOREM TypeCorrect == Spec => []TypeOK
<1>1. IInv /\ FreeListExact => TypeOK
  <2> SUFFICES ASSUME IInv, FreeListExact PROVE TypeOK
    OBVIOUS
  <2>1. freeBytes \in Nat
    BY SpaceIsFinite DEF IInv, FreeListExact, FreeBytesExact
  <2>2. bySize \subseteq Nat \X Nat
    BY DEF IInv, AllocInv, Types, IndexesAgree, Extent
  <2> QED BY <2>1, <2>2 DEF IInv, AllocInv, Types, TypeOK
<1> QED BY <1>1, SpecIInv, FreeListIsExact, PTL

-----------------------------------------------------------------------------
(* Growth.                                                                 *)

\* Every nonempty set of naturals has a least element.
LEMMA LeastElement ==
    ASSUME NEW T \in SUBSET Nat, T # {}
    PROVE  \E x \in T : \A y \in T : x <= y
<1>1. PICK x \in T : \A y \in T : ~(<<y, x>> \in OpToRel(<, Nat))
  BY NatLessThanWellFounded, WFMin
<1>2. \A y \in T : ~(y < x)
  BY <1>1 DEF OpToRel
<1> QED BY <1>2

\* find_free_chunk comes back empty only if every hole is too small: a hole
\* that is larger than the request makes the largest one a candidate.
LEMMA NoCandidate ==
    ASSUME AllocInv, NEW size \in Nat, Candidates(size) = {}
    PROVE  \A e \in byOffset : e.len < size
<1>1. /\ fileTail \in Nat
      /\ \A e \in byOffset : e.len \in Nat /\ e.len <= fileTail /\ <<e.len, e.off>> \in bySize
      /\ \A d \in bySize : \E e \in byOffset : d = <<e.len, e.off>>
  <2>1. \A e \in byOffset : e.off \in Nat /\ e.len \in Nat /\ e.off + e.len <= fileTail
    BY DEF AllocInv, Types, InFile, Extent, End
  <2>2. fileTail \in Nat
    BY DEF AllocInv, Types
  <2> QED BY <2>1, <2>2 DEF AllocInv, IndexesAgree
<1>2. \A d \in bySize : d[1] \in Nat /\ d[1] <= fileTail
  BY <1>1
<1>3. \A d \in bySize : d[1] # size
  BY DEF Candidates
<1>4. {c \in bySize : c[1] > size /\ \A d \in bySize : d[1] <= c[1]} = {}
  BY <1>3 DEF Candidates
<1>5. ASSUME NEW d \in bySize, d[1] > size PROVE FALSE
  <2> DEFINE T == {fileTail - x[1] : x \in {y \in bySize : y[1] > size}}
  <2>1. T \in SUBSET Nat /\ T # {}
    BY <1>1, <1>2, <1>5
  <2>2. PICK t \in T : \A u \in T : t <= u
    <3> HIDE DEF T
    <3> QED BY <2>1, LeastElement
  <2>3. PICK c \in bySize : c[1] > size /\ t = fileTail - c[1]
    OBVIOUS
  <2>4. \A x \in bySize : x[1] > size => fileTail - x[1] \in T
    OBVIOUS
  <2> HIDE DEF T
  <2>5. ASSUME NEW x \in bySize PROVE x[1] <= c[1]
    <3>1. x[1] \in Nat /\ c[1] \in Nat /\ fileTail \in Nat
      BY <1>1, <1>2
    <3>2. CASE x[1] > size
      <4>1. fileTail - c[1] <= fileTail - x[1]
        BY <2>2, <2>3, <2>4, <3>2
      <4> QED BY <3>1, <4>1
    <3>3. CASE ~(x[1] > size)
      BY <2>3, <3>1, <3>3
    <3> QED BY <3>2, <3>3
  <2> QED BY <1>4, <2>3, <2>5
<1>6. ASSUME NEW e \in byOffset PROVE e.len < size
  <2>1. PICK d : d = <<e.len, e.off>>
    OBVIOUS
  <2>2. d \in bySize /\ d[1] = e.len /\ e.len \in Nat
    BY <1>1, <2>1
  <2>3. e.len # size /\ ~(e.len > size)
    BY <1>3, <1>5, <2>2
  <2> QED BY <2>2, <2>3
<1> QED BY <1>6

\* The file grows only when no hole could hold the request: best fit by two
\* indexes never overlooks one.
THEOREM GrowthIsNeeded == Spec => GrowsOnlyWhenNeeded
<1>1. ASSUME IInv, [Next]_vars, fileTail' > fileTail
      PROVE  \A e \in byOffset : e.len < fileTail' - fileTail
  <2>1. fileTail \in Nat /\ AllocInv
    BY <1>1 DEF IInv, AllocInv, Types
  <2>2. fileTail' # fileTail
    BY <1>1, <2>1
  <2>3. PICK h \in Handles, size \in Sizes : Candidates(size) = {} /\ TakeTail(h, size)
    <3>1. ~UNCHANGED fileTail
      BY <2>2
    <3> QED BY <1>1, <3>1
       DEF Next, TryReserveChunk, TakeFree, DropReservation, ReleaseChunk, BeginWrite,
           WriteByte, FinishWrite, FailWrite, DropData, allocation, vars
  <2>4. size \in Nat /\ fileTail' - fileTail = size
    BY <2>1, <2>3, DiskPoolAssumption DEF TakeTail
  <2> QED BY <2>1, <2>3, <2>4, NoCandidate
<1>2. IInv /\ [Next]_vars =>
         [fileTail' > fileTail => \A e \in byOffset : e.len < fileTail' - fileTail]_vars
  BY <1>1
<1> QED BY <1>2, SpecIInv, PTL DEF Spec, GrowsOnlyWhenNeeded
=============================================================================
