------------------------- MODULE StorageServiceProofs -------------------------
(***************************************************************************)
(* Proofs about StorageService, for every finite set of operations and any *)
(* clients and buckets.                                                    *)
(***************************************************************************)
EXTENDS StorageService, FiniteSetTheorems, WellFoundedInduction, TLAPS

------------------------------------------------------------------------------
(* The inductive invariant.                                                *)

SqlSteps == {"usage", "submit", "sql"}

\* The ticket lock.  Tickets are handed out once; one below the ticket served
\* has had its turn or was given up, and a cancelled one belongs to nobody.
TicketsDistinct ==
    \A o, p \in Ops : ticket[o] = ticket[p] /\ ticket[o] # NoTicket => o = p
TicketsCounted == Cardinality({o \in Ops : ticket[o] # NoTicket}) = nextTicket
ServedOver ==
    \A o \in Ops : ticket[o] # NoTicket /\ ticket[o] < serving => pc[o] \in Over
RunsAtTurn == \A o \in Ops : pc[o] = "run" => ticket[o] = serving
CancelledOver ==
    \A t \in cancelled : t > serving /\ \A o \in Ops : ticket[o] = t => pc[o] = "done"
\* A SQL command is past its turn, or never took a ticket.
PastTurn == \A o \in Ops : pc[o] \in SqlSteps => ticket[o] < serving

SequenceInv ==
    /\ TicketsDistinct /\ TicketsCounted /\ ServedOver /\ RunsAtTurn /\ CancelledOver
    /\ NoOrphanTicket /\ PastTurn

\* What the steps of an operation say about its ticket and its quota.
QuotaKinds == {"syncQuota", "asyncQuota", "delete", "sql"}
AsyncKinds == {"asyncQuota", "sql"}

StepOK(o) ==
    /\ pc[o] \in {"new", "tryQuota", "lockQuota", "check", "ensure", "reserveAsync", "waitQuota",
                 "ticket"} => ticket[o] = NoTicket
    /\ pc[o] \in {"enter", "run", "cancel"} => ticket[o] # NoTicket
    /\ pc[o] \in {"new", "tryQuota", "lockQuota", "check", "ensure", "reserveAsync"} => o \notin holds
    /\ pc[o] \in SqlSteps \cup {"unlock"} \/ (pc[o] = "ticket" /\ kind[o] \in QuotaKinds) => o \in holds
    /\ pc[o] = "send" =>
           \/ kind[o] = "delete" /\ ticket[o] = NoTicket /\ o \notin holds
           \/ kind[o] \in {"async", "asyncQuota"} /\ ticket[o] # NoTicket
    /\ pc[o] = "tryQuota" => kind[o] = "asyncQuota"
    /\ pc[o] \in SqlSteps \cup {"check"} => kind[o] = "sql"
    /\ pc[o] \in {"ensure", "reserveAsync", "waitQuota"} => kind[o] \in AsyncKinds
    /\ pc[o] = "sql" => sql # "closed"

StepInv == \A o \in Ops : StepOK(o)

\* The coordinator: one owner for each active bucket, and somebody to wait for.
OwnersDistinct == \A o, p \in holds : bucket[o] = bucket[p] => o = p
OwnedActive == \A b \in Buckets : b \in active <=> \E o \in holds : bucket[o] = b
WaitedActive == \A b \in Buckets : waiting[b] # <<>> => b \in active

QuotaInv == OwnersDistinct /\ OwnedActive /\ WaitedActive

\* Where an operation is.
Has(s, o) == \E i \in 1 .. Len(s) : s[i] = o
Once(s) == \A i, j \in 1 .. Len(s) : s[i] = s[j] => i = j

WaitersKnown ==
    \A b \in Buckets :
        /\ Once(waiting[b])
        /\ \A o \in Ops : Has(waiting[b], o) =>
               pc[o] = "waitQuota" /\ bucket[o] = b /\ o \notin holds
ReadyKnown ==
    /\ Once(ready)
    /\ \A o \in Ops : Has(ready, o) => pc[o] = "waitQuota" /\ o \in holds /\ handing # o
    /\ handing # None => pc[handing] = "waitQuota" /\ handing \in holds
    /\ ready # <<>> \/ handing # None => draining
QueuedKnown ==
    \A q \in Queues :
        /\ Once(queue[q])
        /\ \A o \in Ops : Has(queue[q], o) =>
               /\ pc[o] = "queued"
               /\ q = "io" => ticket[o] # NoTicket
               /\ q = "quota" => ticket[o] = NoTicket /\ kind[o] \in AsyncKinds /\ o \in holds
               /\ q = "maintenance" => ticket[o] = NoTicket /\ kind[o] = "delete" /\ o \notin holds

ListInv == WaitersKnown /\ ReadyKnown /\ QueuedKnown

\* Nobody is lost: an operation under way is with a caller or a worker, or in
\* a list; the first steps of a call are the caller's.
Called(o) == \E c \in Clients : caller[c] = o
Worked(o) == \E q \in Queues : worker[q] = o

Apart == {"new", "done", "queued", "waitQuota", "sql"}

Placed ==
    /\ \A o \in Ops : pc[o] \notin Apart => Called(o) \/ Worked(o)
    /\ \A o \in Ops : pc[o] \in {"tryQuota", "check", "ensure", "reserveAsync", "send"} => Called(o)
    /\ \A o \in Ops : pc[o] = "queued" => \E q \in Queues : Has(queue[q], o)
    /\ \A o \in Ops : pc[o] = "waitQuota" =>
           Has(waiting[bucket[o]], o) \/ Has(ready, o) \/ handing = o
Threads ==
    /\ \A q \in Queues : queue[q] # <<>> \/ worker[q] # None => q \in started
    /\ \A o \in Ops : pc[o] \in {"reserveAsync", "waitQuota"} => "quota" \in started

PlaceInv == Placed /\ Threads

\* The stages of shutdown.
QueueIdle(q) == worker[q] = None /\ \A o \in Ops : ~Has(queue[q], o)
BarrierLast(s) == \A i \in 1 .. Len(s) : s[i] = Barrier => i = Len(s)
Quiet == (\A b \in Buckets : waiting[b] = <<>>) /\ ready = <<>> /\ handing = None

\* Only Blob reads call once shutdown has begun, and nobody when SQL has been
\* joined; until then work may queue up behind the barrier of the quota queue.
Callers ==
    \A o \in Ops : Called(o) => ~late /\ (shut = "open" \/ kind[o] = "sql")
Barriers ==
    \A q \in Queues :
        /\ q # "quota" \/ late => BarrierLast(queue[q])
        /\ Has(queue[q], Barrier) => shut = q

StageInv ==
    /\ Callers /\ Barriers
    /\ shut \in {"open", "sql"} => ~late
    /\ shut \in {"dispatch", "quota", "sql", "io", "closed"} \/ late => QueueIdle("maintenance")
    /\ late /\ shut \in {"quota", "io", "closed"} => Quiet
    /\ shut \in {"io", "closed"} => late /\ QueueIdle("quota")
    /\ shut = "closed" => QueueIdle("io")
    /\ late => sql = "closed"

\* The sets of steps and kinds are small: every proof may look into them.
USE DEF Over, SqlSteps, AsyncKinds, Apart

StorageInv == TypeOK /\ SequenceInv /\ StepInv /\ QuotaInv /\ ListInv /\ PlaceInv /\ StageInv

------------------------------------------------------------------------------
(* Sequences.                                                              *)

LEMMA Appended ==
    ASSUME NEW T, NEW s \in Seq(T), NEW x \in T
    PROVE  /\ Append(s, x) \in Seq(T) /\ Append(s, x) # <<>>
           /\ \A p : Has(Append(s, x), p) <=> Has(s, p) \/ p = x
           /\ Once(s) /\ ~Has(s, x) => Once(Append(s, x))
           /\ BarrierLast(s) /\ ~Has(s, Barrier) => BarrierLast(Append(s, x))
<1> DEFINE a == Append(s, x)
<1>1. /\ a \in Seq(T) /\ Len(s) \in Nat /\ Len(a) = Len(s) + 1 /\ a[Len(a)] = x
      /\ \A i \in 1 .. Len(s) : a[i] = s[i] /\ i \in 1 .. Len(a)
      /\ \A i \in 1 .. Len(a) : i = Len(a) \/ i \in 1 .. Len(s)
      /\ Len(a) \in 1 .. Len(a) /\ a # <<>>
    OBVIOUS
<1> HIDE DEF a
<1>2. \A p : Has(a, p) <=> Has(s, p) \/ p = x
    BY <1>1 DEF Has
<1>3. Once(s) /\ ~Has(s, x) => Once(a)
    BY <1>1 DEF Has, Once
<1>4. BarrierLast(s) /\ ~Has(s, Barrier) => BarrierLast(a)
    BY <1>1 DEF Has, BarrierLast
<1> QED BY <1>1, <1>2, <1>3, <1>4 DEF a

LEMMA Taken ==
    ASSUME NEW T, NEW s \in Seq(T), s # <<>>
    PROVE  /\ Tail(s) \in Seq(T) /\ Head(s) \in T
           /\ \A p : Has(s, p) <=> Has(Tail(s), p) \/ p = Head(s)
           /\ Once(s) => Once(Tail(s)) /\ ~Has(Tail(s), Head(s))
           /\ BarrierLast(s) => BarrierLast(Tail(s))
           /\ BarrierLast(s) /\ Head(s) = Barrier => Tail(s) = <<>>
<1> DEFINE t == Tail(s)
<1>1. /\ t \in Seq(T) /\ Head(s) = s[1] /\ Len(s) \in Nat /\ Len(s) > 0 /\ Len(t) = Len(s) - 1
      /\ \A i \in 1 .. Len(t) : t[i] = s[i + 1] /\ i + 1 \in 1 .. Len(s) /\ i + 1 # 1
      /\ 1 \in 1 .. Len(s) /\ s[1] \in T
    OBVIOUS
<1>2. \A i \in 1 .. Len(s) : i = 1 \/ (i - 1 \in 1 .. Len(t) /\ (i - 1) + 1 = i)
    BY <1>1
<1> HIDE DEF t
<1>3. \A p : Has(s, p) <=> Has(t, p) \/ p = Head(s)
    <2> SUFFICES ASSUME NEW p PROVE Has(s, p) <=> Has(t, p) \/ p = Head(s)
        OBVIOUS
    <2>1. ASSUME NEW i \in 1 .. Len(s), s[i] = p PROVE Has(t, p) \/ p = Head(s)
        <3>1. CASE i = 1
            BY <1>1, <2>1, <3>1
        <3>2. CASE i # 1
            <4>1. t[i - 1] = p /\ i - 1 \in 1 .. Len(t)
                BY <1>1, <1>2, <2>1, <3>2
            <4> QED BY <4>1 DEF Has
        <3> QED BY <3>1, <3>2
    <2> QED BY <1>1, <2>1 DEF Has
<1>4. Once(s) => Once(t) /\ ~Has(t, Head(s))
    <2> SUFFICES ASSUME Once(s) PROVE Once(t) /\ ~Has(t, Head(s))
        OBVIOUS
    <2>1. \A i, j \in 1 .. Len(t) : t[i] = t[j] => i + 1 = j + 1
        BY <1>1 DEF Once
    <2>2. \A i, j \in 1 .. Len(t) : i + 1 = j + 1 => i = j
        BY <1>1
    <2>3. \A i \in 1 .. Len(t) : t[i] # s[1]
        BY <1>1 DEF Once
    <2> QED BY <1>1, <2>1, <2>2, <2>3 DEF Once, Has
<1>5. BarrierLast(s) => BarrierLast(t)
    <2> SUFFICES ASSUME BarrierLast(s), NEW i \in 1 .. Len(t), t[i] = Barrier
                 PROVE  i = Len(t)
        BY DEF BarrierLast
    <2>1. i + 1 = Len(s)
        BY <1>1 DEF BarrierLast
    <2> QED BY <1>1, <2>1
<1>6. BarrierLast(s) /\ Head(s) = Barrier => t = <<>>
    <2> SUFFICES ASSUME BarrierLast(s), Head(s) = Barrier PROVE t = <<>>
        OBVIOUS
    <2>1. 1 = Len(s)
        BY <1>1 DEF BarrierLast
    <2> QED BY <1>1, <2>1
<1> QED BY <1>1, <1>3, <1>4, <1>5, <1>6 DEF t

LEMMA NothingIn == \A p : ~Has(<<>>, p)
BY DEF Has

LEMMA EmptyHasNone ==
    ASSUME NEW T, NEW s \in Seq(T), \A p \in T : ~Has(s, p)
    PROVE  s = <<>>
<1>1. Len(s) \in Nat /\ \A i \in 1 .. Len(s) : s[i] \in T
    OBVIOUS
<1>2. ~(1 \in 1 .. Len(s))
    BY <1>1 DEF Has
<1> QED BY <1>1, <1>2

------------------------------------------------------------------------------
(* The ticket lock.                                                        *)

\* A relation that contains < has only least elements of a set as minimal ones.
LEMMA LeastOfRelation ==
    ASSUME NEW R, NEW T, T \subseteq Nat,
           \E x \in T : \A y \in T : ~ (<<y, x>> \in R),
           \A x, y \in Nat : x < y => <<x, y>> \in R
    PROVE  \E n \in T : \A m \in T : n <= m
<1>1. PICK x \in T : \A y \in T : ~ (<<y, x>> \in R)
    BY Zenon
<1>2. \A y \in T : ~ (y < x)
    <2> SUFFICES ASSUME NEW y \in T, y < x PROVE FALSE
        OBVIOUS
    <2>1. x \in Nat /\ y \in Nat
        OBVIOUS
    <2>2. <<y, x>> \in R
        BY <2>1, Zenon
    <2> QED BY <1>1, <2>2, Zenon
<1>3. \A y \in T : y \in Nat
    BY Zenon
<1> QED BY <1>2, <1>3

\* A non-empty set of naturals has a least member.
LEMMA LeastNumber ==
    ASSUME NEW T, T \subseteq Nat, T # {}
    PROVE  \E n \in T : \A m \in T : n <= m
<1>1. \E x \in T : \A y \in T : ~ (<<y, x>> \in OpToRel(<, Nat))
    BY NatLessThanWellFounded, WFMin, Zenon
<1>2. \A x, y \in Nat : x < y => <<x, y>> \in OpToRel(<, Nat)
    BY DEF OpToRel
<1> QED
    BY <1>1, <1>2, LeastOfRelation, Zenon

\* Advancing from s stops at the first ticket that is not cancelled, at
\* next_ticket at the latest.
LEMMA AdvancedFacts ==
    ASSUME nextTicket \in Nat, NEW s \in 0 .. nextTicket,
           NEW C, C \subseteq 0 .. (nextTicket - 1)
    PROVE  /\ Advanced(s, C) \in s .. nextTicket
           /\ Advanced(s, C) \notin C
           /\ \A m \in s .. (Advanced(s, C) - 1) : m \in C
<1> DEFINE T == {n \in s .. nextTicket : n \notin C}
           P(n) == n \notin C /\ \A m \in s .. (n - 1) : m \in C
<1>1. nextTicket \in T /\ T \subseteq Nat
    OBVIOUS
<1> HIDE DEF T
<1>2. PICK n \in T : \A m \in T : n <= m
    BY <1>1, LeastNumber
<1> USE DEF T
<1>3. P(n) /\ n \in s .. (s + nextTicket)
    <2> SUFFICES ASSUME NEW m \in s .. (n - 1) PROVE m \in C
        BY <1>2
    <2>1. m \in s .. nextTicket /\ ~(n <= m)
        BY <1>2
    <2> QED BY <1>2, <2>1
<1> DEFINE a == CHOOSE k \in s .. (s + nextTicket) : P(k)
<1>4. a \in s .. (s + nextTicket) /\ P(a)
    BY <1>3
<1>5. Advanced(s, C) = a
    BY DEF Advanced
<1> HIDE DEF a
<1>6. a \in s .. nextTicket
    <2> SUFFICES ASSUME a > nextTicket PROVE FALSE
        BY <1>4
    <2>1. nextTicket \in s .. (a - 1)
        BY <1>4
    <2> QED BY <1>4, <2>1
<1> QED BY <1>4, <1>5, <1>6

------------------------------------------------------------------------------
(* What a step has to keep, part by part.                                  *)

\* Only the step of o changes, to y.
Moved(o, y) == \A p \in Ops : pc'[p] = IF p = o THEN y ELSE pc[p]

LEMMA GotoMoves ==
    ASSUME TypeOK, NEW o \in Ops, NEW y \in Steps, Goto(o, y)
    PROVE  Moved(o, y) /\ pc' \in [Ops -> Steps]
BY DEF TypeOK, Goto, Moved

\* The tickets, when no ticket is taken or given back.
LEMMA SequenceFrame ==
    ASSUME TypeOK, SequenceInv, UNCHANGED seqVars, UNCHANGED ticket,
           NEW o \in Ops, NEW y, Moved(o, y),
           y = "run" => ticket[o] = serving,
           pc[o] # "done",
           ticket[o] # NoTicket /\ ticket[o] < serving => y \in Over,
           y = "done" => ticket[o] = NoTicket \/ ticket[o] < serving,
           y \in SqlSteps => ticket[o] < serving
    PROVE  SequenceInv'
<1>a. /\ TicketsDistinct /\ TicketsCounted /\ ServedOver /\ RunsAtTurn /\ CancelledOver
      /\ NoOrphanTicket /\ PastTurn
    BY DEF SequenceInv
<1>b. /\ UNCHANGED <<nextTicket, serving, cancelled, ticket>>
      /\ \A p \in Ops : pc'[p] = IF p = o THEN y ELSE pc[p]
    BY DEF seqVars, Moved
<1>1. TicketsDistinct' /\ TicketsCounted'
    BY <1>a, <1>b DEF TicketsDistinct, TicketsCounted
<1>2. ServedOver' /\ RunsAtTurn' /\ PastTurn'
    BY <1>a, <1>b DEF ServedOver, RunsAtTurn, PastTurn
<1>3. CancelledOver'
    BY <1>a, <1>b DEF CancelledOver
<1>4. NoOrphanTicket'
    <2>1. serving \in Nat /\ nextTicket \in Nat
        BY DEF TypeOK
    <2>2. \A t \in serving .. (nextTicket - 1) :
              t \in cancelled \/ \E p \in Ops : ticket[p] = t /\ pc'[p] # "done"
        <3> SUFFICES ASSUME NEW t \in serving .. (nextTicket - 1), t \notin cancelled
                     PROVE  \E p \in Ops : ticket[p] = t /\ pc'[p] # "done"
            OBVIOUS
        <3>1. PICK p \in Ops : ticket[p] = t /\ pc[p] # "done"
            BY <1>a DEF NoOrphanTicket
        <3>2. ~(t < serving) /\ t # NoTicket
            BY <2>1 DEF NoTicket
        <3> QED BY <1>b, <3>1, <3>2
    <2> QED BY <1>a, <1>b, <2>2 DEF NoOrphanTicket
<1> QED BY <1>1, <1>2, <1>3, <1>4 DEF SequenceInv

\* The tickets, when nobody moves.
LEMMA SequenceStill ==
    ASSUME SequenceInv, UNCHANGED <<seqVars, ticket, pc>>
    PROVE  SequenceInv'
BY DEF SequenceInv, TicketsDistinct, TicketsCounted, ServedOver, RunsAtTurn, CancelledOver,
       NoOrphanTicket, PastTurn, seqVars

\* What the step of o says, when o alone moves.
LEMMA StepFrame ==
    ASSUME StepInv, NEW o \in Ops, NEW y, Moved(o, y), UNCHANGED <<kind, sql>>,
           \A p \in Ops : p # o => ticket'[p] = ticket[p] /\ (p \in holds' <=> p \in holds),
           StepOK(o)'
    PROVE  StepInv'
<1>1. \A p \in Ops : p # o => pc'[p] = pc[p]
    BY DEF Moved
<1>2. \A p \in Ops : p # o => StepOK(p)'
    BY <1>1 DEF StepInv, StepOK
<1>3. \A p \in Ops : p = o => StepOK(p)'
    BY DEF StepOK
<1> QED BY <1>2, <1>3 DEF StepInv

\* The owners, when no bucket changes hands.
LEMMA QuotaStill ==
    ASSUME QuotaInv, UNCHANGED <<active, waiting, holds, bucket>>
    PROVE  QuotaInv'
BY DEF QuotaInv, OwnersDistinct, OwnedActive, WaitedActive

\* A free bucket gets an owner.
LEMMA QuotaTaken ==
    ASSUME TypeOK, QuotaInv, NEW o \in Ops, bucket[o] \notin active,
           active' = active \cup {bucket[o]}, holds' = holds \cup {o},
           UNCHANGED <<waiting, bucket>>
    PROVE  QuotaInv'
<1>a. OwnersDistinct /\ OwnedActive /\ WaitedActive
    BY DEF QuotaInv
<1>b. bucket \in [Ops -> Buckets] /\ holds \subseteq Ops
    BY DEF TypeOK
<1>1. \A p \in holds : bucket[p] # bucket[o]
    BY <1>a, <1>b DEF OwnedActive
<1>2. OwnersDistinct'
    BY <1>a, <1>1 DEF OwnersDistinct
<1>3. OwnedActive'
    BY <1>a, <1>b DEF OwnedActive
<1>4. WaitedActive'
    BY <1>a DEF WaitedActive
<1> QED BY <1>2, <1>3, <1>4 DEF QuotaInv

lists == <<waiting, ready, draining, handing, queue>>

\* The lists, when an operation outside them moves.
LEMMA ListFrame ==
    ASSUME TypeOK, ListInv, NEW o \in Ops, NEW y, Moved(o, y), UNCHANGED lists, UNCHANGED opVars,
           pc[o] \notin {"queued", "waitQuota"},
           \A p \in Ops : p # o => ticket'[p] = ticket[p] /\ (p \in holds' <=> p \in holds)
    PROVE  ListInv'
<1>a. WaitersKnown /\ ReadyKnown /\ QueuedKnown
    BY DEF ListInv
<1>b. /\ UNCHANGED <<waiting, ready, draining, handing, queue, kind, bucket>>
      /\ \A p \in Ops : p # o => pc'[p] = pc[p]
    BY DEF lists, opVars, Moved
<1>c. handing \in Ops \cup {None}
    BY DEF TypeOK
<1>1. WaitersKnown'
    <2>1. \A b \in Buckets : ~Has(waiting[b], o)
        BY <1>a DEF WaitersKnown
    <2> QED BY <1>a, <1>b, <2>1 DEF WaitersKnown
<1>2. ReadyKnown'
    <2>1. ~Has(ready, o) /\ handing # o
        BY <1>a, StorageAssumption DEF ReadyKnown
    <2> QED BY <1>a, <1>b, <1>c, <2>1 DEF ReadyKnown
<1>3. QueuedKnown'
    <2>1. \A q \in Queues : ~Has(queue[q], o)
        BY <1>a DEF QueuedKnown
    <2> QED BY <1>a, <1>b, <2>1 DEF QueuedKnown
<1> QED BY <1>1, <1>2, <1>3 DEF ListInv

\* The lists, when nobody moves.
LEMMA ListStill ==
    ASSUME ListInv, UNCHANGED <<lists, pc, ticket, holds, opVars>>
    PROVE  ListInv'
BY DEF ListInv, WaitersKnown, ReadyKnown, QueuedKnown, lists, opVars

\* The threads o is on let go of it when it is over, and otherwise stay.
Leaves(o, y) ==
    \/ UNCHANGED <<caller, worker>> /\ y \notin {"done", "sql"}
    \/ /\ y \in {"done", "sql"}
       /\ \/ caller' = [c \in Clients |-> IF caller[c] = o THEN None ELSE caller[c]]
          \/ y = "sql" /\ UNCHANGED caller
       /\ worker' = [q \in Queues |-> IF worker[q] = o THEN None ELSE worker[q]]

LEMMA LeavesFacts ==
    ASSUME TypeOK, NEW o \in Ops, NEW y, Leaves(o, y)
    PROVE  /\ caller' \in [Clients -> Ops \cup {None}] /\ worker' \in [Queues -> Ops \cup {None}]
           /\ \A p \in Ops : p # o => (Called(p)' <=> Called(p)) /\ (Worked(p)' <=> Worked(p))
           /\ y \notin {"done", "sql"} => (Called(o)' <=> Called(o)) /\ (Worked(o)' <=> Worked(o))
           /\ \A p \in Ops : Called(p)' => Called(p)
           /\ \A q \in Queues : worker[q] = None => worker'[q] = None
<1>a. caller \in [Clients -> Ops \cup {None}] /\ worker \in [Queues -> Ops \cup {None}]
      /\ None \notin Ops
    BY StorageAssumption DEF TypeOK
<1>1. CASE UNCHANGED <<caller, worker>> /\ y \notin {"done", "sql"}
    BY <1>a, <1>1 DEF Called, Worked
<1>2. CASE /\ y \in {"done", "sql"}
           /\ caller' = [c \in Clients |-> IF caller[c] = o THEN None ELSE caller[c]]
           /\ worker' = [q \in Queues |-> IF worker[q] = o THEN None ELSE worker[q]]
    BY <1>a, <1>2 DEF Called, Worked
<1>3. CASE /\ y = "sql" /\ UNCHANGED caller
           /\ worker' = [q \in Queues |-> IF worker[q] = o THEN None ELSE worker[q]]
    BY <1>a, <1>3 DEF Called, Worked
<1> QED BY <1>1, <1>2, <1>3 DEF Leaves

\* Where everybody is, when an operation outside the lists moves.
LEMMA PlaceFrame ==
    ASSUME TypeOK, PlaceInv, NEW o \in Ops, NEW y, Moved(o, y), UNCHANGED lists, UNCHANGED opVars,
           pc[o] \notin {"new", "done", "queued", "waitQuota"}, y \notin {"queued", "waitQuota"},
           pc[o] = "sql" => y = "done",
           Leaves(o, y), started \subseteq started',
           y \in {"tryQuota", "check", "ensure", "reserveAsync", "send"} => Called(o),
           y = "reserveAsync" => "quota" \in started'
    PROVE  PlaceInv'
<1>a. Placed /\ Threads
    BY DEF PlaceInv
<1>b. /\ UNCHANGED <<waiting, ready, handing, queue, bucket>>
      /\ \A p \in Ops : pc'[p] = IF p = o THEN y ELSE pc[p]
    BY DEF lists, opVars, Moved
<1>c. /\ \A p \in Ops : p # o => (Called(p)' <=> Called(p)) /\ (Worked(p)' <=> Worked(p))
      /\ y \notin {"done", "sql"} => (Called(o)' <=> Called(o)) /\ (Worked(o)' <=> Worked(o))
      /\ \A q \in Queues : worker[q] = None => worker'[q] = None
    BY LeavesFacts
<1>1. \A p \in Ops : pc'[p] \notin Apart => Called(p)' \/ Worked(p)'
    <2> SUFFICES ASSUME NEW p \in Ops, pc'[p] \notin Apart
                 PROVE  Called(p)' \/ Worked(p)'
        OBVIOUS
    <2>1. Called(p) \/ Worked(p)
        BY <1>a, <1>b DEF Placed
    <2>2. p = o => y \notin {"done", "sql"}
        BY <1>b
    <2> QED BY <1>c, <2>1, <2>2
<1>2. \A p \in Ops : pc'[p] \in {"tryQuota", "check", "ensure", "reserveAsync", "send"} => Called(p)'
    <2> SUFFICES ASSUME NEW p \in Ops, pc'[p] \in {"tryQuota", "check", "ensure", "reserveAsync", "send"}
                 PROVE  Called(p)'
        OBVIOUS
    <2>1. Called(p)
        BY <1>a, <1>b DEF Placed
    <2>2. p = o => y \notin {"done", "sql"}
        BY <1>b
    <2> QED BY <1>c, <2>1, <2>2
<1>3. \A p \in Ops : pc'[p] \in {"queued", "waitQuota"} => p # o /\ pc[p] = pc'[p]
    BY <1>b
<1>4. Placed'
    BY <1>a, <1>b, <1>1, <1>2, <1>3 DEF Placed
<1>5. Threads'
    BY <1>a, <1>b, <1>c DEF Threads
<1> QED BY <1>4, <1>5 DEF PlaceInv

\* The stages, when no list changes and no thread takes anything up.
LEMMA StageFrame ==
    ASSUME StageInv, UNCHANGED lists, UNCHANGED <<shut, late, sql, kind>>,
           \A o \in Ops : Called(o)' => Called(o),
           \A q \in Queues : worker[q] = None => worker'[q] = None
    PROVE  StageInv'
<1>1. UNCHANGED <<waiting, ready, handing, queue>>
    BY DEF lists
<1>2. \A q \in Queues : QueueIdle(q) => QueueIdle(q)'
    BY <1>1 DEF QueueIdle
<1>3. Quiet => Quiet'
    BY <1>1 DEF Quiet
<1>4. Callers' /\ Barriers'
    BY <1>1 DEF StageInv, Callers, Barriers
<1> QED BY <1>1, <1>2, <1>3, <1>4 DEF StageInv, Queues

------------------------------------------------------------------------------
(* Operations.                                                             *)

LEMMA InvParts ==
    StorageInv => /\ TypeOK /\ SequenceInv /\ StepInv /\ QuotaInv /\ ListInv /\ PlaceInv /\ StageInv
                  /\ \A o \in Ops : StepOK(o)
BY DEF StorageInv, StepInv

LEMMA FinishLeaves ==
    ASSUME NEW o \in Ops, Finish(o)
    PROVE  Goto(o, "done") /\ Leaves(o, "done")
BY DEF Finish, Return, Leaves

\* A step of an operation that is on a thread, and stays there or ends.
ThreadStep(o, y) ==
    /\ pc[o] \notin {"new", "done", "queued", "waitQuota"}
    /\ pc[o] = "sql" => y = "done"
    /\ y \in Steps \ {"new", "queued", "waitQuota"}
    /\ Goto(o, y) /\ Leaves(o, y)
    /\ UNCHANGED lists /\ UNCHANGED opVars /\ UNCHANGED <<shut, late, sql>>
    /\ started \subseteq started'
    /\ y \in {"tryQuota", "check", "ensure", "reserveAsync", "send"} => Called(o)
    /\ y = "reserveAsync" => "quota" \in started'
    /\ \A p \in Ops : p # o => ticket'[p] = ticket[p] /\ (p \in holds' <=> p \in holds)

LEMMA ThreadStepKeeps ==
    ASSUME StorageInv, NEW o \in Ops, NEW y, ThreadStep(o, y)
    PROVE  /\ Moved(o, y) /\ pc' \in [Ops -> Steps]
           /\ caller' \in [Clients -> Ops \cup {None}] /\ worker' \in [Queues -> Ops \cup {None}]
           /\ ListInv' /\ PlaceInv' /\ StageInv'
<1>a. TypeOK /\ ListInv /\ PlaceInv /\ StageInv
    BY InvParts
<1>b. y \in Steps /\ Goto(o, y) /\ Leaves(o, y)
    BY DEF ThreadStep
<1>1. Moved(o, y) /\ pc' \in [Ops -> Steps]
    BY <1>a, <1>b, GotoMoves
<1>2. ListInv'
    BY <1>a, <1>1, ListFrame DEF ThreadStep
<1>3. PlaceInv'
    BY <1>a, <1>b, <1>1, PlaceFrame DEF ThreadStep
<1>4. /\ caller' \in [Clients -> Ops \cup {None}] /\ worker' \in [Queues -> Ops \cup {None}]
      /\ \A p \in Ops : Called(p)' => Called(p)
      /\ \A q \in Queues : worker[q] = None => worker'[q] = None
    BY <1>a, <1>b, LeavesFacts
<1>5. StageInv'
    BY <1>a, <1>4, StageFrame DEF ThreadStep, opVars
<1> QED BY <1>1, <1>2, <1>3, <1>4, <1>5

\* A step of an operation on a thread that touches neither tickets nor quota.
LEMMA PlainStepKeeps ==
    ASSUME StorageInv, NEW o \in Ops, NEW y, ThreadStep(o, y),
           UNCHANGED seqVars, UNCHANGED <<ticket, active, holds>>, started' \subseteq Queues,
           y = "run" => ticket[o] = serving,
           ticket[o] # NoTicket /\ ticket[o] < serving => y \in Over,
           y = "done" => ticket[o] = NoTicket \/ ticket[o] < serving,
           y \in SqlSteps => ticket[o] < serving,
           StepOK(o)'
    PROVE  StorageInv'
<1>a. TypeOK /\ SequenceInv /\ StepInv /\ QuotaInv
    BY InvParts
<1>1. /\ Moved(o, y) /\ pc' \in [Ops -> Steps]
      /\ caller' \in [Clients -> Ops \cup {None}] /\ worker' \in [Queues -> Ops \cup {None}]
      /\ ListInv' /\ PlaceInv' /\ StageInv'
    BY ThreadStepKeeps
<1>2. TypeOK'
    BY <1>a, <1>1 DEF TypeOK, ThreadStep, lists, opVars, seqVars
<1>3. SequenceInv'
    BY <1>a, <1>1, SequenceFrame DEF ThreadStep
<1>4. StepInv'
    BY <1>a, <1>1, StepFrame DEF ThreadStep, opVars
<1>5. QuotaInv'
    BY <1>a, QuotaStill DEF ThreadStep, lists, opVars
<1> QED BY <1>1, <1>2, <1>3, <1>4, <1>5 DEF StorageInv

LEMMA EnterKeeps ==
    ASSUME StorageInv, NEW o \in Ops, Enter(o)
    PROVE  StorageInv'
<1>a. TypeOK /\ StepOK(o)
    BY InvParts
<1>b. /\ pc[o] = "enter" /\ serving = ticket[o] /\ Goto(o, "run")
      /\ UNCHANGED <<seqVars, quotaVars, handing, queueVars, opVars, ticket, holds,
                     caller, shut, late, sql>>
    BY DEF Enter
<1>1. ThreadStep(o, "run")
    BY <1>b DEF ThreadStep, Steps, Leaves, lists, quotaVars, queueVars
<1>2. serving \in Nat /\ pc'[o] = "run" /\ started \subseteq Queues
    BY <1>a, <1>b DEF TypeOK, Goto
<1>3. StepOK(o)'
    BY <1>a, <1>b, <1>2 DEF StepOK, opVars
<1>4. ~(ticket[o] < serving)
    BY <1>b, <1>2
<1> QED BY <1>b, <1>1, <1>2, <1>3, <1>4, PlainStepKeeps DEF quotaVars, queueVars

LEMMA SkipTurnKeeps ==
    ASSUME StorageInv, NEW o \in Ops, SkipTurn(o)
    PROVE  StorageInv'
<1>a. TypeOK /\ StepOK(o)
    BY InvParts
<1>1. PICK y \in {"submit", "unlock"} : Goto(o, y) /\ (y = "submit" => kind[o] = "sql")
    BY DEF SkipTurn
<1>b. /\ pc[o] = "ticket" /\ kind[o] \in QuotaKinds
      /\ UNCHANGED <<seqVars, quotaVars, handing, queueVars, opVars, ticket, holds,
                     caller, shut, late, sql>>
    BY DEF SkipTurn, QuotaKinds
<1>2. ThreadStep(o, y)
    BY <1>b, <1>1 DEF ThreadStep, Steps, Leaves, lists, quotaVars, queueVars
<1>3. /\ pc'[o] = y /\ started \subseteq Queues /\ ticket[o] = NoTicket /\ o \in holds
      /\ ticket[o] < serving
    BY <1>a, <1>b, <1>1 DEF TypeOK, Goto, StepOK, NoTicket
<1>4. StepOK(o)'
    BY <1>b, <1>1, <1>3 DEF StepOK, opVars
<1> QED BY <1>b, <1>2, <1>3, <1>4, PlainStepKeeps DEF quotaVars, queueVars

\* An operation without a ticket ends where it is.
LEMMA EndsHere ==
    ASSUME StorageInv, NEW o \in Ops, pc[o] \in {"check", "lockQuota"}, Finish(o),
           UNCHANGED <<seqVars, quotaVars, handing, queue, started, opVars, ticket,
                       holds, shut, late, sql>>
    PROVE  StorageInv'
<1>a. TypeOK /\ StepOK(o)
    BY InvParts
<1>1. Goto(o, "done") /\ Leaves(o, "done")
    BY FinishLeaves
<1>2. ThreadStep(o, "done")
    BY <1>1 DEF ThreadStep, Steps, lists, quotaVars
<1>3. pc'[o] = "done" /\ ticket[o] = NoTicket /\ started \subseteq Queues
    BY <1>a, <1>1 DEF TypeOK, Goto, StepOK
<1>4. StepOK(o)'
    BY <1>3 DEF StepOK
<1> QED BY <1>2, <1>3, <1>4, PlainStepKeeps DEF quotaVars

LEMMA SkipQuotaKeeps ==
    ASSUME StorageInv, NEW o \in Ops, SkipQuota(o)
    PROVE  StorageInv'
BY EndsHere DEF SkipQuota

LEMMA CheckClientKeeps ==
    ASSUME StorageInv, NEW o \in Ops, CheckClient(o)
    PROVE  StorageInv'
<1>a. TypeOK /\ StepOK(o) /\ PlaceInv
    BY InvParts
<1>b. /\ pc[o] = "check"
      /\ UNCHANGED <<seqVars, quotaVars, handing, queue, started, opVars, ticket,
                     holds, shut, late, sql>>
    BY DEF CheckClient
<1>1. CASE Goto(o, "ensure") /\ UNCHANGED <<caller, worker>>
    <2>1. Called(o) /\ started \subseteq Queues /\ ticket[o] = NoTicket
        BY <1>a, <1>b DEF PlaceInv, Placed, TypeOK, StepOK
    <2>2. ThreadStep(o, "ensure")
        BY <1>b, <1>1, <2>1 DEF ThreadStep, Steps, Leaves, lists, quotaVars
    <2>3. pc'[o] = "ensure"
        BY <1>a, <1>1 DEF TypeOK, Goto
    <2>4. StepOK(o)'
        BY <1>a, <1>b, <2>3 DEF StepOK, opVars
    <2> QED BY <1>b, <2>1, <2>2, <2>4, PlainStepKeeps DEF quotaVars
<1>2. CASE Finish(o)
    BY <1>b, <1>2, EndsHere
<1> QED BY <1>1, <1>2 DEF CheckClient

LEMMA SampleUsageKeeps ==
    ASSUME StorageInv, NEW o \in Ops, SampleUsage(o)
    PROVE  StorageInv'
<1>a. TypeOK /\ StepOK(o) /\ SequenceInv
    BY InvParts
<1>b. /\ pc[o] = "usage" /\ Goto(o, "submit")
      /\ UNCHANGED <<seqVars, quotaVars, handing, queueVars, opVars, ticket, holds,
                     caller, shut, late, sql>>
    BY DEF SampleUsage
<1>1. ThreadStep(o, "submit")
    BY <1>b DEF ThreadStep, Steps, Leaves, lists, quotaVars, queueVars
<1>2. pc'[o] = "submit" /\ started \subseteq Queues /\ ticket[o] < serving
    BY <1>a, <1>b DEF TypeOK, Goto, SequenceInv, PastTurn
<1>3. StepOK(o)'
    BY <1>a, <1>b, <1>2 DEF StepOK, opVars
<1> QED BY <1>b, <1>1, <1>2, <1>3, PlainStepKeeps DEF quotaVars, queueVars

LEMMA SubmitSqlKeeps ==
    ASSUME StorageInv, NEW o \in Ops, SubmitSql(o)
    PROVE  StorageInv'
<1>a. TypeOK /\ StepOK(o) /\ SequenceInv
    BY InvParts
<1>b. /\ pc[o] = "submit"
      /\ UNCHANGED <<seqVars, quotaVars, handing, queue, started, opVars, ticket,
                     holds, caller, shut, late, sql>>
    BY DEF SubmitSql
<1>1. PICK y \in {"sql", "unlock"} : Goto(o, y) /\ Leaves(o, y) /\ (y = "sql" => sql = "open")
    BY <1>b DEF SubmitSql, Leaves
<1>2. ThreadStep(o, y)
    BY <1>b, <1>1 DEF ThreadStep, Steps, lists, quotaVars
<1>3. pc'[o] = y /\ started \subseteq Queues /\ ticket[o] < serving
    BY <1>a, <1>b, <1>1 DEF TypeOK, Goto, SequenceInv, PastTurn
<1>4. StepOK(o)'
    BY <1>a, <1>b, <1>1, <1>3 DEF StepOK, opVars
<1> QED BY <1>b, <1>2, <1>3, <1>4, PlainStepKeeps DEF quotaVars

LEMMA SendFailsKeeps ==
    ASSUME StorageInv, NEW o \in Ops, SendFails(o)
    PROVE  StorageInv'
<1>a. TypeOK /\ StepOK(o) /\ SequenceInv
    BY InvParts
<1>b. /\ pc[o] = "send"
      /\ UNCHANGED <<seqVars, quotaVars, handing, queue, started, opVars, ticket,
                     holds, shut, late, sql>>
    BY DEF SendFails
<1>c. started \subseteq Queues
    BY <1>a DEF TypeOK
<1>d. ~(ticket[o] # NoTicket /\ ticket[o] < serving)
    BY <1>a, <1>b DEF SequenceInv, ServedOver
<1>1. CASE ticket[o] = NoTicket
    <2>1. Goto(o, "done") /\ Leaves(o, "done")
        BY <1>1, FinishLeaves DEF SendFails
    <2>2. ThreadStep(o, "done")
        BY <1>b, <2>1 DEF ThreadStep, Steps, lists, quotaVars
    <2>3. pc'[o] = "done"
        BY <1>a, <2>1 DEF TypeOK, Goto
    <2>4. StepOK(o)'
        BY <2>3 DEF StepOK
    <2> QED BY <1>b, <1>c, <1>1, <2>2, <2>4, PlainStepKeeps DEF quotaVars
<1>2. CASE ticket[o] # NoTicket /\ o \in holds
    <2>1. Goto(o, "unlock") /\ UNCHANGED <<caller, worker>>
        BY <1>2 DEF SendFails
    <2>2. ThreadStep(o, "unlock")
        BY <1>b, <2>1 DEF ThreadStep, Steps, Leaves, lists, quotaVars
    <2>3. pc'[o] = "unlock"
        BY <1>a, <2>1 DEF TypeOK, Goto
    <2>4. StepOK(o)'
        BY <1>b, <1>2, <2>3 DEF StepOK
    <2> QED BY <1>b, <1>c, <2>2, <2>4, PlainStepKeeps DEF quotaVars
<1>3. CASE ticket[o] # NoTicket /\ o \notin holds
    <2>1. Goto(o, "cancel") /\ UNCHANGED <<caller, worker>>
        BY <1>3 DEF SendFails
    <2>2. ThreadStep(o, "cancel")
        BY <1>b, <2>1 DEF ThreadStep, Steps, Leaves, lists, quotaVars
    <2>3. pc'[o] = "cancel"
        BY <1>a, <2>1 DEF TypeOK, Goto
    <2>4. StepOK(o)'
        BY <1>b, <1>3, <2>3 DEF StepOK
    <2> QED BY <1>b, <1>c, <1>d, <2>2, <2>4, PlainStepKeeps DEF quotaVars
<1> QED BY <1>1, <1>2, <1>3

LEMMA EnsureStartedKeeps ==
    ASSUME StorageInv, NEW o \in Ops, EnsureStarted(o)
    PROVE  StorageInv'
<1>a. TypeOK /\ StepOK(o) /\ PlaceInv
    BY InvParts
<1>b. /\ pc[o] = "ensure"
      /\ UNCHANGED <<seqVars, quotaVars, handing, queue, opVars, ticket, holds, shut, late, sql>>
    BY DEF EnsureStarted
<1>c. started \subseteq Queues /\ Called(o) /\ ticket[o] = NoTicket
    BY <1>a, <1>b DEF TypeOK, PlaceInv, Placed, StepOK
<1>1. CASE /\ started' = started \cup {"quota"} /\ Goto(o, "reserveAsync")
           /\ UNCHANGED <<caller, worker>>
    <2>1. ThreadStep(o, "reserveAsync")
        BY <1>b, <1>c, <1>1 DEF ThreadStep, Steps, Leaves, lists, quotaVars
    <2>2. pc'[o] = "reserveAsync" /\ started' \subseteq Queues
        BY <1>a, <1>c, <1>1 DEF TypeOK, Goto, Queues
    <2>3. StepOK(o)'
        BY <1>a, <1>b, <2>2 DEF StepOK, opVars
    <2> QED BY <1>b, <1>c, <2>1, <2>2, <2>3, PlainStepKeeps DEF quotaVars
<1>2. CASE Finish(o) /\ UNCHANGED started
    <2>1. Goto(o, "done") /\ Leaves(o, "done")
        BY <1>2, FinishLeaves
    <2>2. ThreadStep(o, "done")
        BY <1>b, <1>2, <2>1 DEF ThreadStep, Steps, lists, quotaVars
    <2>3. pc'[o] = "done"
        BY <1>a, <2>1 DEF TypeOK, Goto
    <2>4. StepOK(o)'
        BY <2>3 DEF StepOK
    <2> QED BY <1>b, <1>c, <1>2, <2>2, <2>4, PlainStepKeeps DEF quotaVars
<1> QED BY <1>1, <1>2 DEF EnsureStarted

\* A bucket is taken, by try_reserve or reserve.
LEMMA TakeQuotaKeeps ==
    ASSUME StorageInv, NEW o \in Ops, pc[o] \in {"tryQuota", "lockQuota"},
           bucket[o] \notin active, active' = active \cup {bucket[o]}, holds' = holds \cup {o},
           Goto(o, "ticket"),
           UNCHANGED <<seqVars, waiting, ready, draining, handing, queueVars, opVars,
                       ticket, caller, shut, late, sql>>
    PROVE  StorageInv'
<1>a. TypeOK /\ SequenceInv /\ StepInv /\ QuotaInv /\ StepOK(o)
    BY InvParts
<1>b. ThreadStep(o, "ticket")
    BY DEF ThreadStep, Steps, Leaves, lists, queueVars
<1>1. /\ Moved(o, "ticket") /\ pc' \in [Ops -> Steps]
      /\ ListInv' /\ PlaceInv' /\ StageInv'
    BY <1>b, ThreadStepKeeps
<1>2. TypeOK'
    BY <1>a, <1>1 DEF TypeOK, seqVars, queueVars, opVars
<1>3. ticket[o] = NoTicket
    BY <1>a DEF StepOK
<1>4. SequenceInv'
    BY <1>a, <1>1, <1>3, SequenceFrame
<1>5. StepOK(o)'
    <2>1. pc'[o] = "ticket"
        BY <1>1 DEF Moved
    <2> QED BY <1>3, <2>1 DEF StepOK
<1>6. StepInv'
    BY <1>a, <1>1, <1>5, StepFrame DEF opVars
<1>7. QuotaInv'
    BY <1>a, QuotaTaken DEF opVars
<1> QED BY <1>1, <1>2, <1>4, <1>6, <1>7 DEF StorageInv

LEMMA TryQuotaKeeps ==
    ASSUME StorageInv, NEW o \in Ops, TryQuota(o)
    PROVE  StorageInv'
<1>a. TypeOK /\ StepOK(o) /\ PlaceInv
    BY InvParts
<1>b. /\ pc[o] = "tryQuota"
      /\ UNCHANGED <<seqVars, waiting, ready, draining, handing, queueVars, opVars,
                     ticket, caller, shut, late, sql>>
    BY DEF TryQuota
<1>1. CASE bucket[o] \in active
    <2>1. Goto(o, "ensure") /\ UNCHANGED <<active, holds>>
        BY <1>1 DEF TryQuota
    <2>2. Called(o) /\ started \subseteq Queues /\ ticket[o] = NoTicket
        BY <1>a, <1>b DEF PlaceInv, Placed, TypeOK, StepOK
    <2>3. ThreadStep(o, "ensure")
        BY <1>b, <2>1, <2>2 DEF ThreadStep, Steps, Leaves, lists, queueVars
    <2>4. pc'[o] = "ensure"
        BY <1>a, <2>1 DEF TypeOK, Goto
    <2>5. StepOK(o)'
        BY <1>a, <1>b, <2>1, <2>4 DEF StepOK, opVars
    <2> QED BY <1>b, <2>1, <2>2, <2>3, <2>5, PlainStepKeeps DEF queueVars
<1>2. CASE bucket[o] \notin active
    BY <1>b, <1>2, TakeQuotaKeeps DEF TryQuota
<1> QED BY <1>1, <1>2

LEMMA LockQuotaKeeps ==
    ASSUME StorageInv, NEW o \in Ops, LockQuota(o)
    PROVE  StorageInv'
BY TakeQuotaKeeps DEF LockQuota

\* A call begins on a client that is in none.
LEMMA CallKeeps ==
    ASSUME StorageInv, NEW c \in Clients, NEW o \in Ops, Call(c, o)
    PROVE  StorageInv'
<1> DEFINE y == FirstStep(kind[o])
<1>a. TypeOK /\ SequenceInv /\ StepInv /\ QuotaInv /\ ListInv /\ PlaceInv /\ StageInv /\ StepOK(o)
    BY InvParts
<1>b. /\ (shut = "open" \/ (kind[o] = "sql" /\ ~late)) /\ caller[c] = None /\ pc[o] = "new"
      /\ caller' = [caller EXCEPT ![c] = o] /\ Goto(o, y)
      /\ UNCHANGED <<seqVars, quotaVars, handing, queueVars, opVars, ticket, holds, shut, late, sql>>
    BY DEF Call
<1>c. /\ kind[o] \in Kinds /\ caller \in [Clients -> Ops \cup {None}] /\ None \notin Ops
      /\ ticket[o] = NoTicket /\ o \notin holds
    BY <1>a, <1>b, StorageAssumption DEF TypeOK, StepOK
<1>d. \/ kind[o] = "sync" /\ y = "ticket"
      \/ kind[o] = "syncQuota" /\ y = "lockQuota"
      \/ kind[o] = "async" /\ y = "ticket"
      \/ kind[o] = "asyncQuota" /\ y = "tryQuota"
      \/ kind[o] = "delete" /\ y = "send"
      \/ kind[o] = "sql" /\ y = "check"
    <2>1. \A k \in Kinds :
              \/ k = "sync" /\ FirstStep(k) = "ticket"
              \/ k = "syncQuota" /\ FirstStep(k) = "lockQuota"
              \/ k = "async" /\ FirstStep(k) = "ticket"
              \/ k = "asyncQuota" /\ FirstStep(k) = "tryQuota"
              \/ k = "delete" /\ FirstStep(k) = "send"
              \/ k = "sql" /\ FirstStep(k) = "check"
        BY DEF FirstStep, Kinds
    <2> QED BY <1>c, <2>1
<1> HIDE DEF y
<1>1. Moved(o, y) /\ pc' \in [Ops -> Steps]
    <2>1. y \in Steps
        BY <1>d DEF Steps
    <2> QED BY <1>a, <1>b, <2>1, GotoMoves
<1>2. TypeOK'
    BY <1>a, <1>b, <1>1 DEF TypeOK, seqVars, quotaVars, queueVars, opVars
<1>3. SequenceInv'
    BY <1>a, <1>b, <1>c, <1>d, <1>1, SequenceFrame
<1>4. StepInv'
    <2>1. pc'[o] = y
        BY <1>1 DEF Moved
    <2>2. StepOK(o)'
        BY <1>b, <1>c, <1>d, <2>1 DEF StepOK, QuotaKinds, opVars
    <2> QED BY <1>a, <1>b, <1>1, <2>2, StepFrame DEF opVars
<1>5. QuotaInv'
    BY <1>a, <1>b, QuotaStill DEF quotaVars, opVars
<1>6. ListInv'
    BY <1>a, <1>b, <1>1, ListFrame DEF lists, quotaVars, queueVars
<1>7. PlaceInv'
    <2>1. \A p \in Ops : Called(p)' <=> Called(p) \/ p = o
        BY <1>b, <1>c DEF Called
    <2>2. \A p \in Ops : Worked(p)' <=> Worked(p)
        BY <1>b DEF Worked, queueVars
    <2>3. \A p \in Ops : pc'[p] = IF p = o THEN y ELSE pc[p]
        BY <1>1 DEF Moved
    <2>4. UNCHANGED <<waiting, ready, handing, queue, bucket, started, worker>>
        BY <1>b DEF quotaVars, queueVars, opVars
    <2>5. Placed'
        BY <1>a, <1>d, <2>1, <2>2, <2>3, <2>4 DEF PlaceInv, Placed
    <2>6. Threads'
        BY <1>a, <1>d, <2>3, <2>4 DEF PlaceInv, Threads
    <2> QED BY <2>5, <2>6 DEF PlaceInv
<1>8. StageInv'
    <2>1. UNCHANGED <<waiting, ready, handing, queue, worker, shut, late, sql, kind>>
        BY <1>b DEF quotaVars, queueVars, opVars
    <2>2. \A q \in Queues : QueueIdle(q) => QueueIdle(q)'
        BY <2>1 DEF QueueIdle
    <2>3. Quiet => Quiet'
        BY <2>1 DEF Quiet
    <2>4. \A p \in Ops : Called(p)' <=> Called(p) \/ p = o
        BY <1>b, <1>c DEF Called
    <2>5. Callers' /\ Barriers'
        BY <1>a, <1>b, <2>1, <2>4 DEF StageInv, Callers, Barriers, opVars
    <2> QED BY <1>a, <1>b, <2>1, <2>2, <2>3, <2>5 DEF StageInv, Queues
<1> QED BY <1>2, <1>3, <1>4, <1>5, <1>6, <1>7, <1>8 DEF StorageInv

LEMMA TakeTicketKeeps ==
    ASSUME StorageInv, NEW o \in Ops, TakeTicket(o)
    PROVE  StorageInv'
<1> DEFINE y == AfterTicket(o)
           S == {p \in Ops : ticket[p] # NoTicket}
<1>a. TypeOK /\ SequenceInv /\ StepInv /\ QuotaInv /\ StepOK(o)
    BY InvParts
<1>b. /\ pc[o] = "ticket" /\ ticket' = [ticket EXCEPT ![o] = nextTicket]
      /\ nextTicket' = nextTicket + 1 /\ Goto(o, y)
      /\ UNCHANGED <<serving, cancelled, quotaVars, handing, queueVars, opVars,
                     holds, caller, shut, late, sql>>
    BY DEF TakeTicket
<1>c. \/ y = "send" /\ kind[o] \in {"async", "asyncQuota"} /\ Called(o)
      \/ y = "enter"
    BY DEF AfterTicket, Called
<1> HIDE DEF y
<1>d. ThreadStep(o, y)
    <2>1. \A p \in Ops : p # o => ticket'[p] = ticket[p]
        BY <1>a, <1>b DEF TypeOK
    <2> QED BY <1>b, <1>c, <2>1 DEF ThreadStep, Steps, Leaves, lists, quotaVars, queueVars
<1>1. /\ Moved(o, y) /\ pc' \in [Ops -> Steps]
      /\ ListInv' /\ PlaceInv' /\ StageInv'
    BY <1>d, ThreadStepKeeps
<1>2. /\ ticket \in [Ops -> {NoTicket} \cup 0 .. (nextTicket - 1)] /\ nextTicket \in Nat
      /\ serving \in 0 .. nextTicket /\ cancelled \subseteq 0 .. (nextTicket - 1)
      /\ ticket[o] = NoTicket
    BY <1>a, <1>b DEF TypeOK, StepOK
<1>3. nextTicket # NoTicket
    BY <1>2 DEF NoTicket
<1>4. /\ {p \in Ops : ticket'[p] # NoTicket} = S \cup {o} /\ o \notin S
      /\ S \subseteq Ops /\ S \cup {o} \subseteq Ops
    BY <1>b, <1>2, <1>3
<1>5. Cardinality(S) = nextTicket
    BY <1>a DEF SequenceInv, TicketsCounted
<1> HIDE DEF S
<1>6. IsFiniteSet(Ops) /\ IsFiniteSet(S)
    BY <1>4, StorageAssumption, FS_Subset
<1>7. Cardinality(S \cup {o}) = nextTicket + 1
    BY <1>4, <1>5, <1>6, FS_AddElement
<1>8. Cardinality(S \cup {o}) <= Cardinality(Ops) /\ Cardinality(Ops) \in Nat
    BY <1>4, <1>6, FS_Subset, FS_CardinalityType
<1>9. TypeOK'
    <2>1. nextTicket' \in 0 .. Cardinality(Ops) /\ serving' \in 0 .. nextTicket'
          /\ cancelled' \subseteq 0 .. (nextTicket' - 1)
        BY <1>b, <1>2, <1>7, <1>8
    <2>2. ticket' \in [Ops -> {NoTicket} \cup 0 .. (nextTicket' - 1)]
        BY <1>b, <1>2
    <2> QED BY <1>a, <1>b, <1>1, <2>1, <2>2 DEF TypeOK, quotaVars, queueVars, opVars
<1>10. SequenceInv'
    <2>a. TicketsDistinct /\ ServedOver /\ RunsAtTurn /\ CancelledOver /\ NoOrphanTicket /\ PastTurn
        BY <1>a DEF SequenceInv
    <2>b. /\ \A p \in Ops : pc'[p] = IF p = o THEN y ELSE pc[p]
          /\ \A p \in Ops : ticket'[p] = IF p = o THEN nextTicket ELSE ticket[p]
          /\ \A p \in Ops : ticket[p] # nextTicket
          /\ UNCHANGED <<serving, cancelled>>
        BY <1>b, <1>1, <1>2, <1>3 DEF Moved
    <2>1. TicketsDistinct'
        BY <2>a, <2>b DEF TicketsDistinct
    <2>2. TicketsCounted'
        BY <1>b, <1>4, <1>7 DEF TicketsCounted
    <2>3. ServedOver'
        BY <1>2, <2>a, <2>b DEF ServedOver
    <2>4. RunsAtTurn' /\ PastTurn'
        BY <1>c, <2>a, <2>b DEF RunsAtTurn, PastTurn
    <2>5. CancelledOver'
        <3>1. nextTicket \notin cancelled
            BY <1>2
        <3> QED BY <2>a, <2>b, <3>1 DEF CancelledOver
    <2>6. NoOrphanTicket'
        <3> SUFFICES ASSUME NEW t \in serving .. nextTicket, t \notin cancelled
                     PROVE  \E p \in Ops : ticket'[p] = t /\ pc'[p] # "done"
            BY <1>b, <1>2, <2>a, <2>b DEF NoOrphanTicket
        <3>1. CASE t = nextTicket
            BY <1>c, <2>b, <3>1
        <3>2. CASE t # nextTicket
            <4>1. t \in serving .. (nextTicket - 1) /\ t # NoTicket
                BY <1>2, <3>2 DEF NoTicket
            <4>2. PICK p \in Ops : ticket[p] = t /\ pc[p] # "done"
                BY <2>a, <4>1 DEF NoOrphanTicket
            <4> QED BY <1>2, <2>b, <4>1, <4>2
        <3> QED BY <3>1, <3>2
    <2> QED BY <2>1, <2>2, <2>3, <2>4, <2>5, <2>6 DEF SequenceInv
<1>11. StepInv'
    <2>1. pc'[o] = y /\ ticket'[o] # NoTicket
        BY <1>b, <1>1, <1>2, <1>3 DEF Moved
    <2>2. StepOK(o)'
        BY <1>b, <1>c, <2>1 DEF StepOK, opVars
    <2> QED BY <1>a, <1>b, <1>d, <1>1, <2>2, StepFrame DEF ThreadStep, opVars
<1>12. QuotaInv'
    BY <1>a, <1>b, QuotaStill DEF quotaVars, opVars
<1> QED BY <1>1, <1>9, <1>10, <1>11, <1>12 DEF StorageInv

LEMMA RangeStart == \A a, b \in Nat : a < b => a \in a .. (b - 1)
OBVIOUS

\* The ticket served advances past C, from s on, when o is through with its own.
LEMMA ServeKeeps ==
    ASSUME TypeOK, SequenceInv, NEW o \in Ops, NEW y \in Over, Moved(o, y),
           NEW s \in 0 .. nextTicket, NEW C, C \subseteq 0 .. (nextTicket - 1), Serve(s, C),
           UNCHANGED <<nextTicket, ticket>>,
           \A p \in Ops : ticket[p] # NoTicket /\ ticket[p] < s => pc'[p] \in Over,
           \A p \in Ops : pc'[p] = "run" => ticket[p] = s /\ s \notin C,
           \A t \in C : \A p \in Ops : ticket[p] = t => pc'[p] = "done",
           \A t \in s .. (nextTicket - 1) :
               t \in C \/ \E p \in Ops : ticket[p] = t /\ pc'[p] # "done",
           \A p \in Ops : pc'[p] \in SqlSteps => ticket[p] < s
    PROVE  /\ SequenceInv'
           /\ serving' \in 0 .. nextTicket /\ cancelled' \subseteq 0 .. (nextTicket - 1)
<1>a. nextTicket \in Nat /\ ticket \in [Ops -> {NoTicket} \cup 0 .. (nextTicket - 1)]
    BY DEF TypeOK
<1>b. /\ serving' \in s .. nextTicket /\ serving' \notin C
      /\ \A m \in s .. (serving' - 1) : m \in C
      /\ cancelled' = {t \in C : t >= serving'}
    BY <1>a, AdvancedFacts DEF Serve
<1>1. TicketsDistinct' /\ TicketsCounted'
    BY DEF SequenceInv, TicketsDistinct, TicketsCounted
<1>2. ServedOver'
    <2> SUFFICES ASSUME NEW p \in Ops, ticket[p] # NoTicket, ticket[p] < serving'
                 PROVE  pc'[p] \in Over
        BY DEF ServedOver
    <2>1. CASE ticket[p] < s
        BY <2>1
    <2>2. CASE ~(ticket[p] < s)
        <3>1. ticket[p] \in s .. (serving' - 1)
            BY <1>a, <1>b, <2>2
        <3> QED BY <1>b, <3>1
    <2> QED BY <2>1, <2>2
<1>3. RunsAtTurn'
    <2> SUFFICES ASSUME NEW p \in Ops, pc'[p] = "run" PROVE ticket[p] = serving'
        BY DEF RunsAtTurn
    <2>1. ticket[p] = s /\ s \notin C
        OBVIOUS
    <2>2. ~(s \in s .. (serving' - 1))
        BY <1>b, <2>1
    <2>3. s \in Nat /\ serving' \in Nat /\ s <= serving'
        BY <1>a, <1>b
    <2>4. ~(s < serving')
        <3> SUFFICES ASSUME s < serving' PROVE FALSE
            OBVIOUS
        <3>1. s \in s .. (serving' - 1)
            BY <2>3, RangeStart
        <3> QED BY <2>2, <3>1
    <2>5. s = serving'
        BY <2>3, <2>4
    <2> QED BY <2>1, <2>5
<1>4. CancelledOver'
    <2> SUFFICES ASSUME NEW t \in cancelled'
                 PROVE  t > serving' /\ \A p \in Ops : ticket[p] = t => pc'[p] = "done"
        BY DEF CancelledOver
    <2>1. t \in C /\ t >= serving' /\ t # serving' /\ t \in Nat /\ serving' \in Nat
        BY <1>a, <1>b
    <2> QED BY <2>1
<1>5. NoOrphanTicket'
    <2> SUFFICES ASSUME NEW t \in serving' .. (nextTicket - 1), t \notin cancelled'
                 PROVE  \E p \in Ops : ticket[p] = t /\ pc'[p] # "done"
        BY <1>b DEF NoOrphanTicket
    <2>1. t \in s .. (nextTicket - 1) /\ t \notin C
        BY <1>a, <1>b
    <2> QED BY <2>1
<1>7. PastTurn'
    <2>1. \A p \in Ops : ticket[p] \in Int /\ (ticket[p] < s => ticket[p] < serving')
        BY <1>a, <1>b DEF NoTicket
    <2> QED BY <2>1 DEF PastTurn
<1>6. serving' \in 0 .. nextTicket /\ cancelled' \subseteq 0 .. (nextTicket - 1)
    <2>1. serving' \in 0 .. nextTicket
        BY <1>a, <1>b
    <2>2. cancelled' \subseteq C
        BY <1>b
    <2> QED BY <2>1, <2>2
<1> QED BY <1>1, <1>2, <1>3, <1>4, <1>5, <1>6, <1>7 DEF SequenceInv

\* A step that gives a ticket back, on the thread of o.
LEMMA TicketStepKeeps ==
    ASSUME StorageInv, NEW o \in Ops, NEW y \in {"usage", "unlock", "done"}, ThreadStep(o, y), SequenceInv',
           serving' \in 0 .. nextTicket, cancelled' \subseteq 0 .. (nextTicket - 1),
           UNCHANGED <<nextTicket, ticket, active, holds, started>>, 
           y \in {"usage", "unlock"} => o \in holds, y = "usage" => kind[o] = "sql"
    PROVE  StorageInv'
<1>a. TypeOK /\ StepInv /\ QuotaInv
    BY InvParts
<1>1. /\ Moved(o, y) /\ pc' \in [Ops -> Steps]
      /\ caller' \in [Clients -> Ops \cup {None}] /\ worker' \in [Queues -> Ops \cup {None}]
      /\ ListInv' /\ PlaceInv' /\ StageInv'
    BY ThreadStepKeeps
<1>2. TypeOK'
    BY <1>a, <1>1 DEF TypeOK, ThreadStep, lists, opVars
<1>3. StepInv'
    <2>1. pc'[o] = y
        BY <1>1 DEF Moved
    <2>2. StepOK(o)'
        BY <2>1 DEF StepOK, ThreadStep, opVars
    <2> QED BY <1>a, <1>1, <2>2, StepFrame DEF ThreadStep, opVars
<1>4. QuotaInv'
    BY <1>a, QuotaStill DEF ThreadStep, lists, opVars
<1> QED BY <1>1, <1>2, <1>3, <1>4 DEF StorageInv

LEMMA EndTurnKeeps ==
    ASSUME StorageInv, NEW o \in Ops, EndTurn(o)
    PROVE  StorageInv'
<1>a. TypeOK /\ SequenceInv /\ StepOK(o)
    BY InvParts
<1>b. /\ pc[o] = "run" /\ Serve(serving + 1, cancelled)
      /\ UNCHANGED <<nextTicket, quotaVars, handing, queue, started, opVars, ticket,
                     holds, shut, late, sql>>
    BY DEF EndTurn
<1>1. PICK y \in {"usage", "unlock", "done"} :
          /\ Goto(o, y) /\ Leaves(o, y)
          /\ y \in {"usage", "unlock"} => o \in holds
          /\ y = "usage" => kind[o] = "sql"
    BY FinishLeaves DEF EndTurn, Leaves
<1>e. y \in Over
    OBVIOUS
<1>2. ThreadStep(o, y)
    BY <1>b, <1>1 DEF ThreadStep, Steps, lists, quotaVars
<1>3. Moved(o, y)
    BY <1>2, ThreadStepKeeps
<1>c. \A p \in Ops : pc'[p] = IF p = o THEN y ELSE pc[p]
    BY <1>3 DEF Moved
<1>4. /\ ticket \in [Ops -> {NoTicket} \cup 0 .. (nextTicket - 1)] /\ nextTicket \in Nat
      /\ serving \in 0 .. nextTicket /\ cancelled \subseteq 0 .. (nextTicket - 1)
    BY <1>a DEF TypeOK
<1>5. ticket[o] = serving /\ ticket[o] # NoTicket
    BY <1>a, <1>b DEF SequenceInv, RunsAtTurn, StepOK
<1>6. serving + 1 \in 0 .. nextTicket
    BY <1>4, <1>5
<1>d. TicketsDistinct /\ ServedOver /\ RunsAtTurn /\ CancelledOver /\ NoOrphanTicket /\ PastTurn
    BY <1>a DEF SequenceInv
<1>7. \A p \in Ops : p # o => ticket[p] # serving
    BY <1>5, <1>d DEF TicketsDistinct
<1>8. \A p \in Ops : ticket[p] # NoTicket /\ ticket[p] < serving + 1 => pc'[p] \in Over
    <2> SUFFICES ASSUME NEW p \in Ops, ticket[p] # NoTicket, ticket[p] < serving + 1
                 PROVE  pc'[p] \in Over
        OBVIOUS
    <2>1. ticket[p] < serving \/ ticket[p] = serving
        BY <1>4
    <2> QED BY <1>c, <1>d, <1>e, <1>7, <2>1 DEF ServedOver
<1>9. \A p \in Ops : pc'[p] # "run"
    BY <1>c, <1>d, <1>7 DEF RunsAtTurn
<1>10. \A t \in cancelled : \A p \in Ops : ticket[p] = t => pc'[p] = "done"
    BY <1>b, <1>c, <1>d DEF CancelledOver
<1>11. \A t \in (serving + 1) .. (nextTicket - 1) :
           t \in cancelled \/ \E p \in Ops : ticket[p] = t /\ pc'[p] # "done"
    <2> SUFFICES ASSUME NEW t \in (serving + 1) .. (nextTicket - 1), t \notin cancelled
                 PROVE  \E p \in Ops : ticket[p] = t /\ pc'[p] # "done"
        OBVIOUS
    <2>1. t \in serving .. (nextTicket - 1) /\ t # serving
        BY <1>4
    <2>2. PICK p \in Ops : ticket[p] = t /\ pc[p] # "done"
        BY <1>d, <2>1 DEF NoOrphanTicket
    <2> QED BY <1>5, <1>c, <2>1, <2>2
<1>13. \A p \in Ops : pc'[p] \in SqlSteps => ticket[p] < serving + 1
    <2> SUFFICES ASSUME NEW p \in Ops, pc'[p] \in SqlSteps PROVE ticket[p] < serving + 1
        OBVIOUS
    <2>1. ticket[p] = serving \/ ticket[p] < serving
        BY <1>c, <1>d, <1>5 DEF PastTurn
    <2> QED BY <1>4, <2>1 DEF NoTicket
<1>12. SequenceInv' /\ serving' \in 0 .. nextTicket /\ cancelled' \subseteq 0 .. (nextTicket - 1)
    BY <1>a, <1>b, <1>e, <1>3, <1>4, <1>6, <1>8, <1>9, <1>10, <1>11, <1>13, ServeKeeps
<1> QED BY <1>b, <1>1, <1>2, <1>12, TicketStepKeeps DEF quotaVars

LEMMA CancelKeeps ==
    ASSUME StorageInv, NEW o \in Ops, Cancel(o)
    PROVE  StorageInv'
<1> DEFINE C == cancelled \cup {ticket[o]}
<1>a. TypeOK /\ SequenceInv /\ StepOK(o)
    BY InvParts
<1>b. /\ pc[o] = "cancel" /\ Serve(serving, C) /\ Finish(o)
      /\ UNCHANGED <<nextTicket, quotaVars, handing, queue, started, opVars, ticket,
                     holds, shut, late, sql>>
    BY DEF Cancel
<1>1. Goto(o, "done") /\ Leaves(o, "done")
    BY <1>b, FinishLeaves
<1>2. ThreadStep(o, "done")
    BY <1>b, <1>1 DEF ThreadStep, Steps, lists, quotaVars
<1>3. Moved(o, "done")
    BY <1>2, ThreadStepKeeps
<1>c. \A p \in Ops : pc'[p] = IF p = o THEN "done" ELSE pc[p]
    BY <1>3 DEF Moved
<1>4. /\ ticket \in [Ops -> {NoTicket} \cup 0 .. (nextTicket - 1)] /\ nextTicket \in Nat
      /\ serving \in 0 .. nextTicket /\ cancelled \subseteq 0 .. (nextTicket - 1)
    BY <1>a DEF TypeOK
<1>5. ticket[o] # NoTicket
    BY <1>a, <1>b DEF StepOK
<1>6. C \subseteq 0 .. (nextTicket - 1)
    BY <1>4, <1>5
<1>d. TicketsDistinct /\ ServedOver /\ RunsAtTurn /\ CancelledOver /\ NoOrphanTicket /\ PastTurn
    BY <1>a DEF SequenceInv
<1>7. \A p \in Ops : p # o => ticket[p] # ticket[o]
    BY <1>5, <1>d DEF TicketsDistinct
<1>8. \A p \in Ops : ticket[p] # NoTicket /\ ticket[p] < serving => pc'[p] \in Over
    BY <1>c, <1>d DEF ServedOver
<1>13. \A p \in Ops : pc'[p] \in SqlSteps => ticket[p] < serving
    BY <1>c, <1>d DEF PastTurn
<1>9. \A p \in Ops : pc'[p] = "run" => ticket[p] = serving /\ serving \notin C
    BY <1>c, <1>d, <1>7 DEF RunsAtTurn, NoOrphanTicket
<1>10. \A t \in C : \A p \in Ops : ticket[p] = t => pc'[p] = "done"
    BY <1>c, <1>d, <1>7 DEF CancelledOver
<1>11. \A t \in serving .. (nextTicket - 1) :
           t \in C \/ \E p \in Ops : ticket[p] = t /\ pc'[p] # "done"
    BY <1>c, <1>d DEF NoOrphanTicket
<1> HIDE DEF C
<1>12. SequenceInv' /\ serving' \in 0 .. nextTicket /\ cancelled' \subseteq 0 .. (nextTicket - 1)
    BY <1>a, <1>b, <1>3, <1>4, <1>6, <1>8, <1>9, <1>10, <1>11, <1>13, ServeKeeps
<1> QED BY <1>b, <1>2, <1>12, TicketStepKeeps DEF quotaVars

\* The thread of o gives its bucket back, nobody waits for it.
LEMMA QuotaGivenUp ==
    ASSUME TypeOK, QuotaInv, NEW o \in holds, waiting[bucket[o]] = <<>>,
           active' = active \ {bucket[o]}, holds' = holds \ {o}, UNCHANGED <<waiting, bucket>>
    PROVE  QuotaInv'
<1>a. OwnersDistinct /\ OwnedActive /\ WaitedActive /\ holds \subseteq Ops
    BY DEF QuotaInv, TypeOK
<1>1. OwnersDistinct'
    BY <1>a DEF OwnersDistinct
<1>2. OwnedActive'
    BY <1>a DEF OwnedActive, OwnersDistinct
<1>3. WaitedActive'
    BY <1>a DEF WaitedActive
<1> QED BY <1>1, <1>2, <1>3 DEF QuotaInv

\* The bucket of o goes to h, who waits for it.
LEMMA QuotaHandedOver ==
    ASSUME TypeOK, QuotaInv, NEW o \in holds, NEW h \in Ops, bucket[h] = bucket[o], h \notin holds,
           waiting[bucket[o]] # <<>>,
           holds' = (holds \ {o}) \cup {h}, UNCHANGED <<active, bucket>>,
           \A b \in Buckets : b # bucket[o] => waiting'[b] = waiting[b]
    PROVE  QuotaInv'
<1>a. OwnersDistinct /\ OwnedActive /\ WaitedActive /\ holds \subseteq Ops
      /\ bucket \in [Ops -> Buckets]
    BY DEF QuotaInv, TypeOK
<1>1. OwnersDistinct'
    BY <1>a DEF OwnersDistinct
<1>2. OwnedActive'
    BY <1>a DEF OwnedActive, OwnersDistinct
<1>3. WaitedActive'
    BY <1>a DEF WaitedActive
<1> QED BY <1>1, <1>2, <1>3 DEF QuotaInv

\* What happens to o once its bucket is released.
LEMMA AfterUnlockFacts ==
    ASSUME StorageInv, NEW o \in Ops, pc[o] \in {"unlock", "sql"}, AfterUnlock(o)
    PROVE  \E y \in {"cancel", "done"} :
               /\ Goto(o, y) /\ Leaves(o, y)
               /\ y = "done" <=> ticket[o] < serving
               /\ y = "cancel" => ticket[o] # NoTicket
               /\ pc[o] = "sql" => y = "done"
<1>3. pc[o] = "sql" => ticket[o] < serving
    BY InvParts DEF SequenceInv, PastTurn
<1>1. CASE ticket[o] < serving
    BY <1>1, FinishLeaves DEF AfterUnlock
<1>2. CASE ~(ticket[o] < serving)
    <2>1. serving \in Nat
        BY InvParts DEF TypeOK
    <2>2. ticket[o] # NoTicket
        BY <1>2, <2>1 DEF NoTicket
    <2> QED BY <1>2, <1>3, <2>2 DEF AfterUnlock, Leaves
<1> QED BY <1>1, <1>2

\* A hand-over is under way or a callback pending: shutdown is not past it.
LEMMA NotQuiet ==
    ASSUME StageInv, ~Quiet
    PROVE  shut \notin {"io", "closed"} /\ (late => shut # "quota")
BY DEF StageInv

LEMMA UnlockKeeps ==
    ASSUME StorageInv, NEW o \in Ops, Unlock(o)
    PROVE  StorageInv'
<1> DEFINE b == bucket[o]
           h == Head(waiting[b])
<1>a. TypeOK /\ SequenceInv /\ StepInv /\ QuotaInv /\ ListInv /\ PlaceInv /\ StageInv /\ StepOK(o)
    BY InvParts
<1>b. /\ pc[o] \in {"unlock", "sql"} /\ AfterUnlock(o)
      /\ UNCHANGED <<seqVars, handing, queue, started, opVars, ticket, shut, late, sql>>
    BY DEF Unlock
<1>1. PICK y \in {"cancel", "done"} :
          /\ Goto(o, y) /\ Leaves(o, y)
          /\ y = "done" <=> ticket[o] < serving
          /\ y = "cancel" => ticket[o] # NoTicket
          /\ pc[o] = "sql" => y = "done"
    BY <1>b, AfterUnlockFacts
<1>2. Moved(o, y) /\ pc' \in [Ops -> Steps]
    <2>1. y \in Steps
        BY DEF Steps
    <2> QED BY <1>a, <1>1, <2>1, GotoMoves
<1>c. \A p \in Ops : pc'[p] = IF p = o THEN y ELSE pc[p]
    BY <1>2 DEF Moved
<1>3. SequenceInv'
    BY <1>a, <1>b, <1>1, <1>2, SequenceFrame
<1>4. /\ o \in holds /\ b \in Buckets /\ holds \subseteq Ops /\ waiting \in [Buckets -> Seq(Ops)]
      /\ ready \in Seq(Ops) /\ bucket \in [Ops -> Buckets] /\ None \notin Ops
    BY <1>a, <1>b, StorageAssumption DEF StepOK, TypeOK
<1>5. CASE waiting[b] = <<>>
    <2>1. /\ active' = active \ {b} /\ holds' = holds \ {o} /\ UNCHANGED <<waiting, ready, draining>>
        BY <1>5 DEF Unlock
    <2>2. ThreadStep(o, y)
        BY <1>b, <1>1, <2>1 DEF ThreadStep, Steps, lists
    <2>3. /\ caller' \in [Clients -> Ops \cup {None}] /\ worker' \in [Queues -> Ops \cup {None}]
          /\ ListInv' /\ PlaceInv' /\ StageInv'
        BY <2>2, ThreadStepKeeps
    <2>4. QuotaInv'
        BY <1>a, <1>b, <1>4, <1>5, <2>1, QuotaGivenUp DEF opVars
    <2>5. TypeOK'
        BY <1>a, <1>b, <1>2, <2>1, <2>3 DEF TypeOK, seqVars, opVars
    <2>6. StepOK(o)'
        BY <1>b, <1>c, <1>1 DEF StepOK
    <2>7. StepInv'
        BY <1>a, <1>b, <1>2, <2>1, <2>6, StepFrame DEF opVars
    <2> QED BY <1>3, <2>3, <2>4, <2>5, <2>7 DEF StorageInv
<1>6. CASE waiting[b] # <<>>
    <2> HIDE DEF b, h
    <2>1. /\ holds' = (holds \ {o}) \cup {h} /\ waiting' = [waiting EXCEPT ![b] = Tail(@)]
          /\ ready' = Append(ready, h) /\ draining' = TRUE /\ UNCHANGED active
        BY <1>6 DEF Unlock, b, h
    <2>2. /\ waiting[b] \in Seq(Ops) /\ Tail(waiting[b]) \in Seq(Ops) /\ h \in Ops
          /\ \A p : Has(waiting[b], p) <=> Has(Tail(waiting[b]), p) \/ p = h
          /\ Once(waiting[b]) => Once(Tail(waiting[b])) /\ ~Has(Tail(waiting[b]), h)
        BY <1>4, <1>6, Taken DEF h
    <2>3. waiting'[b] = Tail(waiting[b]) /\ \A a \in Buckets : a # b => waiting'[a] = waiting[a]
        BY <1>4, <2>1
    <2>d. WaitersKnown /\ ReadyKnown /\ QueuedKnown
        BY <1>a DEF ListInv
    <2>4. pc[h] = "waitQuota" /\ bucket[h] = b /\ h \notin holds /\ h # o
        BY <1>4, <1>b, <2>2, <2>d DEF WaitersKnown
    <2>5. ~Has(ready, h) /\ handing # h
        BY <2>2, <2>4, <1>4, <2>d DEF ReadyKnown
    <2>6. /\ ready' \in Seq(Ops) /\ \A p : Has(ready', p) <=> Has(ready, p) \/ p = h
          /\ Once(ready) => Once(ready')
        BY <1>4, <2>1, <2>2, <2>5, Appended
    <2>7. caller' \in [Clients -> Ops \cup {None}] /\ worker' \in [Queues -> Ops \cup {None}]
          /\ (\A p \in Ops : p # o => (Called(p)' <=> Called(p)) /\ (Worked(p)' <=> Worked(p)))
          /\ (y # "done" => (Called(o)' <=> Called(o)) /\ (Worked(o)' <=> Worked(o)))
          /\ (\A p \in Ops : Called(p)' => Called(p))
          /\ (\A q \in Queues : worker[q] = None => worker'[q] = None)
        BY <1>a, <1>1, LeavesFacts
    <2>8. \A p \in Ops : p \in holds' <=> p = h \/ (p \in holds /\ p # o)
        BY <2>1
    <2>9. TypeOK'
        <3>1. waiting' \in [Buckets -> Seq(Ops)]
            BY <1>4, <2>1, <2>2
        <3> QED BY <1>a, <1>b, <1>2, <2>1, <2>2, <2>6, <2>7, <3>1 DEF TypeOK, seqVars, opVars
    <2>10. StepInv'
        <3>1. StepOK(o)'
            BY <1>b, <1>c, <1>1 DEF StepOK
        <3>2. \A p \in Ops : p # o /\ p # h => StepOK(p)'
            BY <1>a, <1>b, <1>c, <2>8 DEF StepInv, StepOK, opVars
        <3>3. \A p \in Ops : p = h => StepOK(p)'
            <4> SUFFICES ASSUME NEW p \in Ops, p = h PROVE StepOK(p)'
                OBVIOUS
            <4>1. StepOK(p) /\ pc[p] = "waitQuota" /\ pc'[p] = "waitQuota"
                BY <1>a, <1>c, <2>4 DEF StepInv
            <4> QED BY <1>b, <4>1 DEF StepOK, opVars
        <3>4. \A p \in Ops : p = o => StepOK(p)'
            BY <3>1 DEF StepOK
        <3> QED BY <3>2, <3>3, <3>4 DEF StepInv
    <2>11. QuotaInv'
        BY <1>a, <1>b, <1>4, <1>6, <2>1, <2>2, <2>3, <2>4, QuotaHandedOver DEF opVars, b
    <2>12. ListInv'
        <3>1. WaitersKnown'
            <4> SUFFICES ASSUME NEW a \in Buckets
                         PROVE  /\ Once(waiting'[a])
                                /\ \A p \in Ops : Has(waiting'[a], p) =>
                                       pc'[p] = "waitQuota" /\ bucket[p] = a /\ p \notin holds'
                BY <1>b DEF WaitersKnown, opVars
            <4>1. /\ Once(waiting[a])
                  /\ \A p \in Ops : Has(waiting[a], p) =>
                         pc[p] = "waitQuota" /\ bucket[p] = a /\ p \notin holds
                BY <2>d DEF WaitersKnown
            <4>2. CASE a = b
                BY <1>b, <1>c, <2>2, <2>3, <2>8, <4>1, <4>2
            <4>3. CASE a # b
                BY <1>b, <1>c, <2>3, <2>4, <2>8, <4>1, <4>3
            <4> QED BY <4>2, <4>3
        <3>2. ReadyKnown'
            <4>1. handing \in Ops \cup {None}
                BY <1>a DEF TypeOK
            <4> QED BY <1>b, <1>c, <2>1, <2>2, <2>4, <2>5, <2>6, <2>8, <2>d, <4>1 DEF ReadyKnown
        <3>3. QueuedKnown'
            BY <1>b, <1>c, <2>4, <2>8, <2>d DEF QueuedKnown, opVars
        <3> QED BY <3>1, <3>2, <3>3 DEF ListInv
    <2>13. PlaceInv'
        <3>a. Placed /\ Threads
            BY <1>a DEF PlaceInv
        <3>1. \A p \in Ops : pc'[p] \notin Apart => Called(p)' \/ Worked(p)'
            <4> SUFFICES ASSUME NEW p \in Ops, pc'[p] \notin Apart
                         PROVE  Called(p)' \/ Worked(p)'
                OBVIOUS
            <4>1. Called(p) \/ Worked(p)
                BY <1>b, <1>c, <1>1, <3>a DEF Placed
            <4>2. p = o => y # "done"
                BY <1>c
            <4> QED BY <2>7, <4>1, <4>2
        <3>2. \A p \in Ops : pc'[p] \in {"tryQuota", "check", "ensure", "reserveAsync", "send"} => Called(p)'
            BY <1>c, <2>7, <3>a DEF Placed
        <3>3. \A p \in Ops : pc'[p] = "queued" => \E q \in Queues : Has(queue'[q], p)
            BY <1>b, <1>c, <3>a DEF Placed
        <3>4. \A p \in Ops : pc'[p] = "waitQuota" =>
                  Has(waiting'[bucket[p]], p) \/ Has(ready', p) \/ handing' = p
            <4> SUFFICES ASSUME NEW p \in Ops, pc'[p] = "waitQuota", p # h
                         PROVE  Has(waiting'[bucket[p]], p) \/ Has(ready', p) \/ handing' = p
                BY <2>6
            <4>1. Has(waiting[bucket[p]], p) \/ Has(ready, p) \/ handing = p
                BY <1>c, <3>a DEF Placed
            <4>2. bucket[p] \in Buckets
                BY <1>4
            <4> QED BY <1>b, <2>2, <2>3, <2>6, <4>1, <4>2
        <3>5. Placed'
            BY <1>b, <3>1, <3>2, <3>3, <3>4 DEF Placed, opVars
        <3>6. Threads'
            BY <1>b, <1>c, <2>7, <3>a DEF Threads
        <3> QED BY <3>5, <3>6 DEF PlaceInv
    <2>14. StageInv'
        <3>1. shut \notin {"io", "closed"} /\ (late => shut # "quota")
            BY <1>a, <1>4, <1>6, NotQuiet DEF Quiet
        <3>2. QueueIdle("maintenance") => QueueIdle("maintenance")'
            BY <1>b, <2>7 DEF QueueIdle, Queues
        <3>3. Callers' /\ Barriers'
            BY <1>a, <1>b, <2>7 DEF StageInv, Callers, Barriers, opVars
        <3> QED BY <1>a, <1>b, <3>1, <3>2, <3>3 DEF StageInv
    <2> QED BY <1>3, <2>9, <2>10, <2>11, <2>12, <2>13, <2>14 DEF StorageInv
<1> QED BY <1>5, <1>6

\* While a client is in a call that is not a Blob read's, shutdown has not begun
\* and no barrier is about.
LEMMA CalledOpen ==
    ASSUME StageInv, NEW o \in Ops, Called(o), kind[o] # "sql"
    PROVE  shut = "open" /\ ~late /\ \A q \in Queues : ~Has(queue[q], Barrier)
<1>1. shut = "open" /\ ~late
    BY DEF StageInv, Callers
<1>2. \A q \in Queues : q # "open"
    BY DEF Queues
<1> QED BY <1>1, <1>2 DEF StageInv, Barriers

LEMMA OpenStage ==
    ASSUME shut = "open", ~late, UNCHANGED <<shut, late>>,
           \A q \in Queues : ~Has(queue'[q], Barrier)
    PROVE  StageInv'
<1>1. \A q \in Queues : BarrierLast(queue'[q])
    BY DEF BarrierLast, Has
<1> QED BY <1>1 DEF StageInv, Callers, Barriers

\* The call of o returns.
LEMMA ReturnFacts ==
    ASSUME TypeOK, NEW o \in Ops, Return(o)
    PROVE  /\ caller' \in [Clients -> Ops \cup {None}]
           /\ \A p \in Ops : p # o => (Called(p)' <=> Called(p))
           /\ ~Called(o)'
BY StorageAssumption DEF TypeOK, Return, Called

LEMMA SendKeeps ==
    ASSUME StorageInv, NEW o \in Ops, Send(o)
    PROVE  StorageInv'
<1>a. TypeOK /\ SequenceInv /\ StepInv /\ QuotaInv /\ ListInv /\ PlaceInv /\ StageInv /\ StepOK(o)
    BY InvParts
<1>1. PICK L : L = Lane(o)
    OBVIOUS
<1>b. /\ pc[o] = "send" /\ started' = started \cup {L}
      /\ queue' = [queue EXCEPT ![L] = Append(@, o)] /\ Goto(o, "queued") /\ Return(o)
      /\ UNCHANGED <<seqVars, quotaVars, handing, worker, opVars, ticket, holds, shut, late, sql>>
    BY <1>1 DEF Send
<1>2. \/ L = "maintenance" /\ kind[o] = "delete" /\ ticket[o] = NoTicket /\ o \notin holds
      \/ L = "io" /\ ticket[o] # NoTicket
    <2>1. CASE kind[o] = "delete" /\ ticket[o] = NoTicket /\ o \notin holds
        BY <1>1, <2>1 DEF Lane
    <2>2. CASE kind[o] \in {"async", "asyncQuota"} /\ ticket[o] # NoTicket
        <3>1. kind[o] # "delete" /\ ~(kind[o] \in {"asyncQuota", "sql"} /\ ticket[o] = NoTicket)
            BY <2>2
        <3>2. Lane(o) = "io"
            BY <3>1 DEF Lane
        <3> QED BY <1>1, <2>2, <3>2
    <2> QED BY <1>a, <1>b, <2>1, <2>2 DEF StepOK
<1>3. L \in Queues /\ o # Barrier
    BY <1>2, StorageAssumption DEF Queues
<1>4. /\ queue \in [Queues -> Seq(Ops \cup {Barrier})] /\ queue[L] \in Seq(Ops \cup {Barrier})
      /\ o \in Ops \cup {Barrier}
    BY <1>a, <1>3 DEF TypeOK
<1>5. /\ Append(queue[L], o) \in Seq(Ops \cup {Barrier}) /\ Append(queue[L], o) # <<>>
      /\ \A p : Has(Append(queue[L], o), p) <=> Has(queue[L], p) \/ p = o
      /\ Once(queue[L]) /\ ~Has(queue[L], o) => Once(Append(queue[L], o))
      /\ BarrierLast(queue[L]) /\ ~Has(queue[L], Barrier) => BarrierLast(Append(queue[L], o))
    BY <1>4, Appended
<1>6. queue'[L] = Append(queue[L], o) /\ \A q \in Queues : q # L => queue'[q] = queue[q]
    BY <1>b, <1>3, <1>4
<1>7. Moved(o, "queued") /\ pc' \in [Ops -> Steps]
    BY <1>a, <1>b, GotoMoves DEF Steps
<1>c. \A p \in Ops : pc'[p] = IF p = o THEN "queued" ELSE pc[p]
    BY <1>7 DEF Moved
<1>8. /\ caller' \in [Clients -> Ops \cup {None}]
      /\ \A p \in Ops : p # o => (Called(p)' <=> Called(p))
    BY <1>a, <1>b, ReturnFacts
<1>9. TypeOK'
    <2>1. queue' \in [Queues -> Seq(Ops \cup {Barrier})] /\ started' \subseteq Queues
        BY <1>a, <1>b, <1>3, <1>4, <1>5 DEF TypeOK
    <2> QED BY <1>a, <1>b, <1>7, <1>8, <2>1 DEF TypeOK, seqVars, quotaVars, opVars
<1>10. SequenceInv'
    <2>1. ~(ticket[o] # NoTicket /\ ticket[o] < serving)
        BY <1>a, <1>b DEF SequenceInv, ServedOver
    <2> QED BY <1>a, <1>b, <1>7, <2>1, SequenceFrame
<1>11. StepInv'
    <2>1. StepOK(o)'
        BY <1>c DEF StepOK
    <2> QED BY <1>a, <1>b, <1>7, <2>1, StepFrame DEF opVars
<1>12. QuotaInv'
    BY <1>a, <1>b, QuotaStill DEF quotaVars, opVars
<1>d. WaitersKnown /\ ReadyKnown /\ QueuedKnown /\ handing \in Ops \cup {None}
    BY <1>a DEF ListInv, TypeOK
<1>13. ListInv'
    <2>1. \A q \in Queues : ~Has(queue[q], o)
        BY <1>b, <1>d DEF QueuedKnown
    <2>2. WaitersKnown'
        BY <1>b, <1>c, <1>d DEF WaitersKnown, quotaVars, opVars
    <2>3. ReadyKnown'
        BY <1>b, <1>c, <1>d DEF ReadyKnown, quotaVars
    <2>4. QueuedKnown'
        <3> SUFFICES ASSUME NEW q \in Queues
                     PROVE  /\ Once(queue'[q])
                            /\ \A p \in Ops : Has(queue'[q], p) =>
                                 /\ pc'[p] = "queued"
                                 /\ q = "io" => ticket[p] # NoTicket
                                 /\ q = "quota" => ticket[p] = NoTicket /\ kind[p] \in AsyncKinds /\ p \in holds
                                 /\ q = "maintenance" => ticket[p] = NoTicket /\ kind[p] = "delete" /\ p \notin holds
            BY <1>b DEF QueuedKnown, opVars
        <3>1. /\ Once(queue[q])
              /\ \A p \in Ops : Has(queue[q], p) =>
                   /\ pc[p] = "queued"
                   /\ q = "io" => ticket[p] # NoTicket
                   /\ q = "quota" => ticket[p] = NoTicket /\ kind[p] \in AsyncKinds /\ p \in holds
                   /\ q = "maintenance" => ticket[p] = NoTicket /\ kind[p] = "delete" /\ p \notin holds
            BY <1>d DEF QueuedKnown
        <3>2. CASE q = L
            BY <1>2, <1>5, <1>6, <1>c, <2>1, <3>1, <3>2
        <3>3. CASE q # L
            BY <1>6, <1>c, <3>1, <3>3
        <3> QED BY <3>2, <3>3
    <2> QED BY <2>2, <2>3, <2>4 DEF ListInv
<1>14. PlaceInv'
    <2>a. Placed /\ Threads
        BY <1>a DEF PlaceInv
    <2>1. \A p \in Ops : Worked(p)' <=> Worked(p)
        BY <1>b DEF Worked
    <2>2. \A q \in Queues, p \in Ops : Has(queue[q], p) => Has(queue'[q], p)
        BY <1>5, <1>6
    <2>3. Has(queue'[L], o)
        BY <1>5, <1>6
    <2>4. \A p \in Ops : pc'[p] = "queued" => \E q \in Queues : Has(queue'[q], p)
        BY <1>3, <1>c, <2>2, <2>3, <2>a DEF Placed
    <2>5. Placed'
        BY <1>b, <1>c, <1>8, <2>1, <2>4, <2>a DEF Placed, quotaVars, opVars
    <2>6. Threads'
        BY <1>b, <1>c, <1>6, <2>a DEF Threads
    <2> QED BY <2>5, <2>6 DEF PlaceInv
<1>15. StageInv'
    <2>1. Called(o) /\ kind[o] # "sql"
        BY <1>a, <1>b DEF PlaceInv, Placed, StepOK
    <2>2. shut = "open" /\ ~late /\ \A q \in Queues : ~Has(queue[q], Barrier)
        BY <1>a, <2>1, CalledOpen
    <2>3. \A q \in Queues : ~Has(queue'[q], Barrier)
        BY <1>3, <1>5, <1>6, <2>2
    <2> QED BY <1>b, <2>2, <2>3, OpenStage
<1> QED BY <1>9, <1>10, <1>11, <1>12, <1>13, <1>14, <1>15 DEF StorageInv

LEMMA ReserveAsyncKeeps ==
    ASSUME StorageInv, NEW o \in Ops, ReserveAsync(o)
    PROVE  StorageInv'
<1>a. TypeOK /\ SequenceInv /\ StepInv /\ QuotaInv /\ ListInv /\ PlaceInv /\ StageInv /\ StepOK(o)
    BY InvParts
<1>b. /\ pc[o] = "reserveAsync" /\ Goto(o, "waitQuota") /\ Return(o)
      /\ UNCHANGED <<seqVars, handing, queueVars, opVars, ticket, shut, late, sql>>
    BY DEF ReserveAsync
<1>1. /\ ticket[o] = NoTicket /\ o \notin holds /\ kind[o] \in AsyncKinds
      /\ "quota" \in started /\ Called(o)
    BY <1>a, <1>b DEF StepOK, PlaceInv, Placed, Threads
<1>2. Moved(o, "waitQuota") /\ pc' \in [Ops -> Steps]
    BY <1>a, <1>b, GotoMoves DEF Steps
<1>c. \A p \in Ops : pc'[p] = IF p = o THEN "waitQuota" ELSE pc[p]
    BY <1>2 DEF Moved
<1>3. /\ caller' \in [Clients -> Ops \cup {None}]
      /\ \A p \in Ops : p # o => (Called(p)' <=> Called(p))
      /\ ~Called(o)'
    BY <1>a, <1>b, ReturnFacts
<1>4. SequenceInv'
    BY <1>a, <1>b, <1>1, <1>2, SequenceFrame
<1>5. StageInv'
    <2>1. ~late /\ shut \notin {"io", "closed"}
        BY <1>a, <1>1 DEF StageInv, Callers
    <2>2. QueueIdle("maintenance") => QueueIdle("maintenance")'
        BY <1>b DEF QueueIdle, queueVars
    <2>3. Callers' /\ Barriers'
        BY <1>a, <1>b, <1>3 DEF StageInv, Callers, Barriers, queueVars, opVars
    <2> QED BY <1>a, <1>b, <2>1, <2>2, <2>3 DEF StageInv
<1>6. StepInv'
    <2>1. StepOK(o)'
        BY <1>b, <1>c, <1>1 DEF StepOK, opVars
    <2>2. \A p \in Ops : p # o => (p \in holds' <=> p \in holds)
        BY DEF ReserveAsync
    <2> QED BY <1>a, <1>b, <1>2, <2>1, <2>2, StepFrame DEF opVars
<1>d. WaitersKnown /\ ReadyKnown /\ QueuedKnown /\ Placed /\ Threads
    BY <1>a DEF ListInv, PlaceInv
<1>7. /\ (\A q \in Queues : ~Has(queue[q], o)) /\ (\A b \in Buckets : ~Has(waiting[b], o))
      /\ ~Has(ready, o) /\ handing # o
    BY <1>b, <1>d, StorageAssumption DEF QueuedKnown, WaitersKnown, ReadyKnown
<1>8. /\ waiting \in [Buckets -> Seq(Ops)] /\ ready \in Seq(Ops) /\ bucket \in [Ops -> Buckets]
      /\ handing \in Ops \cup {None} /\ bucket[o] \in Buckets /\ waiting[bucket[o]] \in Seq(Ops)
    BY <1>a DEF TypeOK
<1>9. QueuedKnown'
    <2>1. \A p \in Ops : p # o => (p \in holds' <=> p \in holds)
        BY DEF ReserveAsync
    <2> QED BY <1>b, <1>c, <1>d, <1>7, <2>1 DEF QueuedKnown, queueVars, opVars
<1>10. Threads'
    BY <1>b, <1>c, <1>d, <1>1 DEF Threads, queueVars
<1>11. /\ \A p \in Ops : pc'[p] \notin Apart => Called(p)' \/ Worked(p)'
       /\ \A p \in Ops : pc'[p] \in {"tryQuota", "check", "ensure", "reserveAsync", "send"} => Called(p)'
       /\ \A p \in Ops : pc'[p] = "queued" => \E q \in Queues : Has(queue'[q], p)
    <2>1. \A p \in Ops : Worked(p)' <=> Worked(p)
        BY <1>b DEF Worked, queueVars
    <2> QED BY <1>b, <1>c, <1>d, <1>3, <2>1 DEF Placed, queueVars
<1>12. CASE bucket[o] \in active
    <2>1. /\ waiting' = [waiting EXCEPT ![bucket[o]] = Append(@, o)]
          /\ UNCHANGED <<active, ready, draining, holds>>
        BY <1>12 DEF ReserveAsync
    <2>2. /\ Append(waiting[bucket[o]], o) \in Seq(Ops)
          /\ \A p : Has(Append(waiting[bucket[o]], o), p) <=> Has(waiting[bucket[o]], p) \/ p = o
          /\ Once(waiting[bucket[o]]) /\ ~Has(waiting[bucket[o]], o) =>
                 Once(Append(waiting[bucket[o]], o))
        BY <1>8, Appended
    <2>3. /\ waiting'[bucket[o]] = Append(waiting[bucket[o]], o)
          /\ \A b \in Buckets : b # bucket[o] => waiting'[b] = waiting[b]
          /\ waiting' \in [Buckets -> Seq(Ops)]
        BY <1>8, <2>1, <2>2
    <2>4. TypeOK'
        BY <1>a, <1>b, <1>2, <1>3, <2>1, <2>3 DEF TypeOK, seqVars, queueVars, opVars
    <2>5. QuotaInv'
        BY <1>a, <1>b, <1>12, <2>1, <2>3
           DEF QuotaInv, OwnersDistinct, OwnedActive, WaitedActive, opVars
    <2>6. WaitersKnown'
        <3> SUFFICES ASSUME NEW b \in Buckets
                     PROVE  /\ Once(waiting'[b])
                            /\ \A p \in Ops : Has(waiting'[b], p) =>
                                   pc'[p] = "waitQuota" /\ bucket[p] = b /\ p \notin holds
            BY <1>b, <2>1 DEF WaitersKnown, opVars
        <3>1. /\ Once(waiting[b])
              /\ \A p \in Ops : Has(waiting[b], p) =>
                     pc[p] = "waitQuota" /\ bucket[p] = b /\ p \notin holds
            BY <1>d DEF WaitersKnown
        <3>2. CASE b = bucket[o]
            BY <1>c, <1>1, <1>7, <2>2, <2>3, <3>1, <3>2
        <3>3. CASE b # bucket[o]
            BY <1>c, <2>3, <3>1, <3>3
        <3> QED BY <3>2, <3>3
    <2>7. ReadyKnown'
        BY <1>b, <1>c, <1>d, <1>7, <1>8, <2>1 DEF ReadyKnown
    <2>8. \A p \in Ops : pc'[p] = "waitQuota" =>
              Has(waiting'[bucket[p]], p) \/ Has(ready', p) \/ handing' = p
        <3> SUFFICES ASSUME NEW p \in Ops, pc'[p] = "waitQuota"
                     PROVE  Has(waiting'[bucket[p]], p) \/ Has(ready', p) \/ handing' = p
            OBVIOUS
        <3>1. p = o \/ Has(waiting[bucket[p]], p) \/ Has(ready, p) \/ handing = p
            BY <1>c, <1>d DEF Placed
        <3>2. bucket[p] \in Buckets
            BY <1>8
        <3> QED BY <1>b, <2>1, <2>2, <2>3, <3>1, <3>2
    <2>9. Placed'
        BY <1>b, <1>11, <2>8 DEF Placed, opVars
    <2> QED BY <1>4, <1>5, <1>6, <1>9, <1>10, <2>4, <2>5, <2>6, <2>7, <2>9
            DEF StorageInv, ListInv, PlaceInv
<1>13. CASE bucket[o] \notin active
    <2>1. /\ active' = active \cup {bucket[o]} /\ holds' = holds \cup {o}
          /\ ready' = Append(ready, o) /\ draining' = TRUE /\ UNCHANGED waiting
        BY <1>13 DEF ReserveAsync
    <2>2. /\ ready' \in Seq(Ops) /\ \A p : Has(ready', p) <=> Has(ready, p) \/ p = o
          /\ Once(ready) => Once(ready')
        BY <1>7, <1>8, <2>1, Appended
    <2>3. TypeOK'
        BY <1>a, <1>b, <1>2, <1>3, <1>8, <2>1, <2>2 DEF TypeOK, seqVars, queueVars, opVars
    <2>4. QuotaInv'
        BY <1>a, <1>b, <1>13, <2>1, QuotaTaken DEF opVars
    <2>5. WaitersKnown'
        BY <1>b, <1>c, <1>d, <1>7, <2>1 DEF WaitersKnown, opVars
    <2>6. ReadyKnown'
        BY <1>b, <1>c, <1>d, <1>7, <1>8, <2>1, <2>2 DEF ReadyKnown
    <2>7. Placed'
        BY <1>b, <1>c, <1>d, <1>11, <2>1, <2>2 DEF Placed, opVars
    <2> QED BY <1>4, <1>5, <1>6, <1>9, <1>10, <2>3, <2>4, <2>5, <2>6, <2>7
            DEF StorageInv, ListInv, PlaceInv
<1> QED BY <1>12, <1>13

------------------------------------------------------------------------------
(* drain_ready and the workers.                                            *)

LEMMA StepStill ==
    ASSUME StepInv, UNCHANGED <<pc, ticket, holds, kind, sql>>
    PROVE  StepInv'
BY DEF StepInv, StepOK

LEMMA DrainPopKeeps ==
    ASSUME StorageInv, DrainPop
    PROVE  StorageInv'
<1>a. TypeOK /\ SequenceInv /\ StepInv /\ QuotaInv /\ ListInv /\ PlaceInv /\ StageInv
    BY InvParts
<1>b. /\ draining /\ handing = None /\ ready # <<>> /\ handing' = Head(ready) /\ ready' = Tail(ready)
      /\ UNCHANGED <<seqVars, active, waiting, draining, queueVars, pc, opVars,
                     ticket, holds, caller, shut, late, sql>>
    BY DEF DrainPop
<1>1. ready \in Seq(Ops) /\ None \notin Ops
    BY <1>a, StorageAssumption DEF TypeOK
<1>2. /\ ready' \in Seq(Ops) /\ handing' \in Ops
      /\ \A p : Has(ready, p) <=> Has(ready', p) \/ p = handing'
      /\ Once(ready) => Once(ready') /\ ~Has(ready', handing')
    BY <1>b, <1>1, Taken
<1>3. TypeOK'
    BY <1>a, <1>b, <1>2 DEF TypeOK, seqVars, queueVars, opVars
<1>4. SequenceInv' /\ StepInv' /\ QuotaInv'
    BY <1>a, <1>b, SequenceStill, StepStill, QuotaStill DEF opVars
<1>5. ListInv'
    <2>1. WaitersKnown' /\ QueuedKnown'
        BY <1>a, <1>b DEF ListInv, WaitersKnown, QueuedKnown, opVars, queueVars
    <2>2. ReadyKnown'
        BY <1>a, <1>b, <1>2 DEF ListInv, ReadyKnown
    <2> QED BY <2>1, <2>2 DEF ListInv
<1>6. PlaceInv'
    <2>1. \A p \in Ops : (Called(p)' <=> Called(p)) /\ (Worked(p)' <=> Worked(p))
        BY <1>b DEF Called, Worked, queueVars
    <2>2. Placed'
        BY <1>a, <1>b, <1>1, <1>2, <2>1 DEF PlaceInv, Placed, opVars, queueVars
    <2>3. Threads'
        BY <1>a, <1>b DEF PlaceInv, Threads, queueVars
    <2> QED BY <2>2, <2>3 DEF PlaceInv
<1>7. StageInv'
    <2>1. shut \notin {"io", "closed"} /\ (late => shut # "quota")
        BY <1>a, <1>b, NotQuiet DEF Quiet
    <2>2. QueueIdle("maintenance") => QueueIdle("maintenance")'
        BY <1>b DEF QueueIdle, queueVars
    <2>3. Callers' /\ Barriers'
        BY <1>a, <1>b DEF StageInv, Callers, Barriers, Called, queueVars, opVars
    <2> QED BY <1>a, <1>b, <2>1, <2>2, <2>3 DEF StageInv
<1> QED BY <1>3, <1>4, <1>5, <1>6, <1>7 DEF StorageInv

LEMMA DrainCallKeeps ==
    ASSUME StorageInv, DrainCall
    PROVE  StorageInv'
<1>a. TypeOK /\ SequenceInv /\ StepInv /\ QuotaInv /\ ListInv /\ PlaceInv /\ StageInv
    BY InvParts
<1>1. PICK h \in Ops : handing = h
    BY <1>a DEF DrainCall, TypeOK
<1>b. /\ queue' = [queue EXCEPT !["quota"] = Append(@, h)] /\ Goto(h, "queued") /\ handing' = None
      /\ UNCHANGED <<seqVars, quotaVars, started, worker, opVars, ticket, holds,
                     caller, shut, late, sql>>
    BY <1>1 DEF DrainCall
<1>c. None \notin Ops /\ Barrier \notin Ops /\ h # None /\ h # Barrier /\ "quota" \in Queues
    BY StorageAssumption DEF Queues
<1>d. WaitersKnown /\ ReadyKnown /\ QueuedKnown /\ Placed /\ Threads
    BY <1>a DEF ListInv, PlaceInv
<1>2. pc[h] = "waitQuota" /\ h \in holds /\ ~Has(ready, h) /\ "quota" \in started
    BY <1>1, <1>c, <1>d DEF ReadyKnown, Threads
<1>3. ticket[h] = NoTicket /\ kind[h] \in AsyncKinds
    BY <1>a, <1>2 DEF StepInv, StepOK
<1>4. /\ queue \in [Queues -> Seq(Ops \cup {Barrier})] /\ queue["quota"] \in Seq(Ops \cup {Barrier})
      /\ h \in Ops \cup {Barrier}
    BY <1>a, <1>c DEF TypeOK
<1>5. PICK s : s = Append(queue["quota"], h)
    OBVIOUS
<1>6. /\ s \in Seq(Ops \cup {Barrier})
      /\ \A p : Has(s, p) <=> Has(queue["quota"], p) \/ p = h
      /\ Once(queue["quota"]) /\ ~Has(queue["quota"], h) => Once(s)
      /\ BarrierLast(queue["quota"]) /\ ~Has(queue["quota"], Barrier) => BarrierLast(s)
    BY <1>4, <1>5, Appended
<1>7. /\ queue'["quota"] = s /\ (\A q \in Queues : q # "quota" => queue'[q] = queue[q])
      /\ queue' \in [Queues -> Seq(Ops \cup {Barrier})]
    BY <1>b, <1>c, <1>4, <1>5, <1>6
<1>8. Moved(h, "queued") /\ pc' \in [Ops -> Steps]
    BY <1>a, <1>b, GotoMoves DEF Steps
<1>e. \A p \in Ops : pc'[p] = IF p = h THEN "queued" ELSE pc[p]
    BY <1>8 DEF Moved
<1>9. TypeOK'
    BY <1>a, <1>b, <1>7, <1>8 DEF TypeOK, seqVars, quotaVars, opVars
<1>10. SequenceInv'
    BY <1>a, <1>b, <1>2, <1>3, <1>8, SequenceFrame
<1>11. StepInv'
    <2>1. StepOK(h)'
        BY <1>e DEF StepOK
    <2> QED BY <1>a, <1>b, <1>8, <2>1, StepFrame DEF opVars
<1>12. QuotaInv'
    BY <1>a, <1>b, QuotaStill DEF quotaVars, opVars
<1>13. ListInv'
    <2>1. \A q \in Queues : ~Has(queue[q], h)
        BY <1>2, <1>d DEF QueuedKnown
    <2>2. WaitersKnown'
        BY <1>b, <1>d, <1>e, <1>2 DEF WaitersKnown, quotaVars, opVars
    <2>3. ReadyKnown'
        BY <1>b, <1>c, <1>d, <1>e, <1>2 DEF ReadyKnown, quotaVars
    <2>4. QueuedKnown'
        <3>1. \A q \in Queues : q # "quota" =>
                  /\ Once(queue'[q])
                  /\ \A p \in Ops : Has(queue'[q], p) =>
                       /\ pc'[p] = "queued"
                       /\ q = "io" => ticket[p] # NoTicket
                       /\ q = "maintenance" => ticket[p] = NoTicket /\ kind[p] = "delete" /\ p \notin holds
            BY <1>d, <1>e, <1>7, <2>1 DEF QueuedKnown
        <3>2. /\ Once(s)
              /\ \A p \in Ops : Has(s, p) =>
                   pc'[p] = "queued" /\ ticket[p] = NoTicket /\ kind[p] \in AsyncKinds /\ p \in holds
            BY <1>c, <1>d, <1>e, <1>2, <1>3, <1>6, <2>1 DEF QueuedKnown
        <3> QED BY <1>b, <1>7, <3>1, <3>2 DEF QueuedKnown, opVars
    <2> QED BY <2>2, <2>3, <2>4 DEF ListInv
<1>14. PlaceInv'
    <2>1. \A p \in Ops : (Called(p)' <=> Called(p)) /\ (Worked(p)' <=> Worked(p))
        BY <1>b DEF Called, Worked
    <2>2. \A p \in Ops : pc'[p] = "queued" => \E q \in Queues : Has(queue'[q], p)
        <3>1. \A q \in Queues, p \in Ops : Has(queue[q], p) => Has(queue'[q], p)
            BY <1>6, <1>7
        <3>2. Has(queue'["quota"], h)
            BY <1>6, <1>7
        <3> QED BY <1>c, <1>d, <1>e, <3>1, <3>2 DEF Placed
    <2>3. \A p \in Ops : pc'[p] = "waitQuota" =>
              Has(waiting'[bucket'[p]], p) \/ Has(ready', p) \/ handing' = p
        BY <1>1, <1>b, <1>d, <1>e DEF Placed, quotaVars, opVars
    <2>4. Placed'
        BY <1>d, <1>e, <2>1, <2>2, <2>3 DEF Placed
    <2>5. Threads'
        BY <1>b, <1>d, <1>e, <1>2, <1>7 DEF Threads
    <2> QED BY <2>4, <2>5 DEF PlaceInv
<1>15. StageInv'
    <2>1. shut \notin {"io", "closed"} /\ (late => shut # "quota")
        BY <1>a, <1>1, <1>c, NotQuiet DEF Quiet
    <2>2. QueueIdle("maintenance") => QueueIdle("maintenance")'
        BY <1>b, <1>7 DEF QueueIdle, Queues
    <2>3. Barriers'
        <3>1. late => ~Has(queue["quota"], Barrier)
            BY <1>a, <1>c, <2>1 DEF StageInv, Barriers
        <3>2. UNCHANGED <<shut, late>>
            BY <1>b
        <3> QED BY <1>a, <1>c, <1>6, <1>7, <3>1, <3>2 DEF StageInv, Barriers
    <2>4. Callers'
        BY <1>a, <1>b DEF StageInv, Callers, Called, opVars
    <2> QED BY <1>a, <1>b, <2>1, <2>2, <2>3, <2>4 DEF StageInv
<1> QED BY <1>9, <1>10, <1>11, <1>12, <1>13, <1>14, <1>15 DEF StorageInv

LEMMA DrainEndKeeps ==
    ASSUME StorageInv, DrainEnd
    PROVE  StorageInv'
<1>a. TypeOK /\ SequenceInv /\ StepInv /\ QuotaInv /\ ListInv /\ PlaceInv /\ StageInv
    BY InvParts
<1>b. /\ handing = None /\ ready = <<>> /\ draining' = FALSE
      /\ UNCHANGED <<seqVars, active, waiting, ready, handing, queueVars, pc,
                     opVars, ticket, holds, caller, shut, late, sql>>
    BY DEF DrainEnd
<1>1. TypeOK'
    BY <1>a, <1>b DEF TypeOK, seqVars, queueVars, opVars
<1>2. SequenceInv' /\ StepInv' /\ QuotaInv'
    BY <1>a, <1>b, SequenceStill, StepStill, QuotaStill DEF opVars
<1>3. ListInv'
    BY <1>a, <1>b DEF ListInv, WaitersKnown, ReadyKnown, QueuedKnown, opVars, queueVars
<1>4. PlaceInv'
    BY <1>a, <1>b DEF PlaceInv, Placed, Threads, Called, Worked, queueVars, opVars
<1>5. StageInv'
    BY <1>a, <1>b DEF StageInv, Callers, Barriers, Called, QueueIdle, Quiet, queueVars, opVars
<1> QED BY <1>1, <1>2, <1>3, <1>4, <1>5 DEF StorageInv

LEMMA TakeJobKeeps ==
    ASSUME StorageInv, NEW q \in Queues, TakeJob(q)
    PROVE  StorageInv'
<1>a. TypeOK /\ SequenceInv /\ StepInv /\ QuotaInv /\ ListInv /\ PlaceInv /\ StageInv
    BY InvParts
<1>1. /\ queue \in [Queues -> Seq(Ops \cup {Barrier})] /\ queue[q] \in Seq(Ops \cup {Barrier})
      /\ queue[q] # <<>> /\ Head(queue[q]) # Barrier
    BY <1>a DEF TypeOK, TakeJob
<1>2. PICK s : s = Tail(queue[q])
    OBVIOUS
<1>3. Head(queue[q]) \in Ops
    BY <1>1, Taken
<1>4. PICK j \in Ops : j = Head(queue[q])
    BY <1>3
<1>5. /\ s \in Seq(Ops \cup {Barrier})
      /\ \A p : Has(queue[q], p) <=> Has(s, p) \/ p = j
      /\ Once(queue[q]) => Once(s) /\ ~Has(s, j)
      /\ BarrierLast(queue[q]) => BarrierLast(s)
    BY <1>1, <1>2, <1>4, Taken
<1>6. PICK y : y = AfterTake(q)
    OBVIOUS
<1>b. /\ worker[q] = None /\ worker' = [worker EXCEPT ![q] = j]
      /\ queue' = [queue EXCEPT ![q] = Tail(@)] /\ Goto(j, y)
      /\ UNCHANGED <<seqVars, quotaVars, handing, started, opVars, ticket, holds,
                     caller, shut, late, sql>>
    BY <1>4, <1>6 DEF TakeJob
<1>c. \/ q = "io" /\ y = "enter"
      \/ q = "quota" /\ y = "ticket"
      \/ q = "maintenance" /\ y = "lockQuota"
    <2>1. \A r \in Queues :
              \/ r = "io" /\ AfterTake(r) = "enter"
              \/ r = "quota" /\ AfterTake(r) = "ticket"
              \/ r = "maintenance" /\ AfterTake(r) = "lockQuota"
        BY DEF AfterTake, Queues
    <2> QED BY <1>6, <2>1
<1>d. WaitersKnown /\ ReadyKnown /\ QueuedKnown /\ Placed /\ Threads
    BY <1>a DEF ListInv, PlaceInv
<1>7. /\ pc[j] = "queued"
      /\ q = "io" => ticket[j] # NoTicket
      /\ q = "quota" => ticket[j] = NoTicket /\ kind[j] \in AsyncKinds /\ j \in holds
      /\ q = "maintenance" => ticket[j] = NoTicket /\ kind[j] = "delete" /\ j \notin holds
    BY <1>5, <1>d DEF QueuedKnown
<1>8. /\ queue'[q] = s /\ (\A r \in Queues : r # q => queue'[r] = queue[r])
      /\ queue' \in [Queues -> Seq(Ops \cup {Barrier})]
    BY <1>b, <1>1, <1>2, <1>5
<1>9. /\ worker'[q] = j /\ (\A r \in Queues : r # q => worker'[r] = worker[r])
      /\ worker' \in [Queues -> Ops \cup {None}] /\ None \notin Ops
    BY <1>a, <1>b, StorageAssumption DEF TypeOK
<1>10. Moved(j, y) /\ pc' \in [Ops -> Steps]
    <2>1. y \in Steps
        BY <1>c DEF Steps
    <2> QED BY <1>a, <1>b, <2>1, GotoMoves
<1>e. \A p \in Ops : pc'[p] = IF p = j THEN y ELSE pc[p]
    BY <1>10 DEF Moved
<1>11. TypeOK'
    BY <1>a, <1>b, <1>8, <1>9, <1>10 DEF TypeOK, seqVars, quotaVars, opVars
<1>12. SequenceInv'
    <2>1. ~(ticket[j] # NoTicket /\ ticket[j] < serving)
        BY <1>a, <1>7 DEF SequenceInv, ServedOver
    <2> QED BY <1>a, <1>b, <1>c, <1>7, <1>10, <2>1, SequenceFrame
<1>13. StepInv'
    <2>1. pc'[j] = y
        BY <1>e
    <2>2. StepOK(j)'
        BY <1>b, <1>c, <1>7, <2>1 DEF StepOK, opVars
    <2> QED BY <1>a, <1>b, <1>10, <2>2, StepFrame DEF opVars
<1>14. QuotaInv'
    BY <1>a, <1>b, QuotaStill DEF quotaVars, opVars
<1>15. ListInv'
    <2>1. \A r \in Queues : r # q => ~Has(queue[r], j)
        BY <1>7, <1>d DEF QueuedKnown, Queues
    <2>2. WaitersKnown'
        BY <1>b, <1>d, <1>e, <1>7 DEF WaitersKnown, quotaVars, opVars
    <2>3. ReadyKnown'
        <3>1. handing \in Ops \cup {None}
            BY <1>a DEF TypeOK
        <3> QED BY <1>b, <1>d, <1>e, <1>7, <3>1 DEF ReadyKnown, quotaVars
    <2>4. \A r \in Queues, p \in Ops : Has(queue'[r], p) => Has(queue[r], p) /\ p # j
        BY <1>5, <1>8, <1>d, <2>1 DEF QueuedKnown
    <2>5. \A r \in Queues : Once(queue'[r])
        BY <1>5, <1>8, <1>d DEF QueuedKnown
    <2>6. QueuedKnown'
        BY <1>b, <1>d, <1>e, <2>4, <2>5 DEF QueuedKnown, opVars
    <2> QED BY <2>2, <2>3, <2>6 DEF ListInv
<1>16. PlaceInv'
    <2>1. \A p \in Ops : Called(p)' <=> Called(p)
        BY <1>b DEF Called
    <2>2. \A p \in Ops : Worked(p)' <=> Worked(p) \/ p = j
        BY <1>b, <1>9 DEF Worked
    <2>3. \A p \in Ops : pc'[p] = "queued" => \E r \in Queues : Has(queue'[r], p)
        <3>1. \A r \in Queues, p \in Ops : Has(queue[r], p) => Has(queue'[r], p) \/ p = j
            BY <1>5, <1>8
        <3>2. y # "queued"
            BY <1>c
        <3> QED BY <1>d, <1>e, <3>1, <3>2 DEF Placed
    <2>4. Placed'
        BY <1>b, <1>c, <1>d, <1>e, <2>1, <2>2, <2>3 DEF Placed, quotaVars, opVars
    <2>5. q \in started
        BY <1>1, <1>d DEF Threads
    <2>6. Threads'
        BY <1>b, <1>c, <1>d, <1>e, <1>8, <1>9, <2>5 DEF Threads
    <2> QED BY <2>4, <2>6 DEF PlaceInv
<1>17. StageInv'
    <2>1. ~QueueIdle(q)
        BY <1>5 DEF QueueIdle
    <2>2. \A r \in Queues : QueueIdle(r) => QueueIdle(r)'
        BY <1>8, <1>9, <2>1 DEF QueueIdle
    <2>3. Quiet => Quiet'
        BY <1>b DEF Quiet, quotaVars
    <2>4. Barriers'
        BY <1>a, <1>b, <1>5, <1>8 DEF StageInv, Barriers
    <2>5. Callers'
        BY <1>a, <1>b DEF StageInv, Callers, Called, opVars
    <2> QED BY <1>a, <1>b, <2>2, <2>3, <2>4, <2>5 DEF StageInv, Queues
<1> QED BY <1>11, <1>12, <1>13, <1>14, <1>15, <1>16, <1>17 DEF StorageInv

------------------------------------------------------------------------------
(* Shutdown.                                                               *)

\* A stage is passed once its queue is idle; the quota queue may go on until SQL
\* has been joined.
LEMMA StageAdvances ==
    ASSUME StageInv, NEW q \in Queues, shut = q, late \in BOOLEAN, shut' = NextStage(q),
           UNCHANGED <<waiting, ready, handing, worker, caller, late, sql, kind>>,
           worker[q] = None, ~Has(queue'[q], Barrier), q # "quota" \/ late => queue'[q] = <<>>,
           \A r \in Queues : r # q => queue'[r] = queue[r]
    PROVE  StageInv'
<1>1. q # "quota" \/ late => QueueIdle(q)'
    BY NothingIn DEF QueueIdle
<1>2. \A r \in Queues : r # q => (QueueIdle(r) => QueueIdle(r)')
    BY DEF QueueIdle
<1>3. \A r \in Queues : ~Has(queue'[r], Barrier)
    BY DEF StageInv, Barriers
<1>4. \A r \in Queues : BarrierLast(queue'[r])
    BY <1>3 DEF BarrierLast, Has
<1>5. Barriers'
    BY <1>3, <1>4 DEF Barriers
<1>6. \A o \in Ops : Called(o)' => ~late /\ kind[o] = "sql"
    BY DEF StageInv, Callers, Called, Queues
<1>7. Callers'
    BY <1>6 DEF Callers
<1>8. Quiet => Quiet'
    BY DEF Quiet
<1>9. CASE q = "maintenance"
    <2>1. shut' = "dispatch"
        BY <1>9 DEF NextStage
    <2> QED BY <1>1, <1>2, <1>5, <1>7, <1>8, <1>9, <2>1 DEF StageInv, Queues
<1>10. CASE q = "quota" /\ late
    <2>1. shut' = "io"
        BY <1>10 DEF NextStage
    <2> QED BY <1>1, <1>2, <1>5, <1>7, <1>8, <1>10, <2>1 DEF StageInv, Queues
<1>11. CASE q = "quota" /\ ~late
    <2>1. shut' = "sql"
        BY <1>11 DEF NextStage
    <2> QED BY <1>2, <1>5, <1>7, <1>11, <2>1 DEF StageInv, Queues
<1>12. CASE q = "io"
    <2>1. shut' = "closed"
        BY <1>12 DEF NextStage
    <2> QED BY <1>1, <1>2, <1>5, <1>7, <1>8, <1>12, <2>1 DEF StageInv, Queues
<1> QED BY <1>9, <1>10, <1>11, <1>12 DEF Queues

LEMMA NextStageType ==
    ASSUME NEW q \in Queues
    PROVE  NextStage(q) \in Queues \cup {"open", "dispatch", "sql", "closed"}
<1>1. CASE q = "maintenance"
    BY <1>1 DEF NextStage
<1>2. CASE q = "quota"
    BY <1>2 DEF NextStage, Queues
<1>3. CASE q = "io"
    BY <1>3 DEF NextStage
<1> QED BY <1>1, <1>2, <1>3 DEF Queues

\* What keeps when only the stage, and one queue's barrier, change.
LEMMA BarrierStepKeeps ==
    ASSUME StorageInv, StageInv',
           shut' \in Queues \cup {"open", "dispatch", "sql", "closed"}, late' \in BOOLEAN,
           sql' \in {"open", "sealed", "closed"}, \A o \in Ops : pc[o] = "sql" => sql' # "closed",
           queue' \in [Queues -> Seq(Ops \cup {Barrier})],
           \A q \in Queues, p \in Ops : Has(queue'[q], p) <=> Has(queue[q], p),
           \A q \in Queues : Once(queue'[q]),
           \A q \in Queues : queue'[q] # <<>> => q \in started,
           UNCHANGED <<seqVars, quotaVars, handing, started, worker, pc, opVars,
                       ticket, holds, caller>>
    PROVE  StorageInv'
<1>a. TypeOK /\ SequenceInv /\ StepInv /\ QuotaInv /\ ListInv /\ PlaceInv
    BY InvParts
<1>1. TypeOK'
    BY <1>a DEF TypeOK, seqVars, quotaVars, opVars
<1>2. SequenceInv' /\ QuotaInv'
    BY <1>a, SequenceStill, QuotaStill DEF opVars, quotaVars
<1>7. StepInv'
    BY <1>a DEF StepInv, StepOK, opVars
<1>3. WaitersKnown' /\ ReadyKnown'
    BY <1>a DEF ListInv, WaitersKnown, ReadyKnown, opVars, quotaVars
<1>4. QueuedKnown'
    BY <1>a DEF ListInv, QueuedKnown, opVars
<1>5. Placed'
    <2>1. \A p \in Ops : (Called(p)' <=> Called(p)) /\ (Worked(p)' <=> Worked(p))
        BY DEF Called, Worked
    <2> QED BY <1>a, <2>1 DEF PlaceInv, Placed, opVars, quotaVars
<1>6. Threads'
    BY <1>a DEF PlaceInv, Threads
<1> QED BY <1>1, <1>2, <1>3, <1>4, <1>5, <1>6, <1>7 DEF StorageInv, ListInv, PlaceInv

\* The state of the SQL owner fits.
LEMMA SqlStill ==
    ASSUME StorageInv, UNCHANGED sql
    PROVE  sql' \in {"open", "sealed", "closed"} /\ \A o \in Ops : pc[o] = "sql" => sql' # "closed"
BY InvParts DEF TypeOK, StepOK

LEMMA TakeBarrierKeeps ==
    ASSUME StorageInv, NEW q \in Queues, TakeBarrier(q)
    PROVE  StorageInv'
<1>a. TypeOK /\ StageInv /\ ListInv /\ PlaceInv
    BY InvParts
<1>b. /\ worker[q] = None /\ queue[q] # <<>> /\ Head(queue[q]) = Barrier
      /\ queue' = [queue EXCEPT ![q] = Tail(@)] /\ shut' = NextStage(q)
      /\ UNCHANGED <<seqVars, quotaVars, handing, started, worker, pc, opVars,
                     ticket, holds, caller, late, sql>>
    BY DEF TakeBarrier
<1>1. /\ queue \in [Queues -> Seq(Ops \cup {Barrier})] /\ queue[q] \in Seq(Ops \cup {Barrier})
      /\ late \in BOOLEAN
    BY <1>a DEF TypeOK
<1>2. /\ q # "quota" \/ late => BarrierLast(queue[q])
      /\ Has(queue[q], Barrier) => shut = q
      /\ Once(queue[q])
    BY <1>a DEF StageInv, Barriers, ListInv, QueuedKnown
<1>c. PICK s : s = Tail(queue[q])
    OBVIOUS
<1>3. /\ s \in Seq(Ops \cup {Barrier}) /\ Once(s) /\ ~Has(s, Barrier)
      /\ BarrierLast(queue[q]) => s = <<>>
      /\ \A p : Has(queue[q], p) <=> Has(s, p) \/ p = Barrier
    BY <1>b, <1>c, <1>1, <1>2, Taken
<1>4. /\ queue'[q] = s /\ (\A r \in Queues : r # q => queue'[r] = queue[r])
      /\ queue' \in [Queues -> Seq(Ops \cup {Barrier})]
    BY <1>b, <1>c, <1>1, <1>3
<1>5. shut = q
    BY <1>2, <1>3
<1>6. StageInv'
    BY <1>a, <1>b, <1>1, <1>2, <1>3, <1>4, <1>5, StageAdvances DEF quotaVars, opVars
<1>7. \A r \in Queues, p \in Ops : Has(queue'[r], p) <=> Has(queue[r], p)
    BY <1>3, <1>4, StorageAssumption
<1>8. \A r \in Queues : Once(queue'[r])
    BY <1>a, <1>3, <1>4 DEF ListInv, QueuedKnown
<1>9. \A r \in Queues : queue'[r] # <<>> => r \in started
    BY <1>a, <1>b, <1>4 DEF PlaceInv, Threads
<1>10. /\ shut' \in Queues \cup {"open", "dispatch", "sql", "closed"} /\ late' \in BOOLEAN
    BY <1>b, <1>1, NextStageType
<1> QED BY <1>b, <1>4, <1>6, <1>7, <1>8, <1>9, <1>10, SqlStill, BarrierStepKeeps

LEMMA DrainKeeps ==
    ASSUME StorageInv, NEW q \in Queues, Drain(q)
    PROVE  StorageInv'
<1>a. TypeOK /\ StageInv /\ ListInv /\ PlaceInv
    BY InvParts
<1>b. /\ shut = q /\ ~\E i \in DOMAIN queue[q] : queue[q][i] = Barrier
      /\ UNCHANGED <<seqVars, quotaVars, handing, started, worker, pc, opVars,
                     ticket, holds, caller, late, sql>>
    BY DEF Drain
<1>1. /\ queue \in [Queues -> Seq(Ops \cup {Barrier})] /\ queue[q] \in Seq(Ops \cup {Barrier})
      /\ late \in BOOLEAN /\ shut \in Queues \cup {"open", "dispatch", "sql", "closed"}
    BY <1>a DEF TypeOK
<1>2. ~Has(queue[q], Barrier)
    BY <1>b, <1>1 DEF Has
<1>3. \A r \in Queues : Once(queue[r])
    BY <1>a DEF ListInv, QueuedKnown
<1>4. CASE q \in started
    <2>1. queue' = [queue EXCEPT ![q] = Append(@, Barrier)] /\ UNCHANGED shut
        BY <1>4 DEF Drain
    <2>2. /\ Append(queue[q], Barrier) \in Seq(Ops \cup {Barrier})
          /\ \A p : Has(Append(queue[q], Barrier), p) <=> Has(queue[q], p) \/ p = Barrier
          /\ Once(queue[q]) => Once(Append(queue[q], Barrier))
          /\ BarrierLast(queue[q]) => BarrierLast(Append(queue[q], Barrier))
        BY <1>1, <1>2, Appended
    <2>3. /\ queue'[q] = Append(queue[q], Barrier) /\ (\A r \in Queues : r # q => queue'[r] = queue[r])
          /\ queue' \in [Queues -> Seq(Ops \cup {Barrier})]
        BY <1>1, <2>1, <2>2
    <2>4. \A r \in Queues, p \in Ops : Has(queue'[r], p) <=> Has(queue[r], p)
        BY <2>2, <2>3, StorageAssumption
    <2>5. \A r \in Queues : Once(queue'[r])
        BY <1>3, <2>2, <2>3
    <2>6. \A r \in Queues : queue'[r] # <<>> => r \in started
        BY <1>a, <1>4, <2>3 DEF PlaceInv, Threads
    <2>7. StageInv'
        <3>1. \A r \in Queues : QueueIdle(r) => QueueIdle(r)'
            BY <1>b, <2>4 DEF QueueIdle
        <3>2. Quiet => Quiet'
            BY <1>b DEF Quiet, quotaVars
        <3>3. Barriers'
            BY <1>a, <1>b, <2>1, <2>2, <2>3 DEF StageInv, Barriers
        <3>4. Callers'
            BY <1>a, <1>b, <2>1 DEF StageInv, Callers, Called, opVars
        <3> QED BY <1>a, <1>b, <2>1, <3>1, <3>2, <3>3, <3>4 DEF StageInv, Queues
    <2>8. shut' \in Queues \cup {"open", "dispatch", "sql", "closed"} /\ late' \in BOOLEAN
        BY <1>b, <1>1, <2>1
    <2> QED BY <1>b, <2>3, <2>4, <2>5, <2>6, <2>7, <2>8, SqlStill, BarrierStepKeeps
<1>5. CASE q \notin started
    <2>1. shut' = NextStage(q) /\ UNCHANGED queue
        BY <1>5 DEF Drain
    <2>2. queue[q] = <<>> /\ worker[q] = None
        BY <1>a, <1>5 DEF PlaceInv, Threads
    <2>3. StageInv'
        BY <1>a, <1>b, <1>1, <1>2, <2>1, <2>2, StageAdvances DEF quotaVars, opVars
    <2>4. shut' \in Queues \cup {"open", "dispatch", "sql", "closed"} /\ late' \in BOOLEAN
        BY <1>b, <1>1, <2>1, NextStageType
    <2>5. \A r \in Queues : queue[r] # <<>> => r \in started
        BY <1>a DEF PlaceInv, Threads
    <2> QED BY <1>b, <1>1, <1>3, <2>1, <2>3, <2>4, <2>5, SqlStill, BarrierStepKeeps
<1> QED BY <1>4, <1>5

LEMMA BeginShutdownKeeps ==
    ASSUME StorageInv, BeginShutdown
    PROVE  StorageInv'
<1>a. TypeOK /\ StageInv /\ ListInv /\ PlaceInv
    BY InvParts
<1>b. /\ shut = "open" /\ (\A c \in Clients : caller[c] # None => kind[caller[c]] = "sql")
      /\ shut' = "maintenance"
      /\ UNCHANGED <<seqVars, quotaVars, handing, queueVars, pc, opVars, ticket,
                     holds, caller, late, sql>>
    BY DEF BeginShutdown
<1>1. UNCHANGED <<queue, started, worker>> /\ ~late /\ queue \in [Queues -> Seq(Ops \cup {Barrier})]
    BY <1>a, <1>b DEF queueVars, StageInv, TypeOK
<1>2. \A q \in Queues : ~Has(queue[q], Barrier) /\ BarrierLast(queue[q])
    <2>1. \A q \in Queues : ~Has(queue[q], Barrier)
        BY <1>a, <1>b DEF StageInv, Barriers, Queues
    <2> QED BY <2>1 DEF BarrierLast, Has
<1>6. \A o \in Ops : Called(o)' => kind[o] = "sql"
    BY <1>b, StorageAssumption DEF Called
<1>7. Callers' /\ Barriers'
    BY <1>b, <1>1, <1>2, <1>6 DEF Callers, Barriers, opVars
<1>3. StageInv'
    BY <1>b, <1>1, <1>7 DEF StageInv
<1>4. /\ \A q \in Queues : queue[q] # <<>> => q \in started
      /\ \A q \in Queues : Once(queue[q])
    BY <1>a DEF PlaceInv, Threads, ListInv, QueuedKnown
<1>5. shut' \in Queues \cup {"open", "dispatch", "sql", "closed"} /\ late' \in BOOLEAN
    BY <1>a, <1>b DEF Queues, TypeOK
<1> QED BY <1>b, <1>1, <1>3, <1>4, <1>5, SqlStill, BarrierStepKeeps

LEMMA WaitForDispatchKeeps ==
    ASSUME StorageInv, WaitForDispatch
    PROVE  StorageInv'
<1>a. TypeOK /\ StageInv /\ ListInv /\ PlaceInv
    BY InvParts
<1>b. /\ shut = "dispatch" /\ (\A b \in Buckets : waiting[b] = <<>>) /\ ~draining /\ shut' = "quota"
      /\ UNCHANGED <<seqVars, quotaVars, handing, queueVars, pc, opVars, ticket,
                     holds, caller, late, sql>>
    BY DEF WaitForDispatch
<1>1. UNCHANGED <<queue, started, worker>> /\ queue \in [Queues -> Seq(Ops \cup {Barrier})]
    BY <1>a, <1>b DEF queueVars, TypeOK
<1>2. \A q \in Queues : ~Has(queue[q], Barrier) /\ BarrierLast(queue[q])
    <2>1. \A q \in Queues : ~Has(queue[q], Barrier)
        BY <1>a, <1>b DEF StageInv, Barriers, Queues
    <2> QED BY <2>1 DEF BarrierLast, Has
<1>9. Callers' /\ Barriers'
    BY <1>a, <1>b, <1>1, <1>2 DEF StageInv, Callers, Barriers, Called, opVars
<1>3. Quiet
    BY <1>a, <1>b DEF Quiet, ListInv, ReadyKnown
<1>4. Quiet'
    BY <1>b, <1>3 DEF Quiet, quotaVars
<1>5. \A q \in Queues : QueueIdle(q) => QueueIdle(q)'
    BY <1>1 DEF QueueIdle
<1>6. StageInv'
    BY <1>a, <1>b, <1>1, <1>4, <1>5, <1>9 DEF StageInv, Queues
<1>7. /\ \A q \in Queues : queue[q] # <<>> => q \in started
      /\ \A q \in Queues : Once(queue[q])
    BY <1>a DEF PlaceInv, Threads, ListInv, QueuedKnown
<1>8. shut' \in Queues \cup {"open", "dispatch", "sql", "closed"} /\ late' \in BOOLEAN
    BY <1>a, <1>b DEF Queues, TypeOK
<1> QED BY <1>b, <1>1, <1>6, <1>7, <1>8, SqlStill, BarrierStepKeeps

\* The stages of shutdown_sqlite.
LEMMA SqlStageKeeps ==
    ASSUME StorageInv, SealSql \/ CloseSql \/ JoinSql
    PROVE  StorageInv'
<1>a. TypeOK /\ StageInv /\ ListInv /\ PlaceInv /\ StepInv
    BY InvParts
<1>b. UNCHANGED <<seqVars, quotaVars, handing, queueVars, pc, opVars, ticket, holds, caller>>
    BY DEF SealSql, CloseSql, JoinSql
<1>1. /\ UNCHANGED <<queue, started, worker, waiting, ready, handing, kind>>
      /\ queue \in [Queues -> Seq(Ops \cup {Barrier})]
    BY <1>a, <1>b DEF queueVars, quotaVars, opVars, TypeOK
<1>2. /\ \A q \in Queues : queue[q] # <<>> => q \in started
      /\ \A q \in Queues : Once(queue[q])
    BY <1>a DEF PlaceInv, Threads, ListInv, QueuedKnown
<1>3. /\ shut' \in Queues \cup {"open", "dispatch", "sql", "closed"} /\ late' \in BOOLEAN
      /\ sql' \in {"open", "sealed", "closed"} /\ \A o \in Ops : pc[o] = "sql" => sql' # "closed"
    BY <1>a DEF TypeOK, StepInv, StepOK, SealSql, CloseSql, JoinSql, NextStage, Queues
<1>4. \A q \in Queues : QueueIdle(q) => QueueIdle(q)'
    BY <1>1 DEF QueueIdle
<1>5. Quiet => Quiet'
    BY <1>1 DEF Quiet
<1>6. \A o \in Ops : Called(o)' <=> Called(o)
    BY <1>b DEF Called
<1>7. CASE SealSql \/ CloseSql
    <2>1. UNCHANGED <<shut, late>> /\ (sql = "closed" => sql' = "closed")
        BY <1>7 DEF SealSql, CloseSql
    <2>2. Callers' /\ Barriers'
        BY <1>a, <1>1, <1>6, <2>1 DEF StageInv, Callers, Barriers
    <2>3. StageInv'
        BY <1>a, <1>4, <1>5, <2>1, <2>2 DEF StageInv, Queues
    <2> QED BY <1>b, <1>1, <1>2, <1>3, <2>3, BarrierStepKeeps
<1>8. CASE JoinSql
    <2>1. /\ shut = "sql" /\ sql = "closed" /\ shut' = "maintenance" /\ late' = TRUE /\ UNCHANGED sql
          /\ \A c \in Clients : caller[c] = None
        BY <1>8 DEF JoinSql, NextStage
    <2>2. \A o \in Ops : ~Called(o)
        BY <2>1, StorageAssumption DEF Called
    <2>3. \A q \in Queues : ~Has(queue[q], Barrier)
        BY <1>a, <2>1 DEF StageInv, Barriers, Queues
    <2>4. \A q \in Queues : BarrierLast(queue[q])
        BY <2>3 DEF BarrierLast, Has
    <2>5. Callers' /\ Barriers'
        BY <1>1, <1>6, <2>2, <2>3, <2>4 DEF Callers, Barriers
    <2>6. StageInv'
        BY <1>a, <1>4, <2>1, <2>5 DEF StageInv, Queues
    <2> QED BY <1>b, <1>1, <1>2, <1>3, <2>6, BarrierStepKeeps
<1> QED BY <1>7, <1>8

------------------------------------------------------------------------------
(* The theorems.                                                           *)

LEMMA InitStorageInv == Init => StorageInv
<1> SUFFICES ASSUME Init PROVE StorageInv
    OBVIOUS
<1> USE NothingIn
<1>1. TypeOK
    <2>1. Cardinality(Ops) \in Nat
        BY StorageAssumption, FS_CardinalityType
    <2>2. /\ nextTicket \in 0 .. Cardinality(Ops) /\ serving \in 0 .. nextTicket
          /\ cancelled \subseteq 0 .. (nextTicket - 1)
        BY <2>1 DEF Init, SequenceInit
    <2>3. /\ active \subseteq Buckets /\ waiting \in [Buckets -> Seq(Ops)]
          /\ ready \in Seq(Ops) /\ handing \in Ops \cup {None}
        BY DEF Init, QuotaInit
    <2>4. draining \in BOOLEAN
        BY Zenon DEF Init, QuotaInit
    <2>5. /\ queue \in [Queues -> Seq(Ops \cup {Barrier})] /\ started \subseteq Queues
          /\ worker \in [Queues -> Ops \cup {None}]
        BY DEF Init, QueueInit
    <2>6. /\ pc \in [Ops -> Steps] /\ kind \in [Ops -> Kinds] /\ bucket \in [Ops -> Buckets]
          /\ ticket \in [Ops -> {NoTicket} \cup 0 .. (nextTicket - 1)] /\ holds \subseteq Ops
          /\ caller \in [Clients -> Ops \cup {None}]
          /\ shut \in Queues \cup {"open", "dispatch", "sql", "closed"} /\ late \in BOOLEAN
          /\ sql \in {"open", "sealed", "closed"}
        BY StorageAssumption DEF Init, Steps
    <2> QED BY <2>2, <2>3, <2>4, <2>5, <2>6 DEF TypeOK
<1>2. SequenceInv
    <2>1. {o \in Ops : ticket[o] # NoTicket} = {}
        BY DEF Init
    <2>2. TicketsCounted
        BY <2>1, FS_EmptySet DEF Init, SequenceInit, TicketsCounted
    <2>3. NoOrphanTicket
        BY DEF Init, SequenceInit, NoOrphanTicket
    <2> QED BY <2>2, <2>3 DEF Init, SequenceInit, SequenceInv, TicketsDistinct, ServedOver,
                              RunsAtTurn, CancelledOver,
                              PastTurn
<1>3. StepInv
    BY DEF Init, StepInv, StepOK
<1>4. QuotaInv
    BY DEF Init, QuotaInit, QuotaInv, OwnersDistinct, OwnedActive, WaitedActive
<1>5. ListInv
    <2>1. Once(<<>>)
        BY DEF Once
    <2>2. WaitersKnown /\ ReadyKnown /\ QueuedKnown
        BY <2>1 DEF Init, QuotaInit, QueueInit, WaitersKnown, ReadyKnown, QueuedKnown
    <2> QED BY <2>2 DEF ListInv
<1>6. PlaceInv
    BY DEF Init, QueueInit, PlaceInv, Placed, Threads
<1>7. StageInv
    <2>1. BarrierLast(<<>>)
        BY DEF BarrierLast
    <2>2. \A o \in Ops : ~Called(o)
        BY StorageAssumption DEF Init, Called
    <2> QED BY <2>1, <2>2 DEF Init, QueueInit, StageInv, Callers, Barriers
<1> QED BY <1>1, <1>2, <1>3, <1>4, <1>5, <1>6, <1>7 DEF StorageInv

LEMMA StutterKeeps ==
    ASSUME StorageInv, UNCHANGED vars
    PROVE  StorageInv'
<1>a. TypeOK /\ StageInv /\ ListInv /\ PlaceInv
    BY InvParts
<1>1. UNCHANGED <<seqVars, quotaVars, handing, queue, started, worker, pc, opVars, ticket,
                  holds, caller, shut, late, sql>>
    BY DEF vars, queueVars
<1>2. StageInv'
    BY <1>a, <1>1 DEF StageInv, Callers, Barriers, Called, QueueIdle, Quiet, quotaVars, opVars
<1>3. /\ \A q \in Queues : queue[q] # <<>> => q \in started
      /\ \A q \in Queues : Once(queue[q])
      /\ shut \in Queues \cup {"open", "dispatch", "sql", "closed"} /\ late \in BOOLEAN
      /\ queue \in [Queues -> Seq(Ops \cup {Barrier})]
    BY <1>a DEF PlaceInv, Threads, ListInv, QueuedKnown, TypeOK
<1> QED BY <1>1, <1>2, <1>3, SqlStill, BarrierStepKeeps

LEMMA OpStepKeeps ==
    ASSUME StorageInv, NEW o \in Ops, OpStep(o)
    PROVE  StorageInv'
BY TakeTicketKeeps, SendKeeps, SendFailsKeeps, TryQuotaKeeps, LockQuotaKeeps, EnsureStartedKeeps,
   ReserveAsyncKeeps, UnlockKeeps, EnterKeeps, EndTurnKeeps, CancelKeeps, SkipTurnKeeps, SkipQuotaKeeps,
   CheckClientKeeps, SampleUsageKeeps, SubmitSqlKeeps
   DEF OpStep

LEMMA NextKeeps ==
    ASSUME StorageInv, [Next]_vars
    PROVE  StorageInv'
<1>1. ASSUME NEW c \in Clients, NEW o \in Ops, Call(c, o) PROVE StorageInv'
    BY <1>1, CallKeeps
<1>2. ASSUME NEW o \in Ops, OpStep(o) PROVE StorageInv'
    BY <1>2, OpStepKeeps
<1>3. CASE DrainStep
    BY <1>3, DrainPopKeeps, DrainCallKeeps, DrainEndKeeps DEF DrainStep
<1>4. ASSUME NEW q \in Queues, WorkerStep(q) PROVE StorageInv'
    BY <1>4, TakeJobKeeps, TakeBarrierKeeps DEF WorkerStep
<1>5. CASE BeginShutdown
    BY <1>5, BeginShutdownKeeps
<1>6. CASE ShutdownStep
    BY <1>6, WaitForDispatchKeeps, DrainKeeps, SqlStageKeeps DEF ShutdownStep
<1>7. CASE UNCHANGED vars
    BY <1>7, StutterKeeps
<1> QED BY <1>1, <1>2, <1>3, <1>4, <1>5, <1>6, <1>7 DEF Next

\* The inductive invariant holds in every reachable state: tickets, owners,
\* lists, threads and the stages of shutdown agree (io_queue.rs, quota.rs, lib.rs).
THEOREM StorageInvariant == Spec => []StorageInv
<1>1. Init => StorageInv
    BY InitStorageInv
<1>2. StorageInv /\ [Next]_vars => StorageInv'
    BY NextKeeps
<1> QED BY <1>1, <1>2, PTL DEF Spec

\* Work in the file system happens in the order of the tickets, and no ticket
\* is orphaned, whatever is cancelled, fails or changes threads
\* (StorageIoSequence, Drop for StorageIoTurn and StorageIoReservation).
THEOREM TicketsInOrderHolds == Spec => []TicketsInOrder
<1>1. StorageInv => TicketsInOrder
    <2> SUFFICES ASSUME StorageInv PROVE TicketsInOrder
        OBVIOUS
    <2>1. TypeOK /\ SequenceInv
        BY InvParts
    <2>2. TurnsInTicketOrder
        <3> SUFFICES ASSUME NEW o \in Ops, NEW p \in Ops, pc[o] = "run",
                            ticket[p] \in 0 .. (ticket[o] - 1)
                     PROVE  pc[p] \in Over
            BY DEF TurnsInTicketOrder
        <3>1. ticket[o] = serving /\ serving \in Nat
            BY <2>1 DEF SequenceInv, RunsAtTurn, TypeOK
        <3>2. ticket[p] < serving /\ ticket[p] # NoTicket
            BY <3>1 DEF NoTicket
        <3> QED BY <2>1, <3>2 DEF SequenceInv, ServedOver
    <2> QED BY <2>1, <2>2 DEF TicketsInOrder, SequenceInv
<1> QED BY <1>1, StorageInvariant, PTL

\* A bucket is active exactly while one operation owns its commit window, and
\* nobody waits on a free one (StorageQuotaCoordinator: reserve, try_reserve,
\* reserve_async, the release of a reservation).
THEOREM QuotaHasOneOwnerHolds == Spec => []QuotaHasOneOwner
<1>1. StorageInv => QuotaHasOneOwner
    <2> SUFFICES ASSUME StorageInv, NEW b \in Buckets
                 PROVE  /\ Cardinality({o \in holds : bucket[o] = b}) = IF b \in active THEN 1 ELSE 0
                        /\ waiting[b] # <<>> => b \in active
        BY DEF QuotaHasOneOwner
    <2>1. OwnersDistinct /\ OwnedActive /\ WaitedActive
        BY InvParts DEF QuotaInv
    <2>2. CASE b \in active
        <3>1. PICK o \in holds : bucket[o] = b
            BY <2>1, <2>2 DEF OwnedActive
        <3>2. {p \in holds : bucket[p] = b} = {o}
            BY <2>1, <3>1 DEF OwnersDistinct
        <3> QED BY <2>1, <2>2, <3>2, FS_Singleton DEF WaitedActive
    <2>3. CASE b \notin active
        <3>1. {p \in holds : bucket[p] = b} = {}
            BY <2>1, <2>3 DEF OwnedActive
        <3> QED BY <2>1, <2>3, <3>1, FS_EmptySet DEF WaitedActive
    <2> QED BY <2>2, <2>3
<1> QED BY <1>1, StorageInvariant, PTL

\* When shutdown is through, nothing that was accepted is left, what Blob reads
\* submitted while SQL drained included, and once the OPFS queue is being drained
\* nothing can reach the quota queue any more (StoragePartition::shutdown,
\* drain_maintenance twice around shutdown_sqlite, drain_io).
THEOREM ShutdownLeavesNothingHolds == Spec => []ShutdownLeavesNothing
<1>1. StorageInv => ShutdownLeavesNothing
    <2> SUFFICES ASSUME StorageInv PROVE ShutdownLeavesNothing
        OBVIOUS
    <2>a. TypeOK /\ PlaceInv /\ StageInv
        BY InvParts
    <2>b. StepInv
        BY InvParts
    <2>1. ASSUME shut \in {"io", "closed"}
          PROVE  /\ Quiet /\ QueueIdle("quota") /\ QueueIdle("maintenance")
                 /\ queue["quota"] = <<>>
        <3>1. Quiet /\ QueueIdle("quota") /\ QueueIdle("maintenance")
            BY <2>a, <2>1 DEF StageInv
        <3>2. queue["quota"] \in Seq(Ops \cup {Barrier}) /\ "quota" \in Queues
            BY <2>a DEF TypeOK, Queues
        <3>3. ~Has(queue["quota"], Barrier)
            BY <2>a, <2>1, <3>2 DEF StageInv, Barriers
        <3>4. \A p \in Ops \cup {Barrier} : ~Has(queue["quota"], p)
            BY <3>1, <3>3 DEF QueueIdle
        <3> QED BY <3>1, <3>2, <3>4, EmptyHasNone
    <2>2. NoLateDispatch
        BY <2>1 DEF NoLateDispatch, Quiet
    <2>3. ASSUME shut = "closed", NEW o \in Ops PROVE pc[o] \in {"new", "done"}
        <3>1. \A q \in Queues : QueueIdle(q)
            BY <2>a, <2>1, <2>3 DEF StageInv, Queues
        <3>2. ~Called(o) /\ ~Worked(o)
            BY <2>a, <2>3, <3>1, StorageAssumption DEF StageInv, Callers, Worked, QueueIdle
        <3>3. pc[o] # "queued"
            BY <2>a, <3>1 DEF PlaceInv, Placed, QueueIdle
        <3>4. pc[o] # "waitQuota"
            <4>1. Quiet /\ bucket[o] \in Buckets /\ handing # o
                BY <2>a, <2>1, <2>3, StorageAssumption DEF TypeOK, Quiet
            <4> QED BY <2>a, <4>1, NothingIn DEF PlaceInv, Placed, Quiet
        <3>5. pc[o] # "sql"
            BY <2>a, <2>b, <2>3 DEF StageInv, StepInv, StepOK
        <3> QED BY <2>a, <3>2, <3>3, <3>4, <3>5 DEF PlaceInv, Placed
    <2> QED BY <2>2, <2>3 DEF ShutdownLeavesNothing
<1> QED BY <1>1, StorageInvariant, PTL
=============================================================================
