--------------------- MODULE OwnerReadyTaskSourceProofs ---------------------
(***************************************************************************)
(* The owner queue never loses a wake and never publishes one too many,    *)
(* for any number of producers, tasks and batch sizes.                     *)
(*                                                                         *)
(* Every owner call restates `ready` from what it leaves behind, and every *)
(* producer call appends a nonempty batch; NoLostWake follows from exact   *)
(* readiness, because a producer that finds `ready` set stays silent.      *)
(*                                                                         *)
(* And what the owner dequeues is exactly what was sent, in order and with *)
(* every batch in one piece: DeliveryExact, in the second half.            *)
(***************************************************************************)
EXTENDS OwnerReadyTaskSource, TLAPS

\* Dropping the source is the last thing its owner does with it.
Owned == owner # "gone" => sourceOpen

\* The inductive invariant.  NoLostWake alone is not inductive: it needs
\* exact readiness, because a producer that finds `ready` set stays silent.
IInv ==
    /\ TypeOK
    /\ ReadyExact
    /\ NoLostWake
    /\ ClosedHoldsNothing
    /\ Owned

\* A sender's budget never exceeds the bound on task numbers.
LEMMA WithinBudget ==
    ASSUME TypeOK, NEW s \in Senders
    PROVE  /\ sent[s] < Budget[s] => sent[s] + 1 <= MaxSends
           /\ \A k \in Nat : sent[s] + k <= Budget[s] => sent[s] + k <= MaxSends
<1>1. sent[s] \in Nat /\ Budget[s] \in Nat /\ MaxSends \in Nat /\ Budget[s] <= MaxSends
  BY OwnerQueueAssumption DEF TypeOK, Senders
<1>2. QED
  BY <1>1

\* The tasks of one call form a sequence of tasks, nonempty when k > 0.
LEMMA NewTasksType ==
    ASSUME TypeOK, NEW s \in Senders, NEW k \in Nat, k > 0,
           sent[s] + k <= MaxSends
    PROVE  NewTasks(s, k) \in Seq(Task) /\ NewTasks(s, k) # <<>>
<1> DEFINE n == sent[s]
<1>1. n \in Nat /\ MaxSends \in Nat
  BY OwnerQueueAssumption DEF TypeOK
<1>2. \A i \in 1..k : n + i \in 1..MaxSends /\ n + 1 \in 1..MaxSends
  BY <1>1
<1>3. \A i \in 1..k : [from |-> s, seq |-> n + i, batch |-> n + 1] \in Task
  BY <1>2 DEF Task
<1>4. QED
  BY <1>3, <1>1 DEF NewTasks

\* Disposal adds only tasks.
LEMMA ToSetType ==
    ASSUME NEW q \in Seq(Task)
    PROVE  ToSet(q) \in SUBSET Task
BY DEF ToSet

\* All accepted work, local and arrived, is one sequence of tasks.
LEMMA QueueFacts ==
    ASSUME TypeOK
    PROVE  Queue \in Seq(Task) /\ (Queue # <<>> <=> HasWork)
BY DEF TypeOK, Queue, HasWork

\* Concatenation is associative.
LEMMA JoinAssociative ==
    ASSUME NEW a \in Seq(Task), NEW b \in Seq(Task), NEW c \in Seq(Task)
    PROVE  (a \o b) \o c = a \o (b \o c)
OBVIOUS

\* A sequence cut in two.
LEMMA CutInTwo ==
    ASSUME NEW q \in Seq(Task), NEW k \in 0..Len(q)
    PROVE  /\ SubSeq(q, 1, k) \in Seq(Task) /\ SubSeq(q, k + 1, Len(q)) \in Seq(Task)
           /\ SubSeq(q, 1, k) \o SubSeq(q, k + 1, Len(q)) = q
<1>1. PICK a, b : a = SubSeq(q, 1, k) /\ b = SubSeq(q, k + 1, Len(q))
  OBVIOUS
<1>2. Len(q) \in Nat /\ k \in Nat /\ k <= Len(q)
  OBVIOUS
<1>3. a \in Seq(Task) /\ Len(a) = k /\ \A i \in 1..k : a[i] = q[i]
  BY <1>1, <1>2
<1>4. /\ b \in Seq(Task) /\ Len(b) = Len(q) - k
      /\ \A i \in 1..(Len(q) - k) : b[i] = q[k + i]
  BY <1>1, <1>2
<1>5. PICK c : c = a \o b
  OBVIOUS
<1>6. /\ c \in Seq(Task) /\ Len(c) = Len(q)
      /\ \A i \in 1..k : c[i] = a[i]
      /\ \A i \in 1..Len(q) : ~(i \in 1..k) => c[i] = b[i - k] /\ i - k \in 1..(Len(q) - k)
  BY <1>2, <1>3, <1>4, <1>5
<1>7. \A i \in 1..Len(q) : c[i] = q[i]
  <2> SUFFICES ASSUME NEW i \in 1..Len(q) PROVE c[i] = q[i]
    OBVIOUS
  <2>1. CASE i \in 1..k
    BY <1>3, <1>6, <2>1
  <2>2. CASE ~(i \in 1..k)
    <3>1. c[i] = b[i - k] /\ i - k \in 1..(Len(q) - k) /\ k + (i - k) = i
      BY <1>2, <1>6, <2>2
    <3> QED BY <1>4, <3>1
  <2> QED BY <2>1, <2>2
<1>8. c = q
  BY <1>6, <1>7
<1> QED BY <1>1, <1>3, <1>4, <1>5, <1>8

\* What an edit of the owner leaves and takes: the tasks it picked, in the
\* order it put them, and every pair it exchanged is recorded.
LEMMA EditFacts ==
    ASSUME TypeOK, NEW n \in 0..Len(Queue), NEW k \in 0..n,
           NEW pick \in Injection(1..n, 1..Len(Queue)), WithTasksMut(pick, k)
    PROVE  /\ tasks' \in Seq(Task) /\ consumed' \in Seq(Task)
           /\ disposed' \in SUBSET Task /\ swapped' \in SUBSET (Task \X Task)
           /\ \E left \in Seq(Task) :
                 /\ Len(left) = n
                 /\ (consumed \o tasks)' = consumed \o left
                 /\ pick \in [1..n -> 1..Len(Queue)]
                 /\ \A i \in 1..n : left[i] = Queue[pick[i]]
                 /\ \A i, j \in 1..n : i < j =>
                       pick[i] < pick[j] \/ <<left[i], left[j]>> \in swapped'
                 /\ \A t : t \in disposed' <=>
                       t \in disposed \/
                       \E i \in 1..Len(Queue) :
                          t = Queue[i] /\ ~\E j \in 1..n : pick[j] = i
           /\ swapped \in SUBSET swapped'
<1>1. PICK q : q = Queue
  OBVIOUS
<1>2. q \in Seq(Task) /\ consumed \in Seq(Task) /\ Len(q) \in Nat /\ n \in Nat
  BY <1>1, QueueFacts DEF TypeOK
<1>3. /\ pick \in [1..n -> 1..Len(q)] /\ DOMAIN pick = 1..n
      /\ \A i, j \in 1..n : pick[i] = pick[j] => i = j
  BY <1>1 DEF Injection, IsInjective
<1>4. PICK left : left = [i \in 1..n |-> q[pick[i]]]
  OBVIOUS
<1>5. left \in Seq(Task) /\ Len(left) = n /\ \A i \in 1..n : left[i] = q[pick[i]] /\ left[i] \in Task
  <2>1. \A i \in 1..n : q[pick[i]] \in Task
    BY <1>2, <1>3
  <2>2. left \in [1..n -> Task]
    BY <1>4, <2>1
  <2> QED BY <1>2, <1>4, <2>1, <2>2
<1>6. /\ consumed' = consumed \o SubSeq(left, 1, k)
      /\ tasks' = SubSeq(left, k + 1, Len(left))
      /\ disposed' = disposed \cup {q[i] : i \in DOMAIN q \ {pick[j] : j \in 1..n}}
      /\ swapped' = swapped \cup {<<left[e[1]], left[e[2]]>> :
            e \in {d \in (1..n) \X (1..n) : d[1] < d[2] /\ pick[d[1]] > pick[d[2]]}}
  BY <1>1, <1>3, <1>4, Zenon DEF WithTasksMut
<1>7. k \in 0..Len(left)
  BY <1>5
<1>8. PICK a, b : a = SubSeq(left, 1, k) /\ b = SubSeq(left, k + 1, Len(left))
  OBVIOUS
<1>9. a \in Seq(Task) /\ b \in Seq(Task) /\ a \o b = left
  BY <1>5, <1>7, <1>8, CutInTwo
<1>10. consumed' = consumed \o a /\ tasks' = b
  BY <1>6, <1>8
<1>11. /\ tasks' \in Seq(Task) /\ consumed' \in Seq(Task)
       /\ (consumed \o tasks)' = consumed \o left
  <2>1. (consumed \o a) \o b = consumed \o (a \o b)
    BY <1>2, <1>9, JoinAssociative
  <2> QED BY <1>2, <1>9, <1>10, <2>1
<1>12. \A t : t \in disposed' <=>
          t \in disposed \/
          \E i \in 1..Len(q) : t = q[i] /\ ~\E j \in 1..n : pick[j] = i
  <2>1. DOMAIN q = 1..Len(q)
    BY <1>2
  <2> QED BY <1>6, <2>1, Zenon
<1>13. disposed' \in SUBSET Task
  BY <1>2, <1>12 DEF TypeOK
<1>14. swapped' \in SUBSET (Task \X Task) /\ swapped \in SUBSET swapped'
  <2>1. \A e \in (1..n) \X (1..n) : <<left[e[1]], left[e[2]]>> \in Task \X Task
    BY <1>5
  <2> QED BY <1>6, <2>1 DEF TypeOK
<1>15. ASSUME NEW i \in 1..n, NEW j \in 1..n, i < j, ~(pick[i] < pick[j])
       PROVE  <<left[i], left[j]>> \in swapped'
  <2>1. pick[i] > pick[j]
    <3>1. pick[i] \in Nat /\ pick[j] \in Nat /\ pick[i] # pick[j]
      BY <1>3, <1>15
    <3> QED BY <1>15, <3>1
  <2> DEFINE D == {d \in (1..n) \X (1..n) : d[1] < d[2] /\ pick[d[1]] > pick[d[2]]}
  <2>2. PICK e : e = <<i, j>> /\ e \in D /\ e[1] = i /\ e[2] = j
    <3>1. PICK e : e = <<i, j>>
      OBVIOUS
    <3>2. e \in (1..n) \X (1..n) /\ e[1] = i /\ e[2] = j
      BY <1>15, <3>1
    <3>3. e[1] < e[2] /\ pick[e[1]] > pick[e[2]]
      BY <1>15, <2>1, <3>2
    <3> QED BY <3>1, <3>2, <3>3
  <2> HIDE DEF D
  <2>3. \A d \in D : <<left[d[1]], left[d[2]]>> \in swapped'
    BY <1>6, Zenon DEF D
  <2>4. <<left[e[1]], left[e[2]]>> \in swapped'
    BY <2>2, <2>3
  <2> QED BY <2>2, <2>4
<1> QED BY <1>1, <1>3, <1>5, <1>11, <1>12, <1>13, <1>14, <1>15

LEMMA InitIInv == Init => IInv
<1> SUFFICES ASSUME Init PROVE IInv
  OBVIOUS
<1>1. sent \in [Senders -> 0..MaxSends]
  BY OwnerQueueAssumption DEF Init
<1>2. /\ <<>> \in Seq(Task) /\ 0 \in Nat /\ {} \in SUBSET Task
      /\ {} \in SUBSET (Task \X Task)
  OBVIOUS
<1>3. TypeOK
  BY <1>1, <1>2, Zenon DEF Init, TypeOK
<1>4. ~HasWork /\ ~ready /\ sourceOpen
  BY DEF Init, HasWork
<1>5. Owned
  BY DEF Init, Owned
<1>6. QED
  BY <1>3, <1>4, <1>5, Zenon
     DEF IInv, ReadyExact, NoLostWake, ClosedHoldsNothing

\* A call of a producer route preserves the invariant.
LEMMA SendIInv ==
    ASSUME IInv, NEW p \in Producers, NEW k \in Nat, k > 0,
           sent[p] + k <= MaxSends,
           sent' = [sent EXCEPT ![p] = @ + k],
           IF sourceOpen THEN Accept(NewTasks(p, k)) ELSE Reject(NewTasks(p, k)),
           UNCHANGED <<sourceOpen, tasks, owner, consumed, swapped>>
    PROVE  IInv'
<1> DEFINE b == NewTasks(p, k)
<1>1. b \in Seq(Task) /\ b # <<>>
  BY NewTasksType DEF IInv, Senders
<1>2. sent' \in [Senders -> 0..MaxSends]
  BY OwnerQueueAssumption DEF IInv, TypeOK, Senders
<1> HIDE DEF b
<1>3. CASE sourceOpen
  <2>0. Accept(b)
    BY <1>3 DEF b
  <2>1. incoming' \in Seq(Task) /\ incoming' # <<>>
    BY <1>1, <2>0 DEF Accept, IInv, TypeOK
  <2>2. HasWork' /\ ready' /\ sourceOpen'
    BY <1>3, <2>0, <2>1 DEF Accept, HasWork
  <2>3. wakes' \in Nat /\ (~ready => wakes' > 0) /\ (ready => wakes' = wakes)
    BY <2>0 DEF Accept, IInv, TypeOK
  <2>4. TypeOK'
    BY <1>2, <2>0, <2>1, <2>3 DEF Accept, IInv, TypeOK
  <2>5. owner = "parked" /\ ready => wakes > 0
    BY <1>3 DEF IInv, ReadyExact, NoLostWake
  <2>6. NoLostWake'
    BY <2>3, <2>5 DEF NoLostWake, IInv, TypeOK
  <2>7. QED
    BY <2>2, <2>4, <2>6, Zenon DEF IInv, ReadyExact, ClosedHoldsNothing, Owned
<1>4. CASE ~sourceOpen
  <2>1. ToSet(b) \in SUBSET Task
    BY <1>1, ToSetType
  <2>2. QED
    BY <1>2, <1>4, <2>1
       DEF b, Reject, IInv, TypeOK, ReadyExact, NoLostWake,
           ClosedHoldsNothing, HasWork, Owned
<1>5. QED
  BY <1>3, <1>4

\* An owner call that leaves the source open, empties `incoming` and restates
\* `ready` from the deque it leaves behind preserves the invariant, as long
\* as the owner keeps running or leaves nothing behind.
LEMMA RestateIInv ==
    ASSUME IInv, Running,
           incoming' = <<>>,
           ready' = (tasks' # <<>>),
           owner' \in {"running", "parked"},
           owner' = "parked" => tasks' = <<>>,
           tasks' \in Seq(Task), consumed' \in Seq(Task),
           disposed' \in SUBSET Task, swapped' \in SUBSET (Task \X Task),
           UNCHANGED <<sourceOpen, wakes, sent>>
    PROVE  IInv'
<1>0. sourceOpen /\ sourceOpen'
  BY DEF IInv, Owned, Running
<1>1. TypeOK'
  BY DEF IInv, TypeOK
<1>2. ReadyExact' /\ ClosedHoldsNothing' /\ Owned'
  BY <1>0, Zenon DEF Owned, ReadyExact, ClosedHoldsNothing, HasWork
<1>3. NoLostWake'
  BY Zenon DEF NoLostWake, HasWork
<1>4. QED
  BY <1>1, <1>2, <1>3 DEF IInv

\* Every step of the specification preserves the invariant.
LEMMA NextIInv == IInv /\ [Next]_vars => IInv'
<1> SUFFICES ASSUME IInv, [Next]_vars PROVE IInv'
  OBVIOUS
<1>0. /\ Queue \in Seq(Task) /\ (Queue # <<>> <=> HasWork)
      /\ ToSet(Queue) \in SUBSET Task
  BY QueueFacts, ToSetType DEF IInv
<1>1. ASSUME NEW p \in Producers, Send(p) PROVE IInv'
  <2>1. sent[p] + 1 <= MaxSends
    BY <1>1, WithinBudget DEF Send, IInv, Senders
  <2>2. 1 \in Nat /\ 1 > 0
    OBVIOUS
  <2>3. QED
    BY <1>1, <2>1, <2>2, SendIInv, Zenon DEF Send
<1>2. ASSUME NEW p \in Producers, NEW k \in 1..MaxBatch, SendAll(p, k)
      PROVE IInv'
  <2>1. k \in Nat
    BY OwnerQueueAssumption
  <2>2. sent[p] + k <= MaxSends
    BY <1>2, <2>1, WithinBudget DEF SendAll, IInv, Senders
  <2>3. QED
    BY <1>2, <2>1, <2>2, SendIInv DEF SendAll
<1>3. CASE ReceiveWake
  BY <1>3 DEF ReceiveWake, IInv, TypeOK, ReadyExact, NoLostWake,
              ClosedHoldsNothing, Owned, HasWork
<1>4. CASE OtherTurn
  BY <1>4 DEF OtherTurn, IInv, TypeOK, ReadyExact, NoLostWake,
              ClosedHoldsNothing, Owned, HasWork
<1>5. CASE EnqueueLocal
  <2>1. sourceOpen /\ owner' = "running" /\ sourceOpen'
    BY <1>5 DEF EnqueueLocal, Running, IInv, Owned
  <2>2. NewTasks(Owner, 1) \in Seq(Task) /\ NewTasks(Owner, 1) # <<>>
    <3>1. sent[Owner] + 1 <= MaxSends /\ Owner \in Senders
      BY <1>5, WithinBudget DEF EnqueueLocal, IInv, Senders
    <3>2. QED
      BY <3>1, NewTasksType DEF IInv
  <2>3. tasks' \in Seq(Task) /\ tasks' # <<>>
    BY <1>5, <2>2 DEF EnqueueLocal, IInv, TypeOK
  <2>4. sent' \in [Senders -> 0..MaxSends]
    BY <1>5, OwnerQueueAssumption
       DEF EnqueueLocal, IInv, TypeOK, Senders
  <2>5. TypeOK'
    BY <1>5, <2>3, <2>4 DEF EnqueueLocal, IInv, TypeOK
  <2>6. HasWork' /\ ready'
    BY <1>5, <2>3 DEF EnqueueLocal, HasWork
  <2>7. QED
    BY <2>1, <2>5, <2>6, Zenon
       DEF IInv, ReadyExact, NoLostWake, ClosedHoldsNothing, Owned
<1>6. CASE Inspect
  BY <1>0, <1>6, RestateIInv DEF Inspect, Running, IInv, TypeOK
<1>7. CASE PopFront
  <2>1. tasks' \in Seq(Task) /\ consumed' \in Seq(Task)
    <3>1. CASE Queue = <<>>
      BY <1>7, <3>1 DEF PopFront, IInv, TypeOK
    <3>2. CASE Queue # <<>>
      <4> DEFINE q == Queue
      <4>1. q \in Seq(Task) /\ q # <<>>
        BY <1>0, <3>2
      <4>2. tasks' = Tail(q) /\ consumed' = Append(consumed, Head(q))
        BY <1>7, <3>2 DEF PopFront
      <4> HIDE DEF q
      <4>3. QED
        BY <4>1, <4>2 DEF IInv, TypeOK
    <3>3. QED
      BY <3>1, <3>2
  <2>2. QED
    BY <1>7, <2>1, RestateIInv DEF PopFront, Running, IInv, TypeOK
<1>8. CASE IsEmpty
  BY <1>0, <1>8, RestateIInv DEF IsEmpty, Running, IInv, TypeOK
<1>9. ASSUME NEW n \in 0..Len(Queue), NEW pick \in Injection(1..n, 1..Len(Queue)),
             NEW k \in 0..n, WithTasksMut(pick, k)
      PROVE  IInv'
  <2>1. /\ tasks' \in Seq(Task) /\ consumed' \in Seq(Task)
        /\ disposed' \in SUBSET Task /\ swapped' \in SUBSET (Task \X Task)
    BY <1>9, EditFacts DEF IInv
  <2>2. QED
    BY <1>9, <2>1, RestateIInv DEF WithTasksMut, Running, IInv, TypeOK
<1>10. CASE ClearLocal
  <2>1. disposed' \in SUBSET Task /\ tasks' \in Seq(Task)
    BY <1>0, <1>10 DEF ClearLocal, IInv, TypeOK
  <2>2. ready' = (tasks' # <<>>)
    BY <1>10, Zenon DEF ClearLocal
  <2>3. QED
    BY <1>10, <2>1, <2>2, RestateIInv DEF ClearLocal, Running, IInv, TypeOK
<1>11. CASE DropSource
  <2>1. disposed' \in SUBSET Task /\ <<>> \in Seq(Task)
    BY <1>0, <1>11 DEF DropSource, IInv, TypeOK
  <2>2. TypeOK'
    BY <1>11, <2>1, Zenon DEF DropSource, IInv, TypeOK
  <2>3. ~sourceOpen' /\ ~ready' /\ ~HasWork' /\ owner' = "gone"
    BY <1>11 DEF DropSource, HasWork
  <2>4. QED
    BY <2>2, <2>3, Zenon
       DEF IInv, ReadyExact, NoLostWake, ClosedHoldsNothing, Owned
<1>12. CASE UNCHANGED vars
  BY <1>12 DEF vars, IInv, TypeOK, ReadyExact, NoLostWake,
               ClosedHoldsNothing, Owned, HasWork
<1>13. QED
  BY <1>1, <1>2, <1>3, <1>4, <1>5, <1>6, <1>7, <1>8, <1>9, <1>10, <1>11,
     <1>12 DEF Next, OwnerStep

LEMMA SpecIInv == Spec => []IInv
  BY InitIInv, NextIInv, PTL DEF Spec

\* The queue, its histories and the wake counter keep their types.
THEOREM TypeCorrect == Spec => []TypeOK
<1>1. IInv => TypeOK
  BY DEF IInv
<1>2. QED
  BY <1>1, SpecIInv, PTL

\* An owner asleep on an open source that holds work has a wake on its way,
\* for any number of producers and tasks.
THEOREM WakesAreNeverLost == Spec => []NoLostWake
<1>1. IInv => NoLostWake
  BY DEF IInv
<1>2. QED
  BY <1>1, SpecIInv, PTL

\* `ready` is exact after every call on an open source.
THEOREM ReadinessIsExact == Spec => []ReadyExact
<1>1. IInv => ReadyExact
  BY DEF IInv
<1>2. QED
  BY <1>1, SpecIInv, PTL

\* A dropped source holds no payload behind its surviving routes.
THEOREM ClosedSourceIsEmpty == Spec => []ClosedHoldsNothing
<1>1. IInv => ClosedHoldsNothing
  BY DEF IInv
<1>2. QED
  BY <1>1, SpecIInv, PTL

\* A wake is published only by a step that makes an empty source nonempty:
\* the edge-triggered half of the route's contract.
THEOREM WakesOnlyOnEdges == Spec => WakeOnlyOnEdge
<1>1. IInv /\ IInv' /\ [Next]_vars => [wakes' > wakes => ~HasWork /\ HasWork']_vars
  <2> SUFFICES ASSUME IInv, IInv', [Next]_vars, wakes' > wakes
               PROVE  ~HasWork /\ HasWork'
    BY DEF vars
  <2>1. ASSUME NEW b, sourceOpen, sourceOpen' = sourceOpen, Accept(b)
        PROVE  ~HasWork /\ HasWork'
    <3>1. ~ready
      BY <2>1 DEF Accept, IInv, TypeOK
    <3>2. ready' /\ sourceOpen'
      BY <2>1 DEF Accept
    <3>3. QED
      BY <2>1, <3>1, <3>2, Zenon DEF IInv, ReadyExact
  <2>2. ASSUME NEW p \in Producers, Send(p) PROVE ~HasWork /\ HasWork'
    BY <2>1, <2>2 DEF Send, Reject, IInv, TypeOK
  <2>3. ASSUME NEW p \in Producers, NEW k \in 1..MaxBatch, SendAll(p, k)
        PROVE  ~HasWork /\ HasWork'
    BY <2>1, <2>3 DEF SendAll, Reject, IInv, TypeOK
  <2>4. CASE OwnerStep
    <3>1. wakes \in Nat
      BY DEF IInv, TypeOK
    <3>2. wakes' = wakes \/ (wakes > 0 /\ wakes' = wakes - 1)
      BY <2>4, Zenon DEF OwnerStep, ReceiveWake, OtherTurn, EnqueueLocal, Inspect,
          PopFront, IsEmpty, WithTasksMut, ClearLocal, DropSource
    <3>3. QED
      BY <3>1, <3>2
  <2>5. CASE UNCHANGED vars
    BY <2>5 DEF vars, IInv, TypeOK
  <2>6. QED
    BY <2>2, <2>3, <2>4, <2>5 DEF Next
<1>2. QED
  BY <1>1, SpecIInv, PTL DEF Spec, WakeOnlyOnEdge

-----------------------------------------------------------------------------
(* What the owner dequeues.                                                *)

\* A task is in a sequence; a sequence has no task twice and each sender's
\* tasks in order, and each batch in one piece, but for the pairs in W; s is t
\* with some tasks left out and only pairs of W exchanged.
In(s, t) == \E i \in 1..Len(s) : s[i] = t

SameBatch(t, u) == t.from = u.from /\ t.batch = u.batch

Ordered(s, W) ==
    \A i, j \in 1..Len(s) : i < j =>
        /\ s[i] # s[j]
        /\ s[i].from = s[j].from => s[i].seq < s[j].seq \/ <<s[i], s[j]>> \in W

Whole(s, W) ==
    \A i, j, k \in 1..Len(s) :
        i < k /\ k < j /\ SameBatch(s[i], s[j]) =>
            SameBatch(s[i], s[k]) \/ <<s[i], s[k]>> \in W \/ <<s[k], s[j]>> \in W

Embeds(f, s, t, W) ==
    /\ f \in [1..Len(s) -> 1..Len(t)]
    /\ \A i, j \in 1..Len(s) : i < j =>
          f[i] < f[j] \/ (f[j] < f[i] /\ <<s[i], s[j]>> \in W)
    /\ \A i \in 1..Len(s) : s[i] = t[f[i]]

Thins(s, t, W) == \E f : Embeds(f, s, t, W)

\* Nothing is in the empty sequence.
LEMMA InEmpty == \A t : ~In(<<>>, t)
BY DEF In

\* Membership in a sequence is membership in its set of elements.
LEMMA InToSet ==
    ASSUME NEW s \in Seq(Task)
    PROVE  \A t : t \in ToSet(s) <=> In(s, t)
BY DEF ToSet, In

\* A sequence of tasks holds tasks.
LEMMA InTask ==
    ASSUME NEW s \in Seq(Task), NEW t, In(s, t)
    PROVE  t \in Task
BY DEF In

\* Positions in two sequences one after the other.
LEMMA JoinIndex ==
    ASSUME NEW a \in Seq(Task), NEW b \in Seq(Task)
    PROVE  /\ a \o b \in Seq(Task)
           /\ Len(a) \in Nat /\ Len(b) \in Nat /\ Len(a \o b) = Len(a) + Len(b)
           /\ \A i \in 1..Len(a) : i \in 1..Len(a \o b) /\ (a \o b)[i] = a[i]
           /\ \A i \in 1..Len(b) : i + Len(a) \in 1..Len(a \o b) /\ (a \o b)[i + Len(a)] = b[i]
           /\ \A i \in 1..Len(a \o b) : ~(i \in 1..Len(a)) =>
                  /\ i - Len(a) \in 1..Len(b) /\ i > Len(a)
                  /\ (a \o b)[i] = b[i - Len(a)]
OBVIOUS

\* Two sequences one after the other.
LEMMA JoinFacts ==
    ASSUME NEW a \in Seq(Task), NEW b \in Seq(Task), NEW W
    PROVE  /\ a \o b \in Seq(Task)
           /\ \A t : In(a \o b, t) <=> In(a, t) \/ In(b, t)
           /\ Ordered(a, W) /\ Ordered(b, W)
              /\ (\A t, u \in Task : In(a, t) /\ In(b, u) =>
                    t # u /\ (t.from = u.from => t.seq < u.seq))
              => Ordered(a \o b, W)
           /\ Whole(a, W) /\ Whole(b, W)
              /\ (\A t, u \in Task : In(a, t) /\ In(b, u) => ~SameBatch(t, u))
              => Whole(a \o b, W)
<1>1. PICK s : s = a \o b
  OBVIOUS
<1>2. PICK n \in Nat : n = Len(a)
  OBVIOUS
<1>3. /\ s \in Seq(Task) /\ Len(b) \in Nat /\ Len(s) = n + Len(b)
      /\ \A i \in 1..n : i \in 1..Len(s) /\ s[i] = a[i]
      /\ \A i \in 1..Len(b) : i + n \in 1..Len(s) /\ s[i + n] = b[i]
      /\ \A i \in 1..Len(s) : ~(i \in 1..n) =>
            i - n \in 1..Len(b) /\ i > n /\ s[i] = b[i - n]
  BY <1>1, <1>2, JoinIndex
<1>4. /\ \A i \in 1..n : a[i] \in Task /\ In(a, a[i])
      /\ \A i \in 1..Len(b) : b[i] \in Task /\ In(b, b[i])
  BY <1>2 DEF In
<1>5. \A t : In(s, t) <=> In(a, t) \/ In(b, t)
  <2> SUFFICES ASSUME NEW t PROVE In(s, t) <=> In(a, t) \/ In(b, t)
    OBVIOUS
  <2>1. In(s, t) => In(a, t) \/ In(b, t)
    <3> SUFFICES ASSUME NEW i \in 1..Len(s), s[i] = t PROVE In(a, t) \/ In(b, t)
      BY DEF In
    <3>1. CASE i \in 1..n
      BY <1>3, <1>4, <3>1
    <3>2. CASE ~(i \in 1..n)
      BY <1>3, <1>4, <3>2
    <3> QED BY <3>1, <3>2
  <2>2. In(a, t) => In(s, t)
    BY <1>2, <1>3 DEF In
  <2>3. In(b, t) => In(s, t)
    <3> SUFFICES ASSUME NEW i \in 1..Len(b), b[i] = t PROVE In(s, t)
      BY DEF In
    <3>1. i + n \in 1..Len(s) /\ s[i + n] = t
      BY <1>3
    <3> QED BY <3>1 DEF In
  <2> QED BY <2>1, <2>2, <2>3
<1>6. ASSUME Ordered(a, W), Ordered(b, W),
             \A t, u \in Task : In(a, t) /\ In(b, u) =>
                t # u /\ (t.from = u.from => t.seq < u.seq)
      PROVE  Ordered(s, W)
  <2> SUFFICES ASSUME NEW i \in 1..Len(s), NEW j \in 1..Len(s), i < j
               PROVE  /\ s[i] # s[j]
                      /\ s[i].from = s[j].from =>
                            s[i].seq < s[j].seq \/ <<s[i], s[j]>> \in W
    BY DEF Ordered
  <2>1. CASE i \in 1..n /\ j \in 1..n
    BY <1>2, <1>3, <1>6, <2>1 DEF Ordered
  <2>2. CASE i \in 1..n /\ ~(j \in 1..n)
    <3>1. s[i] = a[i] /\ s[j] = b[j - n] /\ j - n \in 1..Len(b)
      BY <1>3, <2>2
    <3>2. s[i] \in Task /\ In(a, s[i]) /\ s[j] \in Task /\ In(b, s[j])
      BY <1>4, <2>2, <3>1
    <3> QED BY <1>6, <3>2
  <2>3. CASE ~(i \in 1..n)
    <3>1. ~(j \in 1..n)
      BY <1>3, <2>3
    <3>2. /\ s[i] = b[i - n] /\ s[j] = b[j - n] /\ i - n \in 1..Len(b) /\ j - n \in 1..Len(b)
          /\ i - n < j - n
      BY <1>3, <2>3, <3>1
    <3> QED BY <1>6, <3>2 DEF Ordered
  <2> QED BY <2>1, <2>2, <2>3
<1>7. ASSUME Whole(a, W), Whole(b, W), \A t, u \in Task : In(a, t) /\ In(b, u) => ~SameBatch(t, u)
      PROVE  Whole(s, W)
  <2> SUFFICES ASSUME NEW i \in 1..Len(s), NEW j \in 1..Len(s), NEW k \in 1..Len(s),
                      i < k, k < j, SameBatch(s[i], s[j])
               PROVE  \/ SameBatch(s[i], s[k])
                      \/ <<s[i], s[k]>> \in W \/ <<s[k], s[j]>> \in W
    BY DEF Whole
  <2>1. CASE j \in 1..n
    <3>1. i \in 1..n /\ k \in 1..n
      BY <1>3, <2>1
    <3> QED BY <1>2, <1>3, <1>7, <2>1, <3>1 DEF Whole
  <2>2. CASE i \in 1..n /\ ~(j \in 1..n)
    <3>1. s[i] = a[i] /\ s[j] = b[j - n] /\ j - n \in 1..Len(b)
      BY <1>3, <2>2
    <3>2. s[i] \in Task /\ In(a, s[i]) /\ s[j] \in Task /\ In(b, s[j])
      BY <1>4, <2>2, <3>1
    <3> QED BY <1>7, <3>2
  <2>3. CASE ~(i \in 1..n)
    <3>1. ~(j \in 1..n) /\ ~(k \in 1..n)
      BY <1>3, <2>3
    <3>2. /\ s[i] = b[i - n] /\ s[j] = b[j - n] /\ s[k] = b[k - n]
          /\ i - n \in 1..Len(b) /\ j - n \in 1..Len(b) /\ k - n \in 1..Len(b)
      BY <1>3, <2>3, <3>1
    <3>3. i - n < k - n /\ k - n < j - n
      BY <1>3
    <3> QED BY <1>7, <3>2, <3>3 DEF Whole
  <2> QED BY <2>1, <2>2, <2>3
<1> QED BY <1>1, <1>3, <1>5, <1>6, <1>7

\* The empty sequence is the unit of concatenation.
LEMMA JoinEmpty ==
    ASSUME NEW a \in Seq(Task)
    PROVE  a \o <<>> = a
OBVIOUS

\* Dequeuing moves the head over.
LEMMA MoveHead ==
    ASSUME NEW c \in Seq(Task), NEW q \in Seq(Task), q # <<>>
    PROVE  Append(c, Head(q)) \o Tail(q) = c \o q
OBVIOUS

\* Leaving tasks out and exchanging pairs of W keeps the rest of the order
\* and of the batches.
LEMMA ThinFacts ==
    ASSUME NEW s \in Seq(Task), NEW t \in Seq(Task), NEW W, NEW V \in SUBSET W,
           Thins(s, t, W)
    PROVE  /\ \A x : In(s, x) => In(t, x)
           /\ Ordered(t, V) => Ordered(s, W)
           /\ Whole(t, V) => Whole(s, W)
<1>1. PICK f : Embeds(f, s, t, W)
  BY DEF Thins
<1>2. /\ f \in [1..Len(s) -> 1..Len(t)]
      /\ \A i, j \in 1..Len(s) : i < j =>
            f[i] < f[j] \/ (f[j] < f[i] /\ <<s[i], s[j]>> \in W)
      /\ \A i \in 1..Len(s) : s[i] = t[f[i]] /\ f[i] \in 1..Len(t)
  BY <1>1 DEF Embeds
<1>3. \A x : In(s, x) => In(t, x)
  BY <1>2 DEF In
<1>4. ASSUME Ordered(t, V) PROVE Ordered(s, W)
  <2> SUFFICES ASSUME NEW i \in 1..Len(s), NEW j \in 1..Len(s), i < j
               PROVE  /\ s[i] # s[j]
                      /\ s[i].from = s[j].from =>
                            s[i].seq < s[j].seq \/ <<s[i], s[j]>> \in W
    BY DEF Ordered
  <2>1. s[i] = t[f[i]] /\ s[j] = t[f[j]] /\ f[i] \in 1..Len(t) /\ f[j] \in 1..Len(t)
    BY <1>2
  <2>2. CASE f[i] < f[j]
    BY <1>4, <2>1, <2>2 DEF Ordered
  <2>3. CASE f[j] < f[i] /\ <<s[i], s[j]>> \in W
    <3>1. t[f[j]] # t[f[i]]
      BY <1>4, <2>1, <2>3 DEF Ordered
    <3> QED BY <2>1, <2>3, <3>1
  <2> QED BY <1>2, <2>2, <2>3
<1>5. ASSUME Whole(t, V) PROVE Whole(s, W)
  <2> SUFFICES ASSUME NEW i \in 1..Len(s), NEW j \in 1..Len(s), NEW k \in 1..Len(s),
                      i < k, k < j, SameBatch(s[i], s[j]),
                      <<s[i], s[k]>> \notin W, <<s[k], s[j]>> \notin W
               PROVE  SameBatch(s[i], s[k])
    BY DEF Whole
  <2>1. f[i] < f[k] /\ f[k] < f[j]
    BY <1>2
  <2>2. /\ s[i] = t[f[i]] /\ s[j] = t[f[j]] /\ s[k] = t[f[k]]
        /\ f[i] \in 1..Len(t) /\ f[j] \in 1..Len(t) /\ f[k] \in 1..Len(t)
    BY <1>2
  <2> QED BY <1>5, <2>1, <2>2 DEF Whole
<1> QED BY <1>3, <1>4, <1>5

\* A sequence thins itself, and the empty sequence thins every sequence.
LEMMA ThinSelf ==
    ASSUME NEW s \in Seq(Task), NEW W
    PROVE  Thins(s, s, W)
<1>1. Embeds([i \in 1..Len(s) |-> i], s, s, W)
  BY DEF Embeds
<1> QED BY <1>1 DEF Thins

LEMMA ThinToNothing ==
    ASSUME NEW s \in Seq(Task), NEW W
    PROVE  Thins(<<>>, s, W)
<1>1. Embeds(<<>>, <<>>, s, W)
  BY DEF Embeds
<1> QED BY <1>1 DEF Thins

\* Leaving tasks out of the second of two sequences.
LEMMA ThinTail ==
    ASSUME NEW c \in Seq(Task), NEW s \in Seq(Task), NEW t \in Seq(Task), NEW W,
           Thins(s, t, W)
    PROVE  Thins(c \o s, c \o t, W)
<1>1. PICK f : Embeds(f, s, t, W)
  BY DEF Thins
<1>2. /\ f \in [1..Len(s) -> 1..Len(t)]
      /\ \A i, j \in 1..Len(s) : i < j =>
            f[i] < f[j] \/ (f[j] < f[i] /\ <<s[i], s[j]>> \in W)
      /\ \A i \in 1..Len(s) : s[i] = t[f[i]] /\ f[i] \in 1..Len(t)
  BY <1>1 DEF Embeds
<1>3. PICK u, v, n : u = c \o s /\ v = c \o t /\ n = Len(c)
  OBVIOUS
<1>4. /\ Len(u) \in Nat /\ n \in Nat /\ \A i \in 1..n : i \in 1..Len(u) /\ u[i] = c[i]
      /\ \A i \in 1..Len(u) : ~(i \in 1..n) => i - n \in 1..Len(s) /\ i > n /\ u[i] = s[i - n]
  BY <1>3, JoinIndex
<1>5. /\ Len(v) \in Nat /\ \A i \in 1..n : i \in 1..Len(v) /\ v[i] = c[i]
      /\ \A i \in 1..Len(t) : i + n \in 1..Len(v) /\ v[i + n] = t[i]
  BY <1>3, JoinIndex
<1> DEFINE g == [i \in 1..Len(u) |-> IF i \in 1..n THEN i ELSE f[i - n] + n]
<1>6. \A i \in 1..Len(u) : g[i] \in 1..Len(v) /\ u[i] = v[g[i]]
  <2> SUFFICES ASSUME NEW i \in 1..Len(u) PROVE g[i] \in 1..Len(v) /\ u[i] = v[g[i]]
    OBVIOUS
  <2>1. CASE i \in 1..n
    BY <1>4, <1>5, <2>1
  <2>2. CASE ~(i \in 1..n)
    <3>1. i - n \in 1..Len(s) /\ u[i] = s[i - n] /\ g[i] = f[i - n] + n
      BY <1>4, <2>2
    <3>2. f[i - n] \in 1..Len(t) /\ s[i - n] = t[f[i - n]]
      BY <1>2, <3>1
    <3> QED BY <1>5, <3>1, <3>2
  <2> QED BY <2>1, <2>2
<1>7. \A i, j \in 1..Len(u) : i < j =>
         g[i] < g[j] \/ (g[j] < g[i] /\ <<u[i], u[j]>> \in W)
  <2> SUFFICES ASSUME NEW i \in 1..Len(u), NEW j \in 1..Len(u), i < j
               PROVE  g[i] < g[j] \/ (g[j] < g[i] /\ <<u[i], u[j]>> \in W)
    OBVIOUS
  <2>1. CASE i \in 1..n /\ j \in 1..n
    BY <2>1
  <2>2. CASE i \in 1..n /\ ~(j \in 1..n)
    <3>1. j - n \in 1..Len(s) /\ g[j] = f[j - n] + n /\ g[i] = i
      BY <1>4, <2>2
    <3>2. f[j - n] \in 1..Len(t) /\ Len(t) \in Nat
      BY <1>2, <3>1
    <3>3. n \in Nat /\ i <= n /\ f[j - n] \in Nat /\ f[j - n] > 0
      BY <1>4, <2>2, <3>2
    <3> HIDE DEF g
    <3> QED BY <3>1, <3>3
  <2>3. CASE ~(i \in 1..n)
    <3>1. ~(j \in 1..n)
      BY <1>4, <2>3
    <3>2. /\ i - n \in 1..Len(s) /\ j - n \in 1..Len(s) /\ i - n < j - n
          /\ g[i] = f[i - n] + n /\ g[j] = f[j - n] + n
          /\ u[i] = s[i - n] /\ u[j] = s[j - n]
      BY <1>4, <2>3, <3>1
    <3>3. /\ f[i - n] \in Nat /\ f[j - n] \in Nat /\ n \in Nat
          /\ \/ f[i - n] < f[j - n]
             \/ f[j - n] < f[i - n] /\ <<s[i - n], s[j - n]>> \in W
      <4>1. PICK x \in 1..Len(s), y \in 1..Len(s) : x = i - n /\ y = j - n /\ x < y
        BY <3>2
      <4>2. f[x] \in Nat /\ f[y] \in Nat
        BY <1>2
      <4>3. f[x] < f[y] \/ (f[y] < f[x] /\ <<s[x], s[y]>> \in W)
        BY <1>2, <4>1
      <4> QED BY <1>4, <4>1, <4>2, <4>3
    <3> HIDE DEF g
    <3> QED BY <3>2, <3>3
  <2> QED BY <2>1, <2>2, <2>3
<1>8. Embeds(g, u, v, W)
  <2>1. g \in [1..Len(u) -> 1..Len(v)]
    BY <1>6
  <2> QED BY <1>6, <1>7, <2>1 DEF Embeds
<1> HIDE DEF g
<1>9. Thins(u, v, W)
  BY <1>8 DEF Thins
<1> QED BY <1>3, <1>9

\* The tasks of one call: one batch, numbered on from what was sent before.
LEMMA NewTasksFacts ==
    ASSUME TypeOK, NEW s \in Senders, NEW k \in Nat, k > 0, sent[s] + k <= MaxSends,
           NEW W
    PROVE  /\ NewTasks(s, k) \in Seq(Task)
           /\ Ordered(NewTasks(s, k), W) /\ Whole(NewTasks(s, k), W)
           /\ \A t : In(NewTasks(s, k), t) =>
                 t.from = s /\ t.seq \in (sent[s] + 1)..(sent[s] + k) /\ t.batch = sent[s] + 1
           /\ \A n \in (sent[s] + 1)..(sent[s] + k) :
                 \E t \in Task : In(NewTasks(s, k), t) /\ t.from = s /\ t.seq = n
<1>1. PICK n : n = sent[s]
  OBVIOUS
<1>2. n \in Nat
  BY <1>1 DEF TypeOK
<1>3. PICK b : b = NewTasks(s, k)
  OBVIOUS
<1>4. b \in Seq(Task)
  BY <1>3, NewTasksType
<1>5. /\ Len(b) = k
      /\ \A i \in 1..k : b[i].from = s /\ b[i].seq = n + i /\ b[i].batch = n + 1
  BY <1>1, <1>3 DEF NewTasks
<1>6. Ordered(b, W)
  BY <1>2, <1>5 DEF Ordered
<1>7. Whole(b, W)
  BY <1>5 DEF Whole, SameBatch
<1>8. \A t : In(b, t) => t.from = s /\ t.seq \in (n + 1)..(n + k) /\ t.batch = n + 1
  BY <1>2, <1>5 DEF In
<1>9. \A m \in (n + 1)..(n + k) : \E t \in Task : In(b, t) /\ t.from = s /\ t.seq = m
  <2> SUFFICES ASSUME NEW m \in (n + 1)..(n + k)
               PROVE  \E t \in Task : In(b, t) /\ t.from = s /\ t.seq = m
    OBVIOUS
  <2>1. m - n \in 1..k /\ n + (m - n) = m
    BY <1>2
  <2>2. b[m - n] \in Task /\ In(b, b[m - n]) /\ b[m - n].from = s /\ b[m - n].seq = m
    BY <1>4, <1>5, <2>1 DEF In
  <2> QED BY <2>2
<1> QED BY <1>1, <1>3, <1>4, <1>6, <1>7, <1>8, <1>9

\* The delivery invariant over the line ahead of the owner A (dequeued, then
\* local), the arrivals I, the disposed tasks D and the send counters n.  The
\* properties are not inductive by themselves: `enqueue_local` inserts between
\* A and I, so the two are kept in order and in one piece separately, share no
\* batch, and I holds nothing of the owner's.
Line(A, I, D, n, W) ==
    /\ Ordered(A, W) /\ Whole(A, W) /\ Ordered(I, W) /\ Whole(I, W)
    /\ \A t, u \in Task : In(A, t) /\ In(I, u) =>
          ~SameBatch(t, u) /\ (t.from = u.from => t.seq < u.seq)
    /\ \A t \in Task : In(I, t) => t.from # Owner
    /\ \A t \in Task : In(A, t) \/ In(I, t) => t \notin D
    /\ \A t \in Task : In(A, t) \/ In(I, t) \/ t \in D =>
          t.seq <= n[t.from] /\ t.batch <= t.seq
    /\ \A s \in Senders : \A m \in 1..n[s] :
          \E t \in Task : /\ t.from = s /\ t.seq = m
                          /\ In(A, t) \/ In(I, t) \/ t \in D

\* b is what one call of s sends: k tasks numbered on from m, in one batch.
Fresh(b, s, m, k, W) ==
    /\ b \in Seq(Task) /\ Ordered(b, W) /\ Whole(b, W)
    /\ \A t \in Task : In(b, t) => t.from = s /\ t.seq \in (m + 1)..(m + k) /\ t.batch = m + 1
    /\ \A i \in (m + 1)..(m + k) :
          \E t \in Task : In(b, t) /\ t.from = s /\ t.seq = i

\* An owner call takes the arrivals over; it may exchange pairs and leave
\* tasks out, all of which it disposes of.
LEMMA LineShrinks ==
    ASSUME NEW A \in Seq(Task), NEW I \in Seq(Task), NEW D \in SUBSET Task, NEW n,
           NEW W, NEW V \in SUBSET W, Line(A, I, D, n, V),
           NEW B \in Seq(Task), NEW E \in SUBSET Task,
           Thins(B, A \o I, W),
           \A t \in Task : t \in E <=> t \in D \/ ((In(A, t) \/ In(I, t)) /\ ~In(B, t))
    PROVE  Line(B, <<>>, E, n, W)
<1>1. PICK s : s = A \o I
  OBVIOUS
<1>2. /\ s \in Seq(Task) /\ Ordered(s, V) /\ Whole(s, V)
      /\ \A t : In(s, t) <=> In(A, t) \/ In(I, t)
  <2>1. \A t, u \in Task : In(A, t) /\ In(I, u) =>
           t # u /\ ~SameBatch(t, u) /\ (t.from = u.from => t.seq < u.seq)
    BY DEF Line, SameBatch
  <2> QED BY <1>1, <2>1, JoinFacts DEF Line
<1>3. /\ \A t : In(B, t) => In(A, t) \/ In(I, t)
      /\ Ordered(B, W) /\ Whole(B, W)
  BY <1>1, <1>2, ThinFacts
<1>4. /\ \A t : ~In(<<>>, t)
      /\ Ordered(<<>>, W) /\ Whole(<<>>, W)
  BY InEmpty DEF Ordered, Whole
<1>5. \A t \in Task : In(B, t) \/ t \in E <=> In(A, t) \/ In(I, t) \/ t \in D
  BY <1>3
<1>6. \A t \in Task : In(B, t) => t \notin E
  BY <1>3 DEF Line
<1>7. \A t \in Task : In(B, t) \/ In(<<>>, t) \/ t \in E =>
          t.seq <= n[t.from] /\ t.batch <= t.seq
  BY <1>4, <1>5 DEF Line
<1>8. \A q \in Senders : \A m \in 1..n[q] :
          \E t \in Task : /\ t.from = q /\ t.seq = m
                          /\ In(B, t) \/ In(<<>>, t) \/ t \in E
  BY <1>4, <1>5 DEF Line
<1> QED BY <1>3, <1>4, <1>6, <1>7, <1>8 DEF Line

\* b lies above everything seen, and w counts it.
Above(A, I, D, b, s, w) ==
    /\ \A t, u \in Task : (In(A, t) \/ In(I, t) \/ t \in D) /\ In(b, u) =>
          /\ ~SameBatch(t, u) /\ t # u /\ u.from = s
          /\ t.from = u.from => t.seq < u.seq
    /\ \A t \in Task : In(A, t) \/ In(I, t) \/ In(b, t) \/ t \in D =>
          t.seq <= w[t.from] /\ t.batch <= t.seq
    /\ \A q \in Senders : \A m \in 1..w[q] :
          \E t \in Task : /\ t.from = q /\ t.seq = m
                          /\ In(A, t) \/ In(I, t) \/ In(b, t) \/ t \in D

\* Fresh tasks are numbered above everything seen, and the counter follows.
LEMMA FreshFacts ==
    ASSUME NEW A \in Seq(Task), NEW I \in Seq(Task), NEW D \in SUBSET Task,
           NEW n \in [Senders -> 0..MaxSends], NEW W, Line(A, I, D, n, W),
           NEW s \in Senders, NEW k \in Nat, NEW b, Fresh(b, s, n[s], k, W)
    PROVE  Above(A, I, D, b, s, [n EXCEPT ![s] = @ + k])
<1>1. PICK c : c = n[s]
  OBVIOUS
<1>2. c \in Nat /\ MaxSends \in Nat /\ \A q \in Senders : n[q] \in Nat
  BY <1>1, OwnerQueueAssumption
<1>3. PICK w : w = [n EXCEPT ![s] = @ + k]
  OBVIOUS
<1>4. w[s] = c + k /\ \A q \in Senders : q # s => w[q] = n[q]
  BY <1>1, <1>3
<1>5. \A t \in Task : t.from \in Senders /\ t.seq \in Nat /\ t.batch \in Nat
  BY <1>2 DEF Task
<1>6. \A t \in Task : In(A, t) \/ In(I, t) \/ t \in D =>
         t.seq <= n[t.from] /\ t.batch <= t.seq
  BY DEF Line
<1>7. \A t \in Task : In(b, t) => t.from = s /\ t.seq \in (c + 1)..(c + k) /\ t.batch = c + 1
  BY <1>1 DEF Fresh
<1>8. \A t, u \in Task : (In(A, t) \/ In(I, t) \/ t \in D) /\ In(b, u) =>
         /\ ~SameBatch(t, u) /\ t # u /\ u.from = s
         /\ t.from = u.from => t.seq < u.seq
  <2> SUFFICES ASSUME NEW t \in Task, NEW u \in Task, In(A, t) \/ In(I, t) \/ t \in D, In(b, u)
               PROVE  /\ ~SameBatch(t, u) /\ t # u /\ u.from = s
                      /\ t.from = u.from => t.seq < u.seq
    OBVIOUS
  <2>1. /\ u.from = s /\ u.seq > c /\ u.batch = c + 1 /\ u.seq \in Nat
        /\ t.seq \in Nat /\ t.batch \in Nat
        /\ t.batch <= t.seq /\ t.seq <= n[t.from]
    BY <1>2, <1>5, <1>6, <1>7
  <2>2. CASE t.from = s
    BY <1>1, <1>2, <2>1, <2>2 DEF SameBatch
  <2>3. CASE t.from # s
    BY <2>1, <2>3 DEF SameBatch
  <2> QED BY <2>2, <2>3
<1>9. \A t \in Task : In(A, t) \/ In(I, t) \/ In(b, t) \/ t \in D =>
         t.seq <= w[t.from] /\ t.batch <= t.seq
  <2> SUFFICES ASSUME NEW t \in Task, In(A, t) \/ In(I, t) \/ In(b, t) \/ t \in D
               PROVE  t.seq <= w[t.from] /\ t.batch <= t.seq
    OBVIOUS
  <2>1. t.seq \in Nat /\ t.batch \in Nat /\ t.from \in Senders /\ n[t.from] \in Nat
    BY <1>2, <1>5
  <2>2. CASE In(b, t)
    BY <1>2, <1>4, <1>7, <2>1, <2>2
  <2>3. CASE ~In(b, t)
    <3>1. t.seq <= n[t.from] /\ t.batch <= t.seq
      BY <1>6, <2>3
    <3>2. n[t.from] <= w[t.from]
      BY <1>1, <1>2, <1>4, <2>1
    <3>3. w[t.from] \in Nat
      BY <1>2, <1>4, <2>1
    <3> QED BY <2>1, <3>1, <3>2, <3>3
  <2> QED BY <2>2, <2>3
<1>10. \A q \in Senders : \A m \in 1..w[q] :
          \E t \in Task : /\ t.from = q /\ t.seq = m
                          /\ In(A, t) \/ In(I, t) \/ In(b, t) \/ t \in D
  <2> SUFFICES ASSUME NEW q \in Senders, NEW m \in 1..w[q]
               PROVE  \E t \in Task : /\ t.from = q /\ t.seq = m
                                      /\ In(A, t) \/ In(I, t) \/ In(b, t) \/ t \in D
    OBVIOUS
  <2>1. m \in 1..n[q] \/ (q = s /\ m \in (c + 1)..(c + k))
    BY <1>1, <1>2, <1>4
  <2>2. CASE m \in 1..n[q]
    BY <2>2 DEF Line
  <2>3. CASE q = s /\ m \in (c + 1)..(c + k)
    BY <1>1, <2>3 DEF Fresh
  <2> QED BY <2>1, <2>2, <2>3
<1> QED BY <1>3, <1>8, <1>9, <1>10 DEF Above

\* A producer's batch joins the arrivals.
LEMMA LineAccepts ==
    ASSUME NEW A \in Seq(Task), NEW I \in Seq(Task), NEW D \in SUBSET Task,
           NEW n \in [Senders -> 0..MaxSends], NEW W, Line(A, I, D, n, W),
           NEW s \in Senders, NEW k \in Nat, NEW b, Fresh(b, s, n[s], k, W), s # Owner
    PROVE  Line(A, I \o b, D, [n EXCEPT ![s] = @ + k], W)
<1>1. PICK J, w : J = I \o b /\ w = [n EXCEPT ![s] = @ + k]
  OBVIOUS
<1>a. Above(A, I, D, b, s, w)
  BY <1>1, FreshFacts
<1>2. b \in Seq(Task) /\ Ordered(b, W) /\ Whole(b, W)
  BY DEF Fresh
<1>3. \A t, u \in Task : (In(A, t) \/ In(I, t) \/ t \in D) /\ In(b, u) =>
                 /\ ~SameBatch(t, u) /\ t # u /\ u.from = s
                 /\ t.from = u.from => t.seq < u.seq
  BY <1>a DEF Above
<1>4. Ordered(J, W) /\ Whole(J, W) /\ \A t : In(J, t) <=> In(I, t) \/ In(b, t)
  BY <1>1, <1>2, <1>3, JoinFacts DEF Line
<1>5. \A t \in Task : In(b, t) => t.from # Owner
  BY DEF Fresh
<1>6. \A t \in Task : In(b, t) => t \notin D
  BY <1>3
<1>7. \A t \in Task : In(A, t) \/ In(I, t) \/ In(b, t) \/ t \in D =>
         t.seq <= w[t.from] /\ t.batch <= t.seq
  BY <1>a DEF Above
<1>8. \A q \in Senders : \A m \in 1..w[q] :
          \E t \in Task : /\ t.from = q /\ t.seq = m
                          /\ In(A, t) \/ In(I, t) \/ In(b, t) \/ t \in D
  BY <1>a DEF Above
<1>9. Line(A, J, D, w, W)
  BY <1>3, <1>4, <1>5, <1>6, <1>7, <1>8 DEF Line
<1> QED BY <1>1, <1>9

\* A closed source disposes of the whole batch.
LEMMA LineRejects ==
    ASSUME NEW A \in Seq(Task), NEW I \in Seq(Task), NEW D \in SUBSET Task,
           NEW n \in [Senders -> 0..MaxSends], NEW W, Line(A, I, D, n, W),
           NEW s \in Senders, NEW k \in Nat, NEW b, Fresh(b, s, n[s], k, W)
    PROVE  Line(A, I, D \cup ToSet(b), [n EXCEPT ![s] = @ + k], W)
<1>1. PICK E, w : E = D \cup ToSet(b) /\ w = [n EXCEPT ![s] = @ + k]
  OBVIOUS
<1>a. Above(A, I, D, b, s, w)
  BY <1>1, FreshFacts
<1>2. b \in Seq(Task) /\ Ordered(b, W) /\ Whole(b, W)
  BY DEF Fresh
<1>3. \A t \in Task : t \in E <=> t \in D \/ In(b, t)
  BY <1>1, <1>2, InToSet
<1>4. \A t, u \in Task : (In(A, t) \/ In(I, t) \/ t \in D) /\ In(b, u) => t # u
  BY <1>a DEF Above
<1>5. \A t \in Task : In(A, t) \/ In(I, t) => t \notin E
  BY <1>3, <1>4 DEF Line
<1>7. \A t \in Task : In(A, t) \/ In(I, t) \/ In(b, t) \/ t \in D =>
         t.seq <= w[t.from] /\ t.batch <= t.seq
  BY <1>a DEF Above
<1>8. \A q \in Senders : \A m \in 1..w[q] :
          \E t \in Task : /\ t.from = q /\ t.seq = m
                          /\ In(A, t) \/ In(I, t) \/ In(b, t) \/ t \in D
  BY <1>a DEF Above
<1>9. Line(A, I, E, w, W)
  BY <1>3, <1>5, <1>7, <1>8 DEF Line
<1> QED BY <1>1, <1>9

\* A local enqueue goes behind the local deque and before the arrivals, which
\* hold nothing of the owner's.
LEMMA LineLocal ==
    ASSUME NEW A \in Seq(Task), NEW I \in Seq(Task), NEW D \in SUBSET Task,
           NEW n \in [Senders -> 0..MaxSends], NEW W, Line(A, I, D, n, W),
           Owner \in Senders, NEW k \in Nat, NEW b, Fresh(b, Owner, n[Owner], k, W)
    PROVE  Line(A \o b, I, D, [n EXCEPT ![Owner] = @ + k], W)
<1>1. PICK J, w : J = A \o b /\ w = [n EXCEPT ![Owner] = @ + k]
  OBVIOUS
<1>a. Above(A, I, D, b, Owner, w)
  BY <1>1, FreshFacts
<1>2. b \in Seq(Task) /\ Ordered(b, W) /\ Whole(b, W)
  BY DEF Fresh
<1>3. \A t, u \in Task : (In(A, t) \/ In(I, t) \/ t \in D) /\ In(b, u) =>
                 /\ ~SameBatch(t, u) /\ t # u /\ u.from = Owner
                 /\ t.from = u.from => t.seq < u.seq
  BY <1>a DEF Above
<1>4. Ordered(J, W) /\ Whole(J, W) /\ \A t : In(J, t) <=> In(A, t) \/ In(b, t)
  BY <1>1, <1>2, <1>3, JoinFacts DEF Line
<1>5. \A t, u \in Task : In(b, t) /\ In(I, u) => t.from # u.from /\ ~SameBatch(t, u)
  BY DEF Fresh, Line, SameBatch
<1>6. \A t \in Task : In(b, t) => t \notin D
  BY <1>3
<1>7. \A t \in Task : In(A, t) \/ In(I, t) \/ In(b, t) \/ t \in D =>
         t.seq <= w[t.from] /\ t.batch <= t.seq
  BY <1>a DEF Above
<1>8. \A q \in Senders : \A m \in 1..w[q] :
          \E t \in Task : /\ t.from = q /\ t.seq = m
                          /\ In(A, t) \/ In(I, t) \/ In(b, t) \/ t \in D
  BY <1>a DEF Above
<1>9. Line(J, I, D, w, W)
  BY <1>3, <1>4, <1>5, <1>6, <1>7, <1>8 DEF Line
<1> QED BY <1>1, <1>9

-----------------------------------------------------------------------------
(* The delivery invariant along the steps.                                 *)

DeliveryInv == Line(consumed \o tasks, incoming, disposed, sent, swapped)

\* Nothing has been sent when the source is built.
LEMMA InitDelivery == Init => DeliveryInv
<1> SUFFICES ASSUME Init PROVE Line(consumed \o tasks, incoming, disposed, sent, swapped)
  BY DEF DeliveryInv
<1>1. consumed \o tasks = <<>> /\ incoming = <<>> /\ disposed = {}
  BY DEF Init
<1>2. \A s \in Senders : \A m \in 1..sent[s] : FALSE
  BY DEF Init
<1>3. Ordered(<<>>, swapped) /\ Whole(<<>>, swapped) /\ \A t : ~In(<<>>, t)
  BY InEmpty DEF Ordered, Whole
<1>4. Line(<<>>, <<>>, {}, sent, swapped)
  BY <1>2, <1>3 DEF Line
<1> QED BY <1>1, <1>4

\* What one call sends is fresh.
LEMMA NewTasksFresh ==
    ASSUME TypeOK, NEW s \in Senders, NEW k \in Nat, k > 0, sent[s] + k <= MaxSends
    PROVE  Fresh(NewTasks(s, k), s, sent[s], k, swapped)
BY NewTasksFacts DEF Fresh

\* A producer call keeps the delivery invariant, accepted or handed back.
LEMMA SendDelivery ==
    ASSUME TypeOK, DeliveryInv, NEW p \in Producers, NEW k \in Nat, k > 0,
           sent[p] + k <= MaxSends,
           sent' = [sent EXCEPT ![p] = @ + k],
           IF sourceOpen THEN Accept(NewTasks(p, k)) ELSE Reject(NewTasks(p, k)),
           UNCHANGED <<sourceOpen, tasks, owner, consumed, swapped>>
    PROVE  DeliveryInv'
<1>1. PICK A, b : A = consumed \o tasks /\ b = NewTasks(p, k)
  OBVIOUS
<1>2. p \in Senders /\ p # Owner
  BY OwnerQueueAssumption DEF Senders
<1>3. Fresh(b, p, sent[p], k, swapped)
  BY <1>1, <1>2, NewTasksFresh
<1>4. /\ A \in Seq(Task) /\ incoming \in Seq(Task) /\ disposed \in SUBSET Task
      /\ sent \in [Senders -> 0..MaxSends]
  BY <1>1, JoinIndex DEF TypeOK
<1>5. Line(A, incoming, disposed, sent, swapped) /\ (consumed \o tasks)' = A /\ swapped' = swapped
  BY <1>1 DEF DeliveryInv
<1>6. CASE sourceOpen
  <2>1. incoming' = incoming \o b /\ disposed' = disposed
    BY <1>1, <1>6 DEF Accept
  <2>2. Line(A, incoming \o b, disposed, [sent EXCEPT ![p] = @ + k], swapped)
    BY <1>2, <1>3, <1>4, <1>5, LineAccepts
  <2> QED BY <1>5, <2>1, <2>2 DEF DeliveryInv
<1>7. CASE ~sourceOpen
  <2>1. incoming' = incoming /\ disposed' = disposed \cup ToSet(b)
    BY <1>1, <1>7 DEF Reject
  <2>2. Line(A, incoming, disposed \cup ToSet(b), [sent EXCEPT ![p] = @ + k], swapped)
    BY <1>2, <1>3, <1>4, <1>5, LineRejects
  <2> QED BY <1>5, <2>1, <2>2 DEF DeliveryInv
<1> QED BY <1>6, <1>7

\* An owner call that takes the arrivals over keeps it too, when what it
\* leaves out of the line is what it disposes of.
LEMMA TakeOverDelivery ==
    ASSUME TypeOK, DeliveryInv,
           incoming' = <<>>, sent' = sent,
           NEW B \in Seq(Task), B = (consumed \o tasks)',
           disposed' \in SUBSET Task, swapped \in SUBSET swapped',
           Thins(B, consumed \o Queue, swapped'),
           \A t \in Task : t \in disposed' <=>
              t \in disposed \/ (In(consumed \o Queue, t) /\ ~In(B, t))
    PROVE  DeliveryInv'
<1>1. PICK A : A = consumed \o tasks
  OBVIOUS
<1>2. /\ A \in Seq(Task) /\ incoming \in Seq(Task) /\ disposed \in SUBSET Task
      /\ consumed \o Queue = A \o incoming
  <2>1. consumed \in Seq(Task) /\ tasks \in Seq(Task) /\ incoming \in Seq(Task)
        /\ disposed \in SUBSET Task
    BY DEF TypeOK
  <2>2. consumed \o (tasks \o incoming) = (consumed \o tasks) \o incoming
    BY <2>1, JoinAssociative
  <2> QED BY <1>1, <2>1, <2>2, JoinIndex DEF Queue
<1>3. \A t : In(A \o incoming, t) <=> In(A, t) \/ In(incoming, t)
  BY <1>2, JoinFacts
<1>4. Line(A, incoming, disposed, sent, swapped)
  BY <1>1 DEF DeliveryInv
<1>5. \A t \in Task : t \in disposed' <=>
         t \in disposed \/ ((In(A, t) \/ In(incoming, t)) /\ ~In(B, t))
  BY <1>2, <1>3
<1>6. Thins(B, A \o incoming, swapped')
  BY <1>2
<1>7. Line(B, <<>>, disposed', sent, swapped')
  BY <1>2, <1>4, <1>5, <1>6, LineShrinks
<1> QED BY <1>7 DEF DeliveryInv

\* Calls that keep the whole line.
LEMMA KeepDelivery ==
    ASSUME TypeOK, DeliveryInv,
           incoming' = <<>>, sent' = sent, disposed' = disposed, swapped' = swapped,
           (consumed \o tasks)' = consumed \o Queue
    PROVE  DeliveryInv'
<1>1. PICK B : B = consumed \o Queue
  OBVIOUS
<1>2. B \in Seq(Task) /\ Thins(B, B, swapped')
  BY <1>1, JoinIndex, ThinSelf DEF TypeOK, Queue
<1>3. Thins(B, consumed \o Queue, swapped') /\ B = (consumed \o tasks)' /\ disposed' \in SUBSET Task
  BY <1>1, <1>2 DEF TypeOK
<1>4. \A t \in Task : t \in disposed' <=>
         t \in disposed \/ (In(consumed \o Queue, t) /\ ~In(B, t))
  BY <1>1
<1> QED BY <1>2, <1>3, <1>4, TakeOverDelivery

\* No task is twice in the line of what was dequeued and what waits.
LEMMA LineDistinct ==
    ASSUME TypeOK, DeliveryInv
    PROVE  /\ Queue \in Seq(Task) /\ consumed \in Seq(Task)
           /\ Ordered(consumed \o Queue, swapped)
<1>1. PICK A : A = consumed \o tasks
  OBVIOUS
<1>2. consumed \in Seq(Task) /\ tasks \in Seq(Task) /\ incoming \in Seq(Task)
  BY DEF TypeOK
<1>3. A \in Seq(Task) /\ Queue \in Seq(Task) /\ consumed \o Queue = A \o incoming
  <2>1. consumed \o (tasks \o incoming) = (consumed \o tasks) \o incoming
    BY <1>2, JoinAssociative
  <2> QED BY <1>1, <1>2, <2>1, JoinIndex DEF Queue
<1>4. Line(A, incoming, disposed, sent, swapped)
  BY <1>1 DEF DeliveryInv
<1>5. \A t, u \in Task : In(A, t) /\ In(incoming, u) =>
         t # u /\ (t.from = u.from => t.seq < u.seq)
  BY <1>4 DEF Line, SameBatch
<1> QED BY <1>2, <1>3, <1>4, <1>5, JoinFacts DEF Line

\* No task is both dequeued and waiting.
LEMMA QueueApart ==
    ASSUME TypeOK, DeliveryInv
    PROVE  \A t \in Task : In(consumed, t) => ~In(Queue, t)
<1> SUFFICES ASSUME NEW t \in Task, In(consumed, t), In(Queue, t) PROVE FALSE
  OBVIOUS
<1>1. PICK c, q, r : c = consumed /\ q = Queue /\ r = c \o q
  OBVIOUS
<1>2. c \in Seq(Task) /\ q \in Seq(Task) /\ Ordered(r, swapped)
  BY <1>1, LineDistinct
<1>3. PICK i \in 1..Len(c), j \in 1..Len(q) : c[i] = t /\ q[j] = t
  BY <1>1 DEF In
<1>4. /\ Len(c) \in Nat /\ Len(q) \in Nat
      /\ \A m \in 1..Len(c) : m \in 1..Len(r) /\ r[m] = c[m]
      /\ \A m \in 1..Len(q) : m + Len(c) \in 1..Len(r) /\ r[m + Len(c)] = q[m]
  BY <1>1, <1>2, JoinIndex
<1>5. i < j + Len(c)
  BY <1>4
<1> QED BY <1>2, <1>3, <1>4, <1>5 DEF Ordered

\* No task waits twice.
LEMMA QueueDistinct ==
    ASSUME TypeOK, DeliveryInv
    PROVE  \A i, j \in 1..Len(Queue) : Queue[i] = Queue[j] => i = j
<1>1. PICK c, q, r : c = consumed /\ q = Queue /\ r = c \o q
  OBVIOUS
<1>2. c \in Seq(Task) /\ q \in Seq(Task) /\ Ordered(r, swapped)
  BY <1>1, LineDistinct
<1>3. /\ Len(c) \in Nat /\ Len(q) \in Nat
      /\ \A m \in 1..Len(q) : m + Len(c) \in 1..Len(r) /\ r[m + Len(c)] = q[m]
  BY <1>1, <1>2, JoinIndex
<1>4. ASSUME NEW i \in 1..Len(q), NEW j \in 1..Len(q), q[i] = q[j], i < j PROVE FALSE
  <2>1. i + Len(c) < j + Len(c)
    BY <1>3, <1>4
  <2> QED BY <1>2, <1>3, <1>4, <2>1 DEF Ordered
<1>5. ASSUME NEW i \in 1..Len(q), NEW j \in 1..Len(q), q[i] = q[j] PROVE i = j
  <2>1. ~(i < j) /\ ~(j < i)
    BY <1>4, <1>5
  <2> QED BY <1>3, <2>1
<1> QED BY <1>1, <1>5

\* Calls that drop the whole queue.
LEMMA DropDelivery ==
    ASSUME TypeOK, DeliveryInv,
           incoming' = <<>>, sent' = sent, tasks' = <<>>, consumed' = consumed,
           swapped' = swapped,
           disposed' = disposed \cup ToSet(Queue)
    PROVE  DeliveryInv'
<1>1. Queue \in Seq(Task) /\ consumed \in Seq(Task) /\ ToSet(Queue) \in SUBSET Task
  BY QueueFacts, ToSetType DEF TypeOK
<1>2. PICK c, q : c = consumed /\ q = Queue
  OBVIOUS
<1>3. c \o <<>> = c /\ <<>> \in Seq(Task) /\ (consumed \o tasks)' = c
  BY <1>1, <1>2, JoinEmpty
<1>4. Thins(c, c \o q, swapped')
  BY <1>1, <1>2, <1>3, ThinToNothing, ThinTail
<1>5. \A t \in Task : In(c, t) => ~In(q, t)
  BY <1>2, QueueApart
<1>6. \A t \in Task : t \in disposed' <=>
         t \in disposed \/ (In(c \o q, t) /\ ~In(c, t))
  <2>1. \A t : In(c \o q, t) <=> In(c, t) \/ In(q, t)
    BY <1>1, <1>2, JoinFacts
  <2>2. \A t : t \in ToSet(q) <=> In(q, t)
    BY <1>1, <1>2, InToSet
  <2> QED BY <1>2, <1>5, <2>1, <2>2
<1>7. c \in Seq(Task) /\ disposed' \in SUBSET Task
  BY <1>1, <1>2 DEF TypeOK
<1> QED BY <1>2, <1>3, <1>4, <1>6, <1>7, TakeOverDelivery

\* An edit through with_tasks_mut.
LEMMA EditDelivery ==
    ASSUME TypeOK, DeliveryInv, NEW n \in 0..Len(Queue), NEW k \in 0..n,
           NEW pick \in Injection(1..n, 1..Len(Queue)), WithTasksMut(pick, k)
    PROVE  DeliveryInv'
<1>1. PICK c, q, W : c = consumed /\ q = Queue /\ W = swapped'
  OBVIOUS
<1>2. q \in Seq(Task) /\ c \in Seq(Task) /\ disposed' \in SUBSET Task /\ swapped \in SUBSET swapped'
  BY <1>1, QueueFacts, EditFacts DEF TypeOK
<1>3. PICK left \in Seq(Task) :
         /\ Len(left) = n
         /\ (consumed \o tasks)' = c \o left
         /\ pick \in [1..n -> 1..Len(q)]
         /\ \A i \in 1..n : left[i] = q[pick[i]]
         /\ \A i, j \in 1..n : i < j => pick[i] < pick[j] \/ <<left[i], left[j]>> \in W
         /\ \A t : t \in disposed' <=>
               t \in disposed \/
               \E i \in 1..Len(q) : t = q[i] /\ ~\E j \in 1..n : pick[j] = i
  <2>1. \E left \in Seq(Task) :
           /\ Len(left) = n
           /\ (consumed \o tasks)' = consumed \o left
           /\ pick \in [1..n -> 1..Len(Queue)]
           /\ \A i \in 1..n : left[i] = Queue[pick[i]]
           /\ \A i, j \in 1..n : i < j =>
                 pick[i] < pick[j] \/ <<left[i], left[j]>> \in swapped'
           /\ \A t : t \in disposed' <=>
                 t \in disposed \/
                 \E i \in 1..Len(Queue) :
                    t = Queue[i] /\ ~\E j \in 1..n : pick[j] = i
    <3> HIDE DEF WithTasksMut
    <3> QED BY EditFacts
  <2> QED BY <1>1, <2>1
<1>4. \A i, j \in 1..n : pick[i] = pick[j] => i = j
  BY <1>3 DEF Injection, IsInjective
<1>5. Embeds(pick, left, q, W)
  <2>1. ASSUME NEW i \in 1..n, NEW j \in 1..n, i < j
        PROVE  pick[i] < pick[j] \/ (pick[j] < pick[i] /\ <<left[i], left[j]>> \in W)
    <3>1. pick[i] \in Nat /\ pick[j] \in Nat /\ pick[i] # pick[j]
      BY <1>2, <1>3, <1>4, <2>1
    <3> QED BY <1>3, <2>1, <3>1
  <2> QED BY <1>3, <2>1 DEF Embeds
<1>6. PICK B : B = c \o left
  OBVIOUS
<1>7. Thins(left, q, W)
  BY <1>5 DEF Thins
<1>8. B \in Seq(Task) /\ Thins(B, c \o q, W) /\ B = (consumed \o tasks)'
  BY <1>2, <1>3, <1>6, <1>7, ThinTail, JoinIndex
<1>9. /\ \A t : In(B, t) <=> In(c, t) \/ In(left, t)
      /\ \A t : In(c \o q, t) <=> In(c, t) \/ In(q, t)
  BY <1>2, <1>3, <1>6, JoinFacts
<1>10. \A t \in Task : In(c, t) => ~In(q, t)
  BY <1>1, QueueApart
<1>11. \A i, j \in 1..Len(q) : q[i] = q[j] => i = j
  BY <1>1, QueueDistinct
<1>12. \A t : (\E i \in 1..Len(q) : t = q[i] /\ ~\E j \in 1..n : pick[j] = i)
              <=> In(q, t) /\ ~In(left, t)
  BY <1>3, <1>11 DEF In
<1>13. \A t \in Task : t \in disposed' <=>
          t \in disposed \/ (In(c \o q, t) /\ ~In(B, t))
  BY <1>3, <1>9, <1>10, <1>12
<1>14. incoming' = <<>> /\ sent' = sent
  BY DEF WithTasksMut
<1> QED BY <1>1, <1>2, <1>8, <1>13, <1>14, TakeOverDelivery

\* Every step keeps the delivery invariant.
LEMMA NextDelivery == IInv /\ DeliveryInv /\ [Next]_vars => DeliveryInv'
<1> SUFFICES ASSUME IInv, DeliveryInv, [Next]_vars PROVE DeliveryInv'
  OBVIOUS
<1>0. TypeOK /\ Queue \in Seq(Task) /\ consumed \in Seq(Task)
  BY QueueFacts DEF IInv, TypeOK
<1>1. ASSUME NEW p \in Producers, Send(p) PROVE DeliveryInv'
  <2>1. sent[p] + 1 <= MaxSends
    BY <1>0, <1>1, WithinBudget DEF Send, Senders
  <2>2. 1 \in Nat /\ 1 > 0
    OBVIOUS
  <2> QED BY <1>0, <1>1, <2>1, <2>2, SendDelivery, Zenon DEF Send
<1>2. ASSUME NEW p \in Producers, NEW k \in 1..MaxBatch, SendAll(p, k)
      PROVE DeliveryInv'
  <2>1. k \in Nat
    BY OwnerQueueAssumption
  <2>2. sent[p] + k <= MaxSends
    BY <1>0, <1>2, <2>1, WithinBudget DEF SendAll, Senders
  <2> QED BY <1>0, <1>2, <2>1, <2>2, SendDelivery DEF SendAll
<1>3. CASE UNCHANGED <<consumed, tasks, incoming, disposed, sent, swapped>>
  BY <1>3 DEF DeliveryInv
<1>4. CASE ReceiveWake \/ OtherTurn
  BY <1>3, <1>4 DEF ReceiveWake, OtherTurn
<1>5. CASE EnqueueLocal
  <2>1. PICK A, b : A = consumed \o tasks /\ b = NewTasks(Owner, 1)
    OBVIOUS
  <2>2. sent[Owner] + 1 <= MaxSends /\ Owner \in Senders /\ 1 \in Nat /\ 1 > 0
    BY <1>0, <1>5, WithinBudget DEF EnqueueLocal, Senders
  <2>3. Fresh(b, Owner, sent[Owner], 1, swapped)
    BY <1>0, <2>1, <2>2, NewTasksFresh
  <2>4. /\ consumed \in Seq(Task) /\ tasks \in Seq(Task) /\ b \in Seq(Task)
        /\ A \in Seq(Task) /\ incoming \in Seq(Task) /\ disposed \in SUBSET Task
        /\ sent \in [Senders -> 0..MaxSends]
    BY <1>0, <2>1, <2>3, JoinIndex DEF TypeOK, Fresh
  <2>5. Line(A, incoming, disposed, sent, swapped)
    BY <2>1 DEF DeliveryInv
  <2>6. Line(A \o b, incoming, disposed, [sent EXCEPT ![Owner] = @ + 1], swapped)
    BY <2>2, <2>3, <2>4, <2>5, LineLocal
  <2>7. A \o b = consumed \o (tasks \o b)
    BY <2>1, <2>4, JoinAssociative
  <2>8. /\ (consumed \o tasks)' = consumed \o (tasks \o b)
        /\ incoming' = incoming /\ disposed' = disposed /\ swapped' = swapped
        /\ sent' = [sent EXCEPT ![Owner] = @ + 1]
    BY <1>5, <2>1 DEF EnqueueLocal
  <2> QED BY <2>6, <2>7, <2>8 DEF DeliveryInv
<1>6. CASE Inspect
  BY <1>0, <1>6, KeepDelivery DEF Inspect
<1>7. CASE PopFront
  <2>1. (consumed \o tasks)' = consumed \o Queue
    <3>1. PICK c, q : c = consumed /\ q = Queue
      OBVIOUS
    <3>2. c \in Seq(Task) /\ q \in Seq(Task)
      BY <1>0, <3>1
    <3>3. CASE q = <<>>
      <4>1. (consumed \o tasks)' = c \o <<>>
        BY <1>7, <3>1, <3>3 DEF PopFront
      <4> QED BY <3>1, <3>3, <4>1
    <3>4. CASE q # <<>>
      <4>1. (consumed \o tasks)' = Append(c, Head(q)) \o Tail(q)
        BY <1>7, <3>1, <3>4 DEF PopFront
      <4>2. Append(c, Head(q)) \o Tail(q) = c \o q
        BY <3>2, <3>4, MoveHead
      <4> QED BY <3>1, <4>1, <4>2
    <3> QED BY <3>3, <3>4
  <2> QED BY <1>0, <1>7, <2>1, KeepDelivery DEF PopFront
<1>8. CASE IsEmpty
  BY <1>0, <1>8, KeepDelivery DEF IsEmpty
<1>9. ASSUME NEW n \in 0..Len(Queue), NEW pick \in Injection(1..n, 1..Len(Queue)),
             NEW k \in 0..n, WithTasksMut(pick, k)
      PROVE  DeliveryInv'
  BY <1>0, <1>9, EditDelivery
<1>10. CASE ClearLocal
  BY <1>0, <1>10, DropDelivery DEF ClearLocal
<1>11. CASE DropSource
  BY <1>0, <1>11, DropDelivery DEF DropSource
<1>12. CASE UNCHANGED vars
  BY <1>3, <1>12 DEF vars
<1> QED
  BY <1>1, <1>2, <1>4, <1>5, <1>6, <1>7, <1>8, <1>9, <1>10, <1>11, <1>12
     DEF Next, OwnerStep

\* The invariant says what delivery promises.
LEMMA DeliveryFollows == TypeOK /\ DeliveryInv => DeliveryExact
<1> SUFFICES ASSUME TypeOK, DeliveryInv PROVE DeliveryExact
  OBVIOUS
<1> DEFINE L == consumed \o Queue
<1>1. PICK A : A = consumed \o tasks
  OBVIOUS
<1>2. A \in Seq(Task) /\ incoming \in Seq(Task) /\ L = A \o incoming
  <2>1. consumed \in Seq(Task) /\ tasks \in Seq(Task) /\ incoming \in Seq(Task)
    BY DEF TypeOK
  <2>2. consumed \o (tasks \o incoming) = (consumed \o tasks) \o incoming
    BY <2>1, JoinAssociative
  <2> QED BY <1>1, <2>1, <2>2, JoinIndex DEF Queue
<1> HIDE DEF L
<1>3. Line(A, incoming, disposed, sent, swapped)
  BY <1>1 DEF DeliveryInv
<1>4. /\ L \in Seq(Task) /\ Ordered(L, swapped) /\ Whole(L, swapped)
      /\ \A t : In(L, t) <=> In(A, t) \/ In(incoming, t)
  <2>1. \A t, u \in Task : In(A, t) /\ In(incoming, u) =>
           t # u /\ ~SameBatch(t, u) /\ (t.from = u.from => t.seq < u.seq)
    BY <1>3 DEF Line, SameBatch
  <2> QED BY <1>2, <1>3, <2>1, JoinFacts DEF Line
<1>5. DOMAIN L = 1..Len(L) /\ Len(L) \in Nat /\ \A i \in 1..Len(L) : L[i] \in Task
  BY <1>4
<1>6. SenderFifo
  BY <1>4, <1>5 DEF SenderFifo, Ordered, L
<1>7. BatchContiguous
  <2>1. \A i, j, k \in DOMAIN L :
           i < k /\ k < j /\ (L[i].from = L[j].from /\ L[i].batch = L[j].batch)
           => \/ L[i].from = L[k].from /\ L[i].batch = L[k].batch
              \/ <<L[i], L[k]>> \in swapped
              \/ <<L[k], L[j]>> \in swapped
    <3> SUFFICES ASSUME NEW i \in DOMAIN L, NEW j \in DOMAIN L, NEW k \in DOMAIN L,
                        i < k, k < j, SameBatch(L[i], L[j])
                 PROVE  \/ SameBatch(L[i], L[k])
                        \/ <<L[i], L[k]>> \in swapped
                        \/ <<L[k], L[j]>> \in swapped
      BY Zenon DEF SameBatch
    <3> QED BY <1>4, <1>5 DEF Whole
  <2> QED BY <2>1, Zenon DEF BatchContiguous, L
<1>8. IsInjective(L)
  <2> SUFFICES ASSUME NEW i \in 1..Len(L), NEW j \in 1..Len(L), L[i] = L[j], i # j
               PROVE  FALSE
    BY <1>5 DEF IsInjective
  <2>1. i < j \/ j < i
    OBVIOUS
  <2> QED BY <1>4, <2>1 DEF Ordered
<1>9. \A t : t \in ToSet(L) <=> In(L, t)
  BY <1>4, InToSet
<1>10. ToSet(L) \cap disposed = {}
  BY <1>3, <1>4, <1>9 DEF Line, TypeOK
<1>11. ASSUME NEW s \in Senders
       PROVE  {t.seq : t \in {u \in ToSet(L) \cup disposed : u.from = s}} = 1..sent[s]
  <2>1. \A t \in ToSet(L) \cup disposed : t \in Task
    BY <1>4, <1>9, InTask DEF TypeOK
  <2>2. \A t \in Task : t \in ToSet(L) \cup disposed <=>
           In(A, t) \/ In(incoming, t) \/ t \in disposed
    BY <1>4, <1>9
  <2>3. \A t \in ToSet(L) \cup disposed : t.from = s => t.seq \in 1..sent[s]
    <3> SUFFICES ASSUME NEW t \in ToSet(L) \cup disposed, t.from = s
                 PROVE  t.seq \in 1..sent[s]
      OBVIOUS
    <3>1. t \in Task /\ t.seq \in 1..MaxSends /\ MaxSends \in Nat
      BY <2>1, OwnerQueueAssumption DEF Task
    <3>2. t.seq <= sent[s]
      BY <1>3, <2>2, <3>1 DEF Line
    <3>3. sent[s] \in Nat
      BY DEF TypeOK
    <3> QED BY <3>1, <3>2, <3>3
  <2>4. \A m \in 1..sent[s] : \E t \in ToSet(L) \cup disposed : t.from = s /\ t.seq = m
    BY <1>3, <2>2 DEF Line
  <2> QED BY <2>3, <2>4
<1>12. Conservation
  BY <1>8, <1>10, <1>11 DEF Conservation, L
<1> QED BY <1>6, <1>7, <1>12 DEF DeliveryExact

\* What the owner dequeues is what the senders sent: every task is in exactly
\* one place and, save for the pairs the owner's own edits exchanged, each
\* sender's tasks are in order and each batch in one piece, whatever mixture
\* of arrivals, local enqueues, edits, clears and the drop of the source came
\* between.
THEOREM DeliveryExactHolds == Spec => []DeliveryExact
<1>1. Init => IInv /\ DeliveryInv
  BY InitIInv, InitDelivery
<1>2. IInv /\ DeliveryInv /\ [Next]_vars => IInv' /\ DeliveryInv'
  BY NextIInv, NextDelivery
<1>3. IInv /\ DeliveryInv => DeliveryExact
  BY DeliveryFollows DEF IInv
<1> QED BY <1>1, <1>2, <1>3, PTL DEF Spec
=============================================================================
