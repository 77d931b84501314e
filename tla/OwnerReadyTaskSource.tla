------------------------ MODULE OwnerReadyTaskSource ------------------------
(***************************************************************************)
(* moli-owner-queue/src/owner_ready_task_source.rs: the single-consumer    *)
(* task source through which every background producer of a page (network, *)
(* storage, workers, timers) hands work to the page's owner.  Producers    *)
(* clone a route; the owner keeps the source.  A wake is published only    *)
(* when the source becomes ready, so the whole design rests on `ready`     *)
(* being exact whenever the owner goes to sleep.                           *)
(*                                                                         *)
(* The state mutex makes every route or source call one atomic step.  The  *)
(* owner-local deque `tasks` is touched only by the owner.                 *)
(***************************************************************************)
EXTENDS Naturals, Sequences, SequencesExt, Functions, FiniteSets

CONSTANTS
    Producers,      \* threads that hold a clone of the route
    Owner,          \* the unique consumer, which may also enqueue locally
    MaxSends,       \* bound: tasks a producer or the owner creates
    Budget,         \* bound: how many of them each sender creates
    MaxBatch,       \* bound: size of one producer batch
    MaxSwaps        \* bound: pairs of tasks the owner's edits exchange

ASSUME OwnerQueueAssumption ==
    /\ Owner \notin Producers
    /\ MaxSends \in Nat
    /\ Budget \in [Producers \cup {Owner} -> 0..MaxSends]
    /\ MaxBatch \in Nat
    /\ MaxSwaps \in Nat

VARIABLES
    incoming,       \* OwnerReadyTaskState::incoming, under the mutex
    ready,          \* OwnerReadyTaskState::ready
    sourceOpen,     \* OwnerReadyTaskState::source_open
    tasks,          \* OwnerReadyTaskSource::tasks, owner-local
    wakes,          \* signals published and not yet received by the owner
    owner,          \* "running" | "parked" (waiting for a wake) | "gone"
    sent,           \* number of tasks each sender has created
    consumed,       \* history: tasks dequeued, in dequeue order
    disposed,       \* history: tasks cleared, edited out or handed back
    swapped         \* history: pairs <<t, u>> an edit has put in this order

vars == <<incoming, ready, sourceOpen, tasks, wakes, owner, sent, consumed,
          disposed, swapped>>

Senders == Producers \cup {Owner}

\* A task is identified by its sender and its rank among that sender's tasks;
\* `batch` is the rank of the first task of the batch it was sent in.
Task == [from : Senders, seq : 1..MaxSends, batch : 1..MaxSends]

\* The tasks the next call of sender s carries when it sends k of them.
NewTasks(s, k) ==
    [i \in 1..k |-> [from |-> s, seq |-> sent[s] + i, batch |-> sent[s] + 1]]

\* All accepted tasks in the order the owner will see them.
Queue == tasks \o incoming

HasWork == tasks # <<>> \/ incoming # <<>>

Init ==
    /\ incoming = <<>>
    /\ ready = FALSE
    /\ sourceOpen = TRUE
    /\ tasks = <<>>
    /\ wakes = 0
    /\ owner = "parked"
    /\ sent = [s \in Senders |-> 0]
    /\ consumed = <<>>
    /\ disposed = {}
    /\ swapped = {}

-----------------------------------------------------------------------------
(* Producer routes                                                         *)

\* Under the lock: append, and signal only on the not-ready to ready edge.
Accept(batch) ==
    /\ incoming' = incoming \o batch
    /\ ready' = TRUE
    /\ wakes' = IF ready THEN wakes ELSE wakes + 1
    /\ UNCHANGED disposed

\* A closed source hands the first task back and drops the rest of a batch.
Reject(batch) ==
    /\ disposed' = disposed \cup ToSet(batch)
    /\ UNCHANGED <<incoming, ready, wakes>>

\* send_and_signal_if_newly_ready
Send(p) ==
    /\ sent[p] < Budget[p]
    /\ sent' = [sent EXCEPT ![p] = @ + 1]
    /\ IF sourceOpen THEN Accept(NewTasks(p, 1)) ELSE Reject(NewTasks(p, 1))
    /\ UNCHANGED <<sourceOpen, tasks, owner, consumed, swapped>>

\* send_all_and_signal_if_newly_ready with a nonempty batch of k tasks; the
\* empty batch returns before it touches the state.
SendAll(p, k) ==
    /\ k > 0 /\ sent[p] + k <= Budget[p]
    /\ sent' = [sent EXCEPT ![p] = @ + k]
    /\ IF sourceOpen THEN Accept(NewTasks(p, k)) ELSE Reject(NewTasks(p, k))
    /\ UNCHANGED <<sourceOpen, tasks, owner, consumed, swapped>>

-----------------------------------------------------------------------------
(* The owner                                                               *)

Running == owner = "running"

\* The owner's event loop receives one published wake and starts a turn.
ReceiveWake ==
    /\ owner = "parked" /\ wakes > 0
    /\ wakes' = wakes - 1
    /\ owner' = "running"
    /\ UNCHANGED <<incoming, ready, sourceOpen, tasks, sent, consumed, disposed,
                   swapped>>

\* The owner runs for a reason other than this source (a timer, another
\* source, a protocol command).
OtherTurn ==
    /\ owner = "parked"
    /\ owner' = "running"
    /\ UNCHANGED <<incoming, ready, sourceOpen, tasks, wakes, sent, consumed,
                   disposed, swapped>>

\* enqueue_local: publishes no wake and does not drain `incoming` first.
EnqueueLocal ==
    /\ Running /\ sent[Owner] < Budget[Owner]
    /\ sent' = [sent EXCEPT ![Owner] = @ + 1]
    /\ tasks' = tasks \o NewTasks(Owner, 1)
    /\ ready' = TRUE
    /\ UNCHANGED <<incoming, sourceOpen, wakes, owner, consumed, disposed, swapped>>

\* Fault: what has arrived replaces the local deque instead of joining it.
InspectOverwrites ==
    /\ Running
    /\ tasks' = IF incoming = <<>> THEN tasks ELSE incoming
    /\ incoming' = <<>>
    /\ ready' = (Queue # <<>>)
    /\ UNCHANGED <<sourceOpen, wakes, owner, sent, consumed, disposed, swapped>>

\* front and has_matching_task: accept what has arrived and restate readiness.
Inspect ==
    /\ Running
    /\ tasks' = Queue
    /\ incoming' = <<>>
    /\ ready' = (Queue # <<>>)
    /\ UNCHANGED <<sourceOpen, wakes, owner, sent, consumed, disposed, swapped>>

\* Fault: the last dequeue does not rearm the readiness edge.
PopFrontNoRearm ==
    /\ Running
    /\ incoming' = <<>>
    /\ IF Queue = <<>>
       THEN tasks' = <<>> /\ UNCHANGED consumed
       ELSE tasks' = Tail(Queue) /\ consumed' = Append(consumed, Head(Queue))
    /\ UNCHANGED <<ready, sourceOpen, wakes, owner, sent, disposed, swapped>>

\* pop_front
PopFront ==
    /\ Running
    /\ incoming' = <<>>
    /\ IF Queue = <<>>
       THEN tasks' = <<>> /\ UNCHANGED consumed
       ELSE tasks' = Tail(Queue) /\ consumed' = Append(consumed, Head(Queue))
    /\ ready' = (tasks' # <<>>)
    /\ UNCHANGED <<sourceOpen, wakes, owner, sent, disposed, swapped>>

\* Fault: the last question of a turn looks at the local deque alone.
IsEmptyLocalOnly ==
    /\ Running
    /\ owner' = IF tasks = <<>> THEN "parked" ELSE owner
    /\ UNCHANGED <<incoming, ready, sourceOpen, tasks, wakes, sent, consumed,
                   disposed, swapped>>

\* is_empty, as the scheduler's last question of a turn: an owner that is
\* told TRUE goes back to its event loop.
IsEmpty ==
    /\ Running
    /\ tasks' = Queue
    /\ incoming' = <<>>
    /\ ready' = (Queue # <<>>)
    /\ owner' = IF Queue = <<>> THEN "parked" ELSE owner
    /\ UNCHANGED <<sourceOpen, wakes, sent, consumed, disposed,
                   swapped>>

\* with_tasks_mut: the closure may do anything to the accepted tasks.  Its
\* callers retain the tasks of one owner identity, drop superseded ones and
\* sort by deadline, promote a ready task, take the front or take everything.
\* Position i of what stays or is taken held position pick[i]; the closure
\* takes the first k of them and drops the tasks pick leaves out.
WithTasksMut(pick, k) ==
    LET left == [i \in DOMAIN pick |-> Queue[pick[i]]]
    IN  /\ Running
        /\ consumed' = consumed \o SubSeq(left, 1, k)
        /\ tasks' = SubSeq(left, k + 1, Len(left))
        /\ incoming' = <<>>
        /\ ready' = (tasks' # <<>>)
        /\ disposed' = disposed \cup
              {Queue[i] : i \in DOMAIN Queue \ {pick[j] : j \in DOMAIN pick}}
        /\ swapped' = swapped \cup
              {<<left[e[1]], left[e[2]]>> :
                  e \in {d \in (DOMAIN pick) \X (DOMAIN pick) :
                            d[1] < d[2] /\ pick[d[1]] > pick[d[2]]}}
        /\ Cardinality(swapped') <= MaxSwaps
        /\ UNCHANGED <<sourceOpen, wakes, owner, sent>>

\* clear_local
ClearLocal ==
    /\ Running
    /\ disposed' = disposed \cup ToSet(Queue)
    /\ tasks' = <<>>
    /\ incoming' = <<>>
    /\ ready' = FALSE
    /\ UNCHANGED <<sourceOpen, wakes, owner, sent, consumed, swapped>>

\* Drop for OwnerReadyTaskSource: close under the lock, then drop both deques.
DropSource ==
    /\ Running
    /\ sourceOpen' = FALSE
    /\ ready' = FALSE
    /\ disposed' = disposed \cup ToSet(Queue)
    /\ incoming' = <<>>
    /\ tasks' = <<>>
    /\ owner' = "gone"
    /\ UNCHANGED <<wakes, sent, consumed, swapped>>

OwnerStep ==
    \/ ReceiveWake \/ OtherTurn
    \/ EnqueueLocal \/ Inspect \/ PopFront \/ IsEmpty
    \/ \E n \in 0..Len(Queue) :
          \E pick \in Injection(1..n, 1..Len(Queue)), k \in 0..n :
              WithTasksMut(pick, k)
    \/ ClearLocal \/ DropSource

Next ==
    \/ \E p \in Producers : Send(p)
    \/ \E p \in Producers, k \in 1..MaxBatch : SendAll(p, k)
    \/ OwnerStep

Spec == Init /\ [][Next]_vars

\* The event loop keeps receiving wakes; a running owner keeps dequeuing and,
\* when nothing is left, asks is_empty and parks.
Fairness ==
    /\ WF_vars(ReceiveWake)
    /\ WF_vars(HasWork /\ PopFront)
    /\ WF_vars(~HasWork /\ IsEmpty)

FairSpec == Spec /\ Fairness

-----------------------------------------------------------------------------
(* Properties                                                              *)

\* Every variable has its type.
TypeOK ==
    /\ incoming \in Seq(Task)
    /\ ready \in BOOLEAN
    /\ sourceOpen \in BOOLEAN
    /\ tasks \in Seq(Task)
    /\ wakes \in Nat
    /\ owner \in {"running", "parked", "gone"}
    /\ sent \in [Senders -> 0..MaxSends]
    /\ consumed \in Seq(Task)
    /\ disposed \in SUBSET Task
    /\ swapped \in SUBSET (Task \X Task)

\* `ready` says exactly whether an open source holds work (front, pop_front,
\* is_empty, with_tasks_mut and clear_local each restate it).
ReadyExact == sourceOpen => (ready <=> HasWork)

\* No lost wake: an owner asleep on an open source that holds work has a
\* published wake on its way (the route comment's claim that enqueue and wake
\* are serialized with the consumer's dequeue and rearm).
NoLostWake == owner = "parked" /\ sourceOpen /\ HasWork => wakes > 0

\* A wake is published only by a step that makes an empty source nonempty.
WakeOnlyOnEdge ==
    [][wakes' > wakes => ~HasWork /\ HasWork']_vars

\* Every task a sender created is in exactly one place: waiting, dequeued
\* once, or disposed of (cleared, edited out, handed back by a closed
\* source).
Conservation ==
    LET line == consumed \o Queue
    IN  /\ IsInjective(line)
        /\ ToSet(line) \cap disposed = {}
        /\ \A s \in Senders :
              {t.seq : t \in {u \in ToSet(line) \cup disposed : u.from = s}}
                 = 1..sent[s]

\* The owner dequeues one sender's tasks in the order that sender sent them,
\* even though a local enqueue may overtake arrivals still in `incoming`: a
\* task precedes an earlier one of its sender only where the owner's own edit
\* put it there.
SenderFifo ==
    LET line == consumed \o Queue
    IN  \A i, j \in DOMAIN line :
            i < j /\ line[i].from = line[j].from
               => \/ line[i].seq < line[j].seq
                  \/ <<line[i], line[j]>> \in swapped

\* A producer batch stays contiguous for the consumer: a task of another
\* sender, or of another batch, lies between two of its tasks only where an
\* edit moved it past one of them.
BatchContiguous ==
    LET line == consumed \o Queue
        Same(t, u) == t.from = u.from /\ t.batch = u.batch
    IN  \A i, j, k \in DOMAIN line :
            i < k /\ k < j /\ Same(line[i], line[j])
               => \/ Same(line[i], line[k])
                  \/ <<line[i], line[k]>> \in swapped
                  \/ <<line[k], line[j]>> \in swapped

\* What the owner dequeues is what the senders sent: every task once and,
\* save for the pairs the owner itself exchanged through with_tasks_mut, each
\* sender's tasks in order and each batch in one piece, whatever mixture of
\* arrivals, local enqueues, edits and the drop of the source came between.
DeliveryExact == Conservation /\ SenderFifo /\ BatchContiguous

\* A closed source holds no task and accepts none: a payload whose destructor
\* matters is never stranded behind a route that outlives the source.
ClosedHoldsNothing == ~sourceOpen => ~HasWork /\ ~ready

\* Every accepted task leaves the queue (the owner is always woken for it).
AcceptedLeaves ==
    \A t \in Task : t \in ToSet(Queue) ~> t \notin ToSet(Queue)
=============================================================================
