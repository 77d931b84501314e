--------------------------- MODULE StorageService ---------------------------
(***************************************************************************)
(* moli-storage-service: how one partition's storage operations are        *)
(* ordered.  An operation on the origin private file system takes a turn   *)
(* of StorageIoSequence (a ticket lock); commits that count against quota  *)
(* first own their bucket in StorageQuotaCoordinator; asynchronous work    *)
(* runs on one of three StorageIoQueue threads.  An operation is one of    *)
(*   "sync"        with_opfs on the caller's thread                        *)
(*   "syncQuota"   with_opfs_quota_commit, reserve_commit                  *)
(*   "async"       dispatch_opfs, and the drop of an OPFS lease            *)
(*   "asyncQuota"  dispatch_opfs_quota_commit                              *)
(*   "delete"      bucket deletion and other jobs of the maintenance queue *)
(*   "sql"         dispatch_indexed_db: an OPFS turn on the quota queue to *)
(*                 sample usage, then a command of the SQL owner, which    *)
(*                 keeps the bucket until it replies.  A Blob read that    *)
(*                 was accepted calls it while shutdown runs.              *)
(*                                                                         *)
(* Each section under one mutex is a step of its own.  A condition wait is *)
(* the guard of the step behind it: whoever changes the condition notifies *)
(* all.  drain_ready runs on whichever thread won the `draining` flag and  *)
(* never blocks, so it is a process of its own here.  What an operation    *)
(* does to the files, its result and a panic of it are left out: its turn  *)
(* and its quota are given back in the same order either way.              *)
(***************************************************************************)
EXTENDS Integers, Sequences, SequencesExt, FiniteSets

CONSTANTS
    Ops,            \* operations submitted
    Clients,        \* threads that submit them, one call at a time
    Buckets,        \* StorageBucketLocator
    Work,           \* what the operations may be, a set of functions to Kinds
    None            \* no operation

Kinds == {"sync", "syncQuota", "async", "asyncQuota", "delete", "sql"}
Queues == {"io", "maintenance", "quota"}
Barrier == "barrier"
NoTicket == -1

ASSUME StorageAssumption ==
    {None, Barrier} \cap Ops = {} /\ IsFiniteSet(Ops) /\ Work \subseteq [Ops -> Kinds]

VARIABLES
    nextTicket, serving, cancelled,     \* StorageIoSequenceState
    active, waiting, ready, draining,   \* QuotaState
    handing,        \* the callback drain_ready has popped and not yet called
    queue,          \* the channel of each StorageIoQueue
    started,        \* queues whose worker thread exists
    worker,         \* the operation each worker thread runs
    pc,             \* how far each operation has come
    kind, bucket,   \* what each operation is
    ticket,         \* its StorageIoReservation
    holds,          \* operations that own a StorageQuotaReservation
    caller,         \* the call each client is in
    shut,           \* the stage StoragePartition::shutdown is in
    late,           \* shutdown_sqlite has returned
    sql             \* the SQL owner: "open", "sealed" (stopping) or "closed"

seqVars == <<nextTicket, serving, cancelled>>
quotaVars == <<active, waiting, ready, draining>>
queueVars == <<queue, started, worker>>
opVars == <<kind, bucket>>
vars == <<seqVars, quotaVars, handing, queueVars, pc, opVars, ticket, holds,
          caller, shut, late, sql>>

SequenceInit == nextTicket = 0 /\ serving = 0 /\ cancelled = {}

QuotaInit ==
    /\ active = {} /\ waiting = [b \in Buckets |-> <<>>] /\ ready = <<>>
    /\ draining = FALSE /\ handing = None

\* A queue starts its thread with its first job.
QueueInit ==
    /\ queue = [q \in Queues |-> <<>>] /\ started = {}
    /\ worker = [q \in Queues |-> None]

Init ==
    /\ SequenceInit /\ QuotaInit /\ QueueInit
    /\ pc = [o \in Ops |-> "new"]
    /\ kind \in Work /\ bucket \in [Ops -> Buckets]
    /\ ticket = [o \in Ops |-> NoTicket]
    /\ holds = {}
    /\ caller = [c \in Clients |-> None]
    /\ shut = "open" /\ late = FALSE /\ sql = "open"

\* The queue an operation runs on: a commit that found its bucket busy goes
\* through the coordinator to the quota queue.
Lane(o) ==
    CASE kind[o] = "delete" -> "maintenance"
      [] kind[o] \in {"asyncQuota", "sql"} /\ ticket[o] = NoTicket -> "quota"
      [] OTHER -> "io"

Goto(o, l) == pc' = [pc EXCEPT ![o] = l]

\* The call of o returns to its client.
Return(o) == caller' = [c \in Clients |-> IF caller[c] = o THEN None ELSE caller[c]]

\* o is over: the thread that ran it goes on.
Finish(o) ==
    /\ Goto(o, "done")
    /\ Return(o)
    /\ worker' = [q \in Queues |-> IF worker[q] = o THEN None ELSE worker[q]]

-----------------------------------------------------------------------------
(* Submitting                                                              *)

FirstStep(k) ==
    CASE k = "sync" -> "ticket"
      [] k = "syncQuota" -> "lockQuota"
      [] k = "async" -> "ticket"
      [] k = "asyncQuota" -> "tryQuota"
      [] k = "delete" -> "send"
      [] k = "sql" -> "check"

\* A client calls the service.  The continuations of Blob reads do so on the SQL
\* runtime, which shutdown_sqlite joins.
Call(c, o) ==
    /\ shut = "open" \/ (kind[o] = "sql" /\ ~late)
    /\ caller[c] = None /\ pc[o] = "new"
    /\ caller' = [caller EXCEPT ![c] = o]
    /\ Goto(o, FirstStep(kind[o]))
    /\ UNCHANGED <<seqVars, quotaVars, handing, queueVars, opVars, ticket, holds,
                   shut, late, sql>>

\* dispatch_opfs reserves on the caller and only then sends the job; everyone
\* else enters at once.
AfterTicket(o) ==
    IF kind[o] \in {"async", "asyncQuota"} /\ \E c \in Clients : caller[c] = o
    THEN "send" ELSE "enter"

\* StorageIoSequence::reserve
TakeTicket(o) ==
    /\ pc[o] = "ticket"
    /\ ticket' = [ticket EXCEPT ![o] = nextTicket]
    /\ nextTicket' = nextTicket + 1
    /\ Goto(o, AfterTicket(o))
    /\ UNCHANGED <<serving, cancelled, quotaVars, handing, queueVars, opVars,
                   holds, caller, shut, late, sql>>

\* StorageIoQueue::dispatch: the worker is started if need be.
Send(o) ==
    /\ pc[o] = "send"
    /\ started' = started \cup {Lane(o)}
    /\ queue' = [queue EXCEPT ![Lane(o)] = Append(@, o)]
    /\ Goto(o, "queued")
    /\ Return(o)
    /\ UNCHANGED <<seqVars, quotaVars, handing, worker, opVars, ticket, holds,
                   shut, late, sql>>

\* The worker thread cannot be created: the job and what it owns are dropped,
\* the quota before the ticket.
SendFails(o) ==
    /\ pc[o] = "send" /\ Lane(o) \notin started
    /\ IF ticket[o] = NoTicket
       THEN Finish(o)
       ELSE /\ Goto(o, IF o \in holds THEN "unlock" ELSE "cancel")
            /\ UNCHANGED <<caller, worker>>
    /\ UNCHANGED <<seqVars, quotaVars, handing, queue, started, opVars, ticket,
                   holds, shut, late, sql>>

\* dispatch_indexed_db refuses a database that is closed or being deleted.
CheckClient(o) ==
    /\ pc[o] = "check"
    /\ \/ sql # "closed" /\ Goto(o, "ensure") /\ UNCHANGED <<caller, worker>>
       \/ Finish(o)
    /\ UNCHANGED <<seqVars, quotaVars, handing, queue, started, opVars, ticket,
                   holds, shut, late, sql>>

-----------------------------------------------------------------------------
(* Quota                                                                   *)

\* try_reserve by dispatch_opfs_quota_commit; a busy bucket goes on to
\* ensure_started of the quota queue.
TryQuota(o) ==
    /\ pc[o] = "tryQuota"
    /\ IF bucket[o] \in active
       THEN Goto(o, "ensure") /\ UNCHANGED <<active, holds>>
       ELSE /\ active' = active \cup {bucket[o]}
            /\ holds' = holds \cup {o}
            /\ Goto(o, "ticket")
    /\ UNCHANGED <<seqVars, waiting, ready, draining, handing, queueVars, opVars,
                   ticket, caller, shut, late, sql>>

\* reserve: blocks while the bucket is active.
LockQuota(o) ==
    /\ pc[o] = "lockQuota" /\ bucket[o] \notin active
    /\ active' = active \cup {bucket[o]}
    /\ holds' = holds \cup {o}
    /\ Goto(o, "ticket")
    /\ UNCHANGED <<seqVars, waiting, ready, draining, handing, queueVars, opVars,
                   ticket, caller, shut, late, sql>>

EnsureStarted(o) ==
    /\ pc[o] = "ensure"
    /\ \/ /\ started' = started \cup {"quota"}
          /\ Goto(o, "reserveAsync")
          /\ UNCHANGED <<caller, worker>>
       \/ /\ "quota" \notin started
          /\ Finish(o)
          /\ UNCHANGED started
    /\ UNCHANGED <<seqVars, quotaVars, handing, queue, opVars, ticket, holds,
                   shut, late, sql>>

\* reserve_async: wait behind the owner, or own the bucket and be handed out.
ReserveAsync(o) ==
    /\ pc[o] = "reserveAsync"
    /\ IF bucket[o] \in active
       THEN /\ waiting' = [waiting EXCEPT ![bucket[o]] = Append(@, o)]
            /\ UNCHANGED <<active, ready, draining, holds>>
       ELSE /\ active' = active \cup {bucket[o]}
            /\ holds' = holds \cup {o}
            /\ ready' = Append(ready, o) /\ draining' = TRUE
            /\ UNCHANGED waiting
    /\ Goto(o, "waitQuota")
    /\ Return(o)
    /\ UNCHANGED <<seqVars, handing, queueVars, opVars, ticket, shut, late, sql>>

\* drain_ready: pop under the lock ...
DrainPop ==
    /\ draining /\ handing = None /\ ready # <<>>
    /\ handing' = Head(ready)
    /\ ready' = Tail(ready)
    /\ UNCHANGED <<seqVars, active, waiting, draining, queueVars, pc, opVars,
                   ticket, holds, caller, shut, late, sql>>

\* ... call the callback outside it, which sends to the quota queue ...
DrainCall ==
    /\ handing # None
    /\ queue' = [queue EXCEPT !["quota"] = Append(@, handing)]
    /\ Goto(handing, "queued")
    /\ handing' = None
    /\ UNCHANGED <<seqVars, quotaVars, started, worker, opVars, ticket, holds,
                   caller, shut, late, sql>>

\* ... until nothing is ready.
DrainEnd ==
    /\ draining /\ handing = None /\ ready = <<>>
    /\ draining' = FALSE
    /\ UNCHANGED <<seqVars, active, waiting, ready, handing, queueVars, pc,
                   opVars, ticket, holds, caller, shut, late, sql>>

\* What follows the release of a bucket: the ticket of a job that was never
\* sent is dropped next.
AfterUnlock(o) ==
    IF ticket[o] < serving
    THEN Finish(o)
    ELSE Goto(o, "cancel") /\ UNCHANGED <<caller, worker>>

\* Fault: a bucket handed to the next waiter is given up as well.
UnlockGivesUp(o) ==
    /\ pc[o] \in {"unlock", "sql"}
    /\ active' = active \ {bucket[o]}
    /\ IF waiting[bucket[o]] = <<>>
       THEN /\ holds' = holds \ {o}
            /\ UNCHANGED <<waiting, ready, draining>>
       ELSE /\ holds' = (holds \ {o}) \cup {Head(waiting[bucket[o]])}
            /\ waiting' = [waiting EXCEPT ![bucket[o]] = Tail(@)]
            /\ ready' = Append(ready, Head(waiting[bucket[o]]))
            /\ draining' = TRUE
    /\ AfterUnlock(o)
    /\ UNCHANGED <<seqVars, handing, queue, started, opVars, ticket, shut, late, sql>>

\* Fault: releasing a bucket does not look for a waiter.
UnlockStrandsWaiters(o) ==
    /\ pc[o] \in {"unlock", "sql"}
    /\ active' = active \ {bucket[o]}
    /\ holds' = holds \ {o}
    /\ AfterUnlock(o)
    /\ UNCHANGED <<seqVars, waiting, ready, draining, handing, queue, started,
                   opVars, ticket, shut, late, sql>>

\* Drop for StorageQuotaReservation: hand the bucket to the next waiter, or
\* give it up.  Of a command of SQL, the reply does it.
Unlock(o) ==
    /\ pc[o] \in {"unlock", "sql"}
    /\ IF waiting[bucket[o]] = <<>>
       THEN /\ active' = active \ {bucket[o]}
            /\ holds' = holds \ {o}
            /\ UNCHANGED <<waiting, ready, draining>>
       ELSE /\ holds' = (holds \ {o}) \cup {Head(waiting[bucket[o]])}
            /\ waiting' = [waiting EXCEPT ![bucket[o]] = Tail(@)]
            /\ ready' = Append(ready, Head(waiting[bucket[o]]))
            /\ draining' = TRUE
            /\ UNCHANGED active
    /\ AfterUnlock(o)
    /\ UNCHANGED <<seqVars, handing, queue, started, opVars, ticket, shut, late, sql>>

-----------------------------------------------------------------------------
(* Turns                                                                   *)

\* advance_cancelled_storage_tickets from ticket s with C cancelled: the first
\* ticket not cancelled (none at or above next_ticket is).
Advanced(s, C) == CHOOSE n \in s..(s + nextTicket) :
                     /\ n \notin C
                     /\ \A m \in s..(n - 1) : m \in C

Serve(s, C) ==
    /\ serving' = Advanced(s, C)
    /\ cancelled' = {t \in C : t >= serving'}

\* StorageIoReservation::enter
Enter(o) ==
    /\ pc[o] = "enter" /\ serving = ticket[o]
    /\ Goto(o, "run")
    /\ UNCHANGED <<seqVars, quotaVars, handing, queueVars, opVars, ticket, holds,
                   caller, shut, late, sql>>

\* The operation is over: Drop for StorageIoTurn, then the quota if it has one.
\* The sample of a SQL command goes on with the usage of the databases.
EndTurn(o) ==
    /\ pc[o] = "run"
    /\ Serve(serving + 1, cancelled)
    /\ IF o \in holds
       THEN /\ Goto(o, IF kind[o] = "sql" THEN "usage" ELSE "unlock")
            /\ UNCHANGED <<caller, worker>>
       ELSE Finish(o)
    /\ UNCHANGED <<nextTicket, quotaVars, handing, queue, started, opVars, ticket,
                   holds, shut, late, sql>>

\* Fault: a reservation is dropped without a trace.
CancelForgets(o) ==
    /\ pc[o] = "cancel"
    /\ Finish(o)
    /\ UNCHANGED <<seqVars, quotaVars, handing, queue, started, opVars, ticket,
                   holds, shut, late, sql>>

\* Drop for StorageIoReservation: a ticket that will not be used.
Cancel(o) ==
    /\ pc[o] = "cancel"
    /\ Serve(serving, cancelled \cup {ticket[o]})
    /\ Finish(o)
    /\ UNCHANGED <<nextTicket, quotaVars, handing, queue, started, opVars, ticket,
                   holds, shut, late, sql>>

\* An owner of the bucket that takes no turn: the deletion was completed by
\* another job or its database part failed, a commit touched no files, the
\* sample of a SQL command failed or found its database closed.
SkipTurn(o) ==
    /\ pc[o] = "ticket" /\ kind[o] \in {"delete", "syncQuota", "sql"}
    /\ Goto(o, IF kind[o] = "sql" THEN "submit" ELSE "unlock")
    /\ UNCHANGED <<seqVars, quotaVars, handing, queueVars, opVars, ticket, holds,
                   caller, shut, late, sql>>

\* A job of the maintenance queue that needs no bucket.
SkipQuota(o) ==
    /\ pc[o] = "lockQuota" /\ kind[o] = "delete"
    /\ Finish(o)
    /\ UNCHANGED <<seqVars, quotaVars, handing, queue, started, opVars, ticket,
                   holds, shut, late, sql>>

\* indexed_db_usage locks the manager, which shutdown_sqlite holds throughout.
SampleUsage(o) ==
    /\ pc[o] = "usage" /\ shut # "sql"
    /\ Goto(o, "submit")
    /\ UNCHANGED <<seqVars, quotaVars, handing, queueVars, opVars, ticket, holds,
                   caller, shut, late, sql>>

\* submit_checked: the bucket goes along into the SQL owner's mailbox and the
\* quota worker is free; a refused command drops it here.
SubmitSql(o) ==
    /\ pc[o] = "submit"
    /\ \/ /\ sql = "open"
          /\ Goto(o, "sql")
          /\ worker' = [q \in Queues |-> IF worker[q] = o THEN None ELSE worker[q]]
       \/ Goto(o, "unlock") /\ UNCHANGED worker
    /\ UNCHANGED <<seqVars, quotaVars, handing, queue, started, opVars, ticket,
                   holds, caller, shut, late, sql>>

-----------------------------------------------------------------------------
(* Workers and shutdown                                                    *)

AfterTake(q) ==
    CASE q = "io" -> "enter" [] q = "quota" -> "ticket"
      [] q = "maintenance" -> "lockQuota"

\* run_storage_io_queue takes the next operation.
TakeJob(q) ==
    /\ worker[q] = None /\ queue[q] # <<>> /\ Head(queue[q]) # Barrier
    /\ worker' = [worker EXCEPT ![q] = Head(queue[q])]
    /\ queue' = [queue EXCEPT ![q] = Tail(@)]
    /\ Goto(Head(queue[q]), AfterTake(q))
    /\ UNCHANGED <<seqVars, quotaVars, handing, started, opVars, ticket, holds,
                   caller, shut, late, sql>>

\* Fault: what Blob reads submitted while SQL drained is not waited for.
NextStageOnce(s) ==
    CASE s = "maintenance" -> "dispatch"
      [] s = "quota" -> IF late THEN "io" ELSE "sql"
      [] s = "sql" -> "io"
      [] s = "io" -> "closed"

\* The order in which shutdown passes its stages: drain_maintenance before and
\* after the shutdown of SQL, then drain_io.
NextStage(s) ==
    CASE s = "maintenance" -> "dispatch"
      [] s = "quota" -> IF late THEN "io" ELSE "sql"
      [] s = "sql" -> "maintenance"
      [] s = "io" -> "closed"

\* The barrier of drain runs, and drain returns.
TakeBarrier(q) ==
    /\ worker[q] = None /\ queue[q] # <<>> /\ Head(queue[q]) = Barrier
    /\ queue' = [queue EXCEPT ![q] = Tail(@)]
    /\ shut' = NextStage(q)
    /\ UNCHANGED <<seqVars, quotaVars, handing, started, worker, pc, opVars,
                   ticket, holds, caller, late, sql>>

\* StoragePartition::shutdown, after the renderer and network producers have
\* joined.  Only Blob reads go on.
BeginShutdown ==
    /\ shut = "open"
    /\ \A c \in Clients : caller[c] # None => kind[caller[c]] = "sql"
    /\ shut' = "maintenance"
    /\ UNCHANGED <<seqVars, quotaVars, handing, queueVars, pc, opVars, ticket,
                   holds, caller, late, sql>>

\* drain: a queue that never started is drained already.
Drain(q) ==
    /\ shut = q /\ ~\E i \in DOMAIN queue[q] : queue[q][i] = Barrier
    /\ IF q \in started
       THEN queue' = [queue EXCEPT ![q] = Append(@, Barrier)] /\ UNCHANGED shut
       ELSE shut' = NextStage(q) /\ UNCHANGED queue
    /\ UNCHANGED <<seqVars, quotaVars, handing, started, worker, pc, opVars,
                   ticket, holds, caller, late, sql>>

\* wait_for_dispatch
WaitForDispatch ==
    /\ shut = "dispatch"
    /\ \A b \in Buckets : waiting[b] = <<>>
    /\ ~draining
    /\ shut' = "quota"
    /\ UNCHANGED <<seqVars, quotaVars, handing, queueVars, pc, opVars, ticket,
                   holds, caller, late, sql>>

\* shutdown_sqlite: every owner's mailbox is sealed ...
SealSql ==
    /\ shut = "sql" /\ sql = "open"
    /\ sql' = "sealed"
    /\ UNCHANGED <<seqVars, quotaVars, handing, queueVars, pc, opVars, ticket,
                   holds, caller, shut, late>>

\* ... which closes it once everything accepted has been answered ...
CloseSql ==
    /\ sql = "sealed" /\ \A o \in Ops : pc[o] # "sql"
    /\ sql' = "closed"
    /\ UNCHANGED <<seqVars, quotaVars, handing, queueVars, pc, opVars, ticket,
                   holds, caller, shut, late>>

\* ... and the runtime is joined, with the continuations of Blob reads on it.
JoinSql ==
    /\ shut = "sql" /\ sql = "closed"
    /\ \A c \in Clients : caller[c] = None
    /\ shut' = NextStage("sql") /\ late' = TRUE
    /\ UNCHANGED <<seqVars, quotaVars, handing, queueVars, pc, opVars, ticket,
                   holds, caller, sql>>

-----------------------------------------------------------------------------
OpStep(o) ==
    \/ TakeTicket(o) \/ Send(o) \/ SendFails(o) \/ TryQuota(o) \/ LockQuota(o)
    \/ EnsureStarted(o) \/ ReserveAsync(o) \/ Unlock(o) \/ Enter(o)
    \/ EndTurn(o) \/ Cancel(o) \/ SkipTurn(o) \/ SkipQuota(o)
    \/ CheckClient(o) \/ SampleUsage(o) \/ SubmitSql(o)

DrainStep == DrainPop \/ DrainCall \/ DrainEnd

WorkerStep(q) == TakeJob(q) \/ TakeBarrier(q)

ShutdownStep ==
    \/ WaitForDispatch \/ \E q \in Queues : Drain(q)
    \/ SealSql \/ CloseSql \/ JoinSql

Next ==
    \/ \E c \in Clients, o \in Ops : Call(c, o)
    \/ \E o \in Ops : OpStep(o)
    \/ DrainStep
    \/ \E q \in Queues : WorkerStep(q)
    \/ BeginShutdown
    \/ ShutdownStep

Spec == Init /\ [][Next]_vars

\* Threads run, and an operation that has its turn ends.  Nobody has to call
\* or to shut down.
Fairness ==
    /\ \A o \in Ops : WF_vars(OpStep(o))
    /\ WF_vars(DrainStep) /\ WF_vars(ShutdownStep)
    /\ \A q \in Queues : WF_vars(WorkerStep(q))

FairSpec == Spec /\ Fairness

-----------------------------------------------------------------------------
(* Properties                                                              *)

Steps == {"new", "tryQuota", "lockQuota", "check", "ensure", "reserveAsync",
          "waitQuota", "ticket", "send", "queued", "enter", "run", "usage",
          "submit", "sql", "unlock", "cancel", "done"}

\* The steps behind the turn.
Over == {"usage", "submit", "sql", "unlock", "done"}

\* Every variable has its type.
TypeOK ==
    /\ nextTicket \in 0..Cardinality(Ops) /\ serving \in 0..nextTicket
    /\ cancelled \subseteq 0..(nextTicket - 1)
    /\ active \subseteq Buckets /\ waiting \in [Buckets -> Seq(Ops)]
    /\ ready \in Seq(Ops) /\ draining \in BOOLEAN /\ handing \in Ops \cup {None}
    /\ queue \in [Queues -> Seq(Ops \cup {Barrier})] /\ started \subseteq Queues
    /\ worker \in [Queues -> Ops \cup {None}]
    /\ pc \in [Ops -> Steps]
    /\ kind \in [Ops -> Kinds] /\ bucket \in [Ops -> Buckets]
    /\ ticket \in [Ops -> {NoTicket} \cup 0..(nextTicket - 1)]
    /\ holds \subseteq Ops
    /\ caller \in [Clients -> Ops \cup {None}]
    /\ shut \in Queues \cup {"open", "dispatch", "sql", "closed"} /\ late \in BOOLEAN
    /\ sql \in {"open", "sealed", "closed"}

\* Nothing overtakes reserved work, whichever of the four kinds of thread runs
\* it: when an operation touches the file system, everything that reserved
\* before it has ended its turn or given its ticket up.  Two operations are
\* therefore never in the file system at once.
TurnsInTicketOrder ==
    \A o, p \in Ops :
        pc[o] = "run" /\ ticket[p] \in 0..(ticket[o] - 1) =>
            pc[p] \in Over

\* No ticket is orphaned: each one not yet served is cancelled or still has an
\* operation that will use or drop it, so a failed dispatch cannot stop the
\* sequence.
NoOrphanTicket ==
    /\ serving \notin cancelled
    /\ \A t \in serving..(nextTicket - 1) :
          t \in cancelled \/ \E o \in Ops : ticket[o] = t /\ pc[o] # "done"

\* The ticket sequence is one queue, whatever was cancelled, failed or handed
\* between threads.
TicketsInOrder == TypeOK /\ TurnsInTicketOrder /\ NoOrphanTicket

\* A bucket is active exactly while one operation owns its commit window, also
\* while the window is handed from one to the next; nobody waits on a free one.
QuotaHasOneOwner ==
    \A b \in Buckets :
        LET owners == {o \in holds : bucket[o] = b}
        IN  /\ Cardinality(owners) = IF b \in active THEN 1 ELSE 0
            /\ waiting[b] # <<>> => b \in active

\* When the files are drained, nothing can reach the quota queue any more.
NoLateDispatch ==
    shut \in {"io", "closed"} =>
        /\ \A b \in Buckets : waiting[b] = <<>>
        /\ ready = <<>> /\ handing = None
        /\ queue["quota"] = <<>>

\* "All accepted bucket cleanup ... must finish before profile unlock": when
\* shutdown is through, nothing that was accepted is left, the writes that Blob
\* reads prepared while SQL drained included, and the last stage was not begun
\* while work could still reach an earlier one.
ShutdownLeavesNothing ==
    /\ NoLateDispatch
    /\ shut = "closed" => \A o \in Ops : pc[o] \in {"new", "done"}

\* A job on the OPFS channel, or on its worker, is ahead of one that holds an
\* earlier ticket: dispatch_opfs reserves and sends in two steps.
Overtaken ==
    LET jobs == (IF worker["io"] = None THEN <<>> ELSE <<worker["io"]>>) \o queue["io"]
    IN  \E i, j \in DOMAIN jobs :
            /\ i < j /\ Barrier \notin {jobs[i], jobs[j]}
            /\ ticket[jobs[j]] < ticket[jobs[i]]

\* "Finish accepted OPFS work before releasing a profile": every operation
\* submitted to the service ends.
EveryOperationEnds == \A o \in Ops : pc[o] # "new" ~> pc[o] = "done"

\* Every operation ends, through failed dispatches, busy buckets, hand-offs and
\* shutdown, as long as no job overtakes an earlier ticket on its way into the
\* OPFS channel (dispatch_opfs, finish, drain_ready, drain_maintenance).
EndsUnlessOvertaken ==
    \A o \in Ops : pc[o] # "new" ~> (pc[o] = "done" \/ Overtaken)
=============================================================================
