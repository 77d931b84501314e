---------------------------- MODULE VersionChange ----------------------------
(***************************************************************************)
(* moli-indexeddb: open-with-upgrade and delete requests against the open  *)
(* connections of their database.  Requests take turns in a FIFO; the head *)
(* notifies every connection, learns from the acknowledgements whether it  *)
(* has to fire "blocked", and goes on when no connection is left.          *)
(* Connections close, are retired by force or are dropped meanwhile, on    *)
(* their own event loops, while the database worker serves the closings.   *)
(*                                                                         *)
(* The flags of a connection are separate atomics, so every load or store  *)
(* of one that another thread may meet in between is a step.               *)
(***************************************************************************)
EXTENDS Naturals, Sequences, SequencesExt, FiniteSets

CONSTANTS
    Factories,      \* accepted open or delete requests
    Connections,    \* connections open at the start
    NewConn,        \* the connection each successful request opens, or NoConn
    NoConn,
    MaxCalls        \* bound on the calls of close and retire, and drops

ASSUME VersionAssumption ==
    /\ IsFiniteSet(Connections) /\ NoConn \notin Connections
    /\ \A f \in Factories : NewConn[f] \notin Connections
    /\ \A f, g \in Factories : NewConn[f] = NewConn[g] => f = g \/ NewConn[f] = NoConn
    /\ MaxCalls \in Nat

Handles == Connections \cup ({NewConn[f] : f \in Factories} \ {NoConn})

Idle == [at |-> "idle"]

VARIABLES
    fifo,           \* ConnectionRequestQueues of this database
    stage,          \* Stage of each request
    wake,           \* requests whose event loop has a wake to serve
    pending, blocked, snapshot,     \* the VersionChangeBatch of each request
    registered,     \* ConnectionNotifications: the open connections
    notifications,  \* RegisteredConnection::notifications
    observers,      \* RegisteredConnection::observers
    taken,          \* acknowledgements the event loop holds during the event
    held,           \* ConnectionStatus::closing_acknowledgements
    closePending, retireRequested, inFlight, closed,   \* ConnectionStatus
    loop,           \* where each connection's event loop is inside a call
    mailbox,        \* closings submitted to the database worker
    worker,         \* what the worker is doing
    busy,           \* connections with accepted transactions
    calls,          \* calls of close and retire, and drops, so far
    plain,          \* history: who answered each batch and stayed open
    late            \* history: whose answer a later close was too late to hold

batchVars == <<pending, blocked, snapshot, plain, late>>
factoryVars == <<fifo, stage>>
noteVars == <<notifications, observers, taken, held>>
statusVars == <<closePending, retireRequested, inFlight, closed>>
versionVars == <<factoryVars, wake, batchVars, registered, noteVars, statusVars, loop,
          mailbox, worker, busy, calls>>

VersionInit ==
    /\ fifo = <<>> /\ stage = [f \in Factories |-> "new"] /\ wake = {}
    /\ pending = [f \in Factories |-> 0]
    /\ blocked = [f \in Factories |-> "unknown"]
    /\ snapshot = [f \in Factories |-> {}]
    /\ registered = Connections
    /\ notifications = [c \in Handles |-> <<>>]
    /\ observers = [c \in Handles |-> {}]
    /\ taken = [c \in Handles |-> {}] /\ held = [c \in Handles |-> {}]
    /\ closePending = {} /\ retireRequested = {} /\ inFlight = {} /\ closed = {}
    /\ loop = [c \in Handles |-> "idle"]
    /\ mailbox = <<>> /\ worker = Idle
    /\ busy \in SUBSET Connections
    /\ calls = 0
    /\ plain = [f \in Factories |-> {}] /\ late = [f \in Factories |-> {}]

------------------------------------------------------------------------------
(* Batches.                                                                *)

Decision(f) == IF snapshot[f] \cap registered # {} THEN "yes" ELSE "no"

\* VersionChangeCompletion::drop for the batches in F: the last one decides
\* whether "blocked" is due and wakes the request.  Those in W are woken too.
Complete(F, W) ==
    LET decided == {f \in F : pending[f] = 1}
    IN  /\ pending' = [f \in Factories |-> IF f \in F THEN pending[f] - 1 ELSE pending[f]]
        /\ blocked' = [f \in Factories |-> IF f \in decided THEN Decision(f) ELSE blocked[f]]
        /\ wake' = wake \cup decided \cup W
        /\ UNCHANGED snapshot

\* The batches in F learn c.
Noted(history, c, F) ==
    [f \in Factories |-> IF f \in F THEN history[f] \cup {c} ELSE history[f]]

------------------------------------------------------------------------------
(* Requests.                                                               *)

IsHead(f) == fifo # <<>> /\ Head(fifo) = f

\* ConnectionRequestHandle::finish: the next head is woken.
FinishRequest(f) ==
    LET rest == SelectSeq(fifo, LAMBDA g : g # f)
    IN  /\ fifo' = rest
        /\ wake' = (wake \ {f}) \cup (IF IsHead(f) /\ rest # <<>> THEN {Head(rest)} ELSE {})

Enqueue(f) ==
    /\ stage[f] = "new"
    /\ fifo' = Append(fifo, f)
    /\ stage' = [stage EXCEPT ![f] = "queued"]
    /\ wake' = wake \cup {f}
    /\ UNCHANGED <<batchVars, registered, noteVars, statusVars, loop, mailbox, worker, busy, calls>>

\* The metadata a request reads first comes from the worker, which by then has
\* served what earlier requests left behind.
Resolved == \A g \in Factories : stage[g] # "orphan"

\* Fault: connections that are closing already are counted too.
ExpectedAll == Cardinality(registered)

\* The acknowledgements a new batch waits for.
Expected == Cardinality(registered \ closePending)

\* begin_version_change: a snapshot of the open connections, a notification
\* for each that is not closing already.
BeginVersionChange(f) ==
    LET recipients == registered \ closePending
    IN  /\ f \in wake /\ IsHead(f) /\ stage[f] = "queued" /\ Resolved
        /\ snapshot' = [snapshot EXCEPT ![f] = registered]
        /\ pending' = [pending EXCEPT ![f] = Expected]
        /\ blocked' = [blocked EXCEPT ![f] =
               IF recipients # {} THEN "unknown" ELSE IF registered # {} THEN "yes" ELSE "no"]
        /\ notifications' = [c \in Handles |-> IF c \in recipients
                                 THEN Append(notifications[c], f) ELSE notifications[c]]
        /\ observers' = [c \in Handles |-> IF c \in registered
                             THEN observers[c] \cup {f} ELSE observers[c]]
        /\ stage' = [stage EXCEPT ![f] = "notifying"]
        /\ wake' = IF recipients = {} THEN wake ELSE wake \ {f}
        /\ plain' = [plain EXCEPT ![f] = registered \ recipients]
        /\ UNCHANGED <<late, fifo, registered, taken, held, statusVars, loop, mailbox, worker, busy, calls>>

\* Request f goes to another stage and nothing else changes.
Move(f, next) ==
    /\ stage' = [stage EXCEPT ![f] = next]
    /\ UNCHANGED <<fifo, batchVars, registered, noteVars, statusVars, loop, mailbox, worker, busy,
                   calls>>

\* The "blocked" event; a second task follows it whatever happens meanwhile.
FireBlocked(f) ==
    /\ f \in wake /\ IsHead(f)
    /\ stage[f] = "notifying" /\ blocked[f] = "yes"
    /\ Move(f, "blocked")
    /\ UNCHANGED wake

Decided(f) == stage[f] = "blocked" \/ (stage[f] = "notifying" /\ blocked[f] = "no")

\* No connection is left: the open or the deletion is submitted.
Proceed(f) ==
    /\ f \in wake /\ IsHead(f) /\ Decided(f) /\ registered = {}
    /\ Move(f, "waiting")
    /\ wake' = wake \ {f}

\* An open of the version the database has needs no version change.
OpenAtOnce(f) ==
    /\ f \in wake /\ IsHead(f) /\ stage[f] = "queued" /\ Resolved /\ NewConn[f] # NoConn
    /\ Move(f, "waiting")
    /\ wake' = wake \ {f}

\* fail, before anything is notified: a lower version, a scope that is gone.
FailEarly(f) ==
    /\ f \in wake /\ IsHead(f) /\ stage[f] = "queued"
    /\ Move(f, "event")
    /\ wake' = wake \ {f}

\* The worker registers the new connection, perhaps with its upgrade, or fails.
\* If the request has gone meanwhile, the completion drops the connection.
Reply(f) ==
    /\ stage[f] \in {"waiting", "orphan"} /\ worker = Idle
    /\ \E opened \in SUBSET ({NewConn[f]} \ {NoConn}) :
           /\ registered' = registered \cup opened
           /\ IF stage[f] = "waiting"
              THEN /\ \E upgrading \in SUBSET opened : busy' = busy \cup upgrading
                   /\ stage' = [stage EXCEPT ![f] = "event"]
                   /\ UNCHANGED <<loop, retireRequested>>
              ELSE /\ loop' = [c \in Handles |-> IF c \in opened THEN "drop" ELSE loop[c]]
                   /\ retireRequested' = retireRequested \cup opened
                   /\ stage' = [stage EXCEPT ![f] = "done"]
                   /\ UNCHANGED busy
    /\ UNCHANGED <<fifo, wake, batchVars, noteVars, closePending, inFlight, closed, mailbox, worker,
                   calls>>

\* The success or error event, after the upgrade: the lease goes with it.
Deliver(f) ==
    /\ stage[f] = "event" /\ f \in ToSet(fifo) /\ NewConn[f] \notin busy
    /\ stage' = [stage EXCEPT ![f] = "done"]
    /\ FinishRequest(f)
    /\ UNCHANGED <<batchVars, registered, noteVars, statusVars, loop, mailbox, worker, busy, calls>>

\* A wake that finds nothing to do yet leaves the task in the queue.
NotReady(f) ==
    /\ f \in wake
    /\ ~(IsHead(f) /\ \/ stage[f] = "queued"
                      \/ stage[f] = "notifying" /\ blocked[f] = "yes"
                      \/ Decided(f) /\ registered = {})
    /\ wake' = wake \ {f}
    /\ UNCHANGED <<factoryVars, batchVars, registered, noteVars, statusVars, loop, mailbox, worker,
                   busy, calls>>

\* The realm of the request goes away with its lease; what it has submitted
\* is served all the same.
Withdraw(f) ==
    /\ f \in ToSet(fifo)
    /\ stage' = [stage EXCEPT ![f] = IF @ = "waiting" THEN "orphan" ELSE "done"]
    /\ FinishRequest(f)
    /\ UNCHANGED <<batchVars, registered, noteVars, statusVars, loop, mailbox, worker, busy, calls>>

------------------------------------------------------------------------------
(* Event loops of the connections.                                         *)

TakeNotification(c) ==
    /\ loop[c] = "idle" /\ c \in registered /\ notifications[c] # <<>>
    /\ taken' = [taken EXCEPT ![c] = @ \cup {Head(notifications[c])}]
    /\ notifications' = [notifications EXCEPT ![c] = Tail(@)]
    /\ UNCHANGED <<factoryVars, wake, batchVars, registered, observers, held, statusVars, loop,
                   mailbox, worker, busy, calls>>

\* VersionChangeAcknowledgement::drop, after the event and its microtasks: a
\* closing connection leaves it to the worker.
Acknowledge(c, f) ==
    /\ f \in taken[c]
    /\ taken' = [taken EXCEPT ![c] = @ \ {f}]
    /\ IF c \in inFlight \ closed
       THEN /\ held' = [held EXCEPT ![c] = @ \cup {f}]
            /\ UNCHANGED <<wake, batchVars>>
       ELSE /\ Complete({f}, {})
            /\ plain' = Noted(plain, c, IF c \in closed THEN {} ELSE {f})
            /\ UNCHANGED <<late, held>>
    /\ UNCHANGED <<factoryVars, registered, notifications, observers, statusVars, loop, mailbox,
                   worker, busy, calls>>

Called == calls < MaxCalls /\ calls' = calls + 1

\* DatabaseConnection::close and ::retire, up to mark_close_pending.
CallClose(c, kind) ==
    /\ loop[c] = "idle" /\ (c \in registered \/ c \in closePending)
    /\ kind = "retire" => c \notin retireRequested
    /\ Called
    /\ loop' = [loop EXCEPT ![c] = kind]
    /\ closePending' = closePending \cup {c}
    /\ retireRequested' = IF kind = "retire" THEN retireRequested \cup {c} ELSE retireRequested
    /\ UNCHANGED <<factoryVars, wake, batchVars, registered, noteVars, inFlight, closed, mailbox,
                   worker, busy>>

\* Drop of the last alias; a close in flight keeps one.
CallDrop(c) ==
    /\ loop[c] = "idle" /\ c \in registered \ (inFlight \cup retireRequested)
    /\ Called
    /\ loop' = [loop EXCEPT ![c] = "drop"]
    /\ retireRequested' = retireRequested \cup {c}
    /\ UNCHANGED <<factoryVars, wake, batchVars, registered, noteVars, closePending, inFlight,
                   closed, mailbox, worker, busy>>

\* The rest of the call: unless it is closed or another closing is in flight,
\* one is submitted.
Submit(c) ==
    /\ loop[c] \in {"close", "retire", "drop"}
    /\ loop' = [loop EXCEPT ![c] = IF @ = "drop" THEN "gone" ELSE "idle"]
    /\ IF c \in closed \cup inFlight
       THEN UNCHANGED <<inFlight, mailbox>>
       ELSE /\ inFlight' = inFlight \cup {c}
            /\ mailbox' = Append(mailbox, [connection |-> c, forced |-> loop[c] # "close"])
    /\ UNCHANGED <<factoryVars, wake, batchVars, registered, noteVars, closePending,
                   retireRequested, closed, worker, busy, calls>>

\* A connection's transactions end.
FinishWork(c) ==
    /\ c \in busy
    /\ busy' = busy \ {c}
    /\ UNCHANGED <<factoryVars, wake, batchVars, registered, noteVars, statusVars, loop, mailbox,
                   worker, calls>>

------------------------------------------------------------------------------
(* The database worker.                                                    *)

WorkerAt(place) == worker.at = place
Goto(place) == worker' = [worker EXCEPT !.at = place]

\* retire_connection: by force, or politely and not busy; otherwise refused.
RetireConnection ==
    /\ worker = Idle /\ mailbox # <<>>
    /\ LET c == Head(mailbox).connection
           forced == Head(mailbox).forced \/ c \in retireRequested
       IN  IF forced \/ c \notin busy
           THEN /\ busy' = busy \ {c}
                /\ worker' = [at |-> "unregister", connection |-> c]
           ELSE /\ worker' = [at |-> "refuse", connection |-> c]
                /\ UNCHANGED busy
    /\ mailbox' = Tail(mailbox)
    /\ UNCHANGED <<factoryVars, wake, batchVars, registered, noteVars, statusVars, loop, calls>>

\* Fault: closure is published before the unregistration.
UnregisterLast ==
    LET c == worker.connection
    IN  /\ \/ WorkerAt("unregister") /\ closed' = closed \cup {c} /\ Goto("late") /\ UNCHANGED registered
           \/ WorkerAt("late") /\ registered' = registered \ {c} /\ Goto("discard") /\ UNCHANGED closed
        /\ UNCHANGED <<factoryVars, wake, batchVars, noteVars, closePending, retireRequested,
                       inFlight, loop, mailbox, busy, calls>>

\* ConnectionNotifications::unregister, under its lock ...
Unregister ==
    /\ WorkerAt("unregister")
    /\ registered' = registered \ {worker.connection}
    /\ Goto("discard")
    /\ UNCHANGED <<factoryVars, wake, batchVars, noteVars, statusVars, loop, mailbox, busy, calls>>

\* Fault: the requests that watch the connection are not told.
DiscardSilently ==
    LET c == worker.connection
    IN  /\ WorkerAt("discard")
        /\ Complete(ToSet(notifications[c]), {})
        /\ notifications' = [notifications EXCEPT ![c] = <<>>]
        /\ observers' = [observers EXCEPT ![c] = {}]
        /\ Goto("closed")
        /\ UNCHANGED <<factoryVars, plain, late, registered, taken, held, statusVars, loop,
                       mailbox, busy, calls>>

\* ... and after it: undelivered notifications count as acknowledged, and the
\* requests that watch the connection are woken.
Discard ==
    LET c == worker.connection
    IN  /\ WorkerAt("discard")
        /\ Complete(ToSet(notifications[c]), observers[c])
        /\ notifications' = [notifications EXCEPT ![c] = <<>>]
        /\ observers' = [observers EXCEPT ![c] = {}]
        /\ Goto("closed")
        /\ UNCHANGED <<factoryVars, plain, late, registered, taken, held, statusVars, loop,
                       mailbox, busy, calls>>

\* Closure is published after the unregistration.
MarkClosed ==
    /\ WorkerAt("closed")
    /\ closed' = closed \cup {worker.connection}
    /\ Goto("release")
    /\ UNCHANGED <<factoryVars, wake, batchVars, registered, noteVars, closePending,
                   retireRequested, inFlight, loop, mailbox, busy, calls>>

\* The held acknowledgements are taken under their lock and given.
ReleaseHeld ==
    LET c == worker.connection
    IN  /\ Complete(held[c], {})
        /\ held' = [held EXCEPT ![c] = {}]
        /\ worker' = Idle
        /\ UNCHANGED <<factoryVars, plain, registered, notifications, observers, taken, statusVars,
                       loop, mailbox, busy, calls>>

Release ==
    /\ WorkerAt("release")
    /\ ReleaseHeld
    /\ UNCHANGED late

\* The completion of a refused closing: first the flag ...
Refuse ==
    /\ WorkerAt("refuse")
    /\ inFlight' = inFlight \ {worker.connection}
    /\ Goto("again")
    /\ UNCHANGED <<factoryVars, wake, batchVars, registered, noteVars, closePending,
                   retireRequested, closed, loop, mailbox, busy, calls>>

\* Fault: the completion forgets the retirement asked for meanwhile.
RetireAgainNever ==
    /\ WorkerAt("again")
    /\ Goto("unhold")
    /\ UNCHANGED <<factoryVars, wake, batchVars, registered, noteVars, statusVars, loop, mailbox,
                   busy, calls>>

\* ... then a retirement asked for meanwhile is submitted in its place ...
RetireAgain ==
    /\ WorkerAt("again")
    /\ LET c == worker.connection
       IN  IF c \in retireRequested \ (closed \cup inFlight)
           THEN /\ inFlight' = inFlight \cup {c}
                /\ mailbox' = Append(mailbox, [connection |-> c, forced |-> TRUE])
           ELSE UNCHANGED <<inFlight, mailbox>>
    /\ Goto("unhold")
    /\ UNCHANGED <<factoryVars, wake, batchVars, registered, noteVars, closePending,
                   retireRequested, closed, loop, busy, calls>>

\* ... then the flag is read again, without a lock ...
Unhold ==
    LET c == worker.connection
    IN  /\ WorkerAt("unhold")
        /\ IF c \in inFlight
           THEN worker' = Idle /\ UNCHANGED plain
           ELSE Goto("take") /\ plain' = Noted(plain, c, held[c])
        /\ UNCHANGED <<factoryVars, wake, pending, blocked, snapshot, late, registered, noteVars,
                       statusVars, loop, mailbox, busy, calls>>

\* ... and whatever is held by now is given, also what a close accepted since
\* then is holding.
TakeHeld ==
    LET c == worker.connection
    IN  /\ WorkerAt("take")
        /\ ReleaseHeld
        /\ late' = Noted(late, c, {f \in held[c] : c \in inFlight \ plain[f]})

Worker ==
    \/ RetireConnection \/ Unregister \/ Discard \/ MarkClosed \/ Release
    \/ Refuse \/ RetireAgain \/ Unhold \/ TakeHeld

Request(f) ==
    \/ BeginVersionChange(f) \/ OpenAtOnce(f) \/ FailEarly(f)
    \/ FireBlocked(f) \/ Proceed(f) \/ NotReady(f)

Recipient(c) == TakeNotification(c) \/ Submit(c) \/ \E f \in Factories : Acknowledge(c, f)

VersionNext ==
    \/ \E f \in Factories : Enqueue(f) \/ Request(f) \/ Reply(f) \/ Deliver(f) \/ Withdraw(f)
    \/ \E c \in Handles :
           \/ Recipient(c) \/ CallDrop(c) \/ FinishWork(c)
           \/ \E kind \in {"close", "retire"} : CallClose(c, kind)
    \/ Worker

VersionSpec == VersionInit /\ [][VersionNext]_versionVars

\* Threads run and every event handler returns.
FairVersionSpec ==
    /\ VersionSpec /\ WF_versionVars(Worker)
    /\ \A f \in Factories : /\ WF_versionVars(Request(f)) /\ WF_versionVars(Reply(f))
                           /\ WF_versionVars(Deliver(f))
    /\ \A c \in Handles :
           /\ WF_versionVars(TakeNotification(c)) /\ WF_versionVars(Submit(c))
           /\ \A f \in Factories : WF_versionVars(Acknowledge(c, f))

------------------------------------------------------------------------------
(* Properties.                                                             *)

Outstanding(f) ==
    {c \in Handles : f \in ToSet(notifications[c]) \cup taken[c] \cup held[c]}

\* A batch counts exactly the acknowledgements still out, wherever they are:
\* queued, in an event, or waiting for a close receipt.  The assertion against
\* underflow in VersionChangeCompletion::drop rests on it, and a batch is
\* decided as soon as, and no sooner than, everybody has answered.
AcknowledgementsExact ==
    \A f \in Factories :
        /\ pending[f] = Cardinality(Outstanding(f))
        /\ stage[f] \in {"notifying", "blocked"} => (pending[f] = 0 <=> blocked[f] # "unknown")

\* "blocked" is due only if some connection stayed open beyond its own event:
\* it was closing already, acknowledged without closing, or was refused; or
\* if a close was accepted while the completion of an earlier, refused one was
\* between its load of retirement_in_flight and the take.  In no other way does
\* a connection whose close was accepted during the event cause it, however
\* the acknowledgement, the unregistration and the publication of closed
\* interleave.
NoSpuriousBlocked ==
    \A f \in Factories : blocked[f] = "yes" => plain[f] \cup late[f] # {}

\* What VersionChangeAcknowledgement promises: the acknowledgement of an event
\* that asked for a close follows its receipt.  It does not hold.
AcknowledgementFollowsReceipt ==
    \A f \in Factories : blocked[f] = "yes" => plain[f] # {}

\* A retirement is carried out, also when it found a polite close in flight
\* and left the work to that close's completion.
RetirementCompletes == \A c \in Handles : c \in retireRequested ~> c \in closed

\* The head request is decided, and goes on once the last connection is gone.
UpgradeProceeds ==
    \A f \in Factories :
        /\ stage[f] = "notifying" ~> stage[f] # "notifying" \/ blocked[f] = "no"
        /\ (stage[f] # "done" /\ IsHead(f) /\ registered = {}) ~>
              (stage[f] = "done" \/ registered # {})
=============================================================================
