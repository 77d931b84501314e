---------------------------- MODULE MessagePorts ----------------------------
(***************************************************************************)
(* Message ports: the endpoint registry of moli-message-port shared by     *)
(* every page and worker thread, and the renderer's use of it (posting,    *)
(* starting, closing, transferring and delivering).  Each registry call    *)
(* holds the registry's lock, so it is one step; a script call or a        *)
(* delivery is several of them, and the other threads run in between.      *)
(*                                                                         *)
(* A context's thread executes todo[c], the registry calls its current     *)
(* script call or task still has to make, in order; author code runs only  *)
(* between calls.  A message is what it carries: a transferred port or     *)
(* NoPort.                                                                 *)
(***************************************************************************)
EXTENDS Naturals, Sequences, FiniteSets, OrderedRemoval

CONSTANTS Pages,       \* window contexts: one event per selected task
          Workers,     \* worker contexts: a wake drains the port's queue
          Channels,    \* each is an entangled pair of endpoints
          Home,        \* where the two endpoints of each channel are at first
          NoPort, NoContext,
          MaxCalls,    \* bound: calls of postMessage and close
          MaxDeaths    \* bound: contexts that go away

Contexts == Pages \cup Workers
Ports == Channels \X {1, 2}
PeerOf(p) == <<p[1], 3 - p[2]>>

ASSUME PortsAssumption ==
    /\ Pages \cap Workers = {} /\ IsFiniteSet(Channels)
    /\ NoContext \notin Contexts /\ NoPort \notin Ports
    /\ Home \in [Ports -> Contexts]
    /\ MaxCalls \in Nat /\ MaxDeaths \in Nat

VARIABLES
    live,          \* endpoints the registry still has
    peer,          \* peer_id of each endpoint, NoPort once the peer has closed
    portOwner,     \* the context to wake for an endpoint
    pending,       \* pending_messages of each endpoint
    closing,       \* endpoints with a pending close event
    wrapper,       \* endpoints each context has a port object for
    startedPorts,  \* started slot of the newest object of an endpoint in a context
    inbox,         \* wakes queued for each context
    turn,          \* the delivery each context is running
    todo,          \* registry calls each context's thread still has to make
    contextStatus, \* running, terminating or dead
    calls          \* calls of postMessage and close so far

registry == <<live, peer, portOwner, pending, closing>>
objects == <<wrapper, startedPorts>>
threads == <<inbox, turn, contextStatus>>
portsVars == <<registry, objects, threads, todo, calls>>

NoTurn == [port |-> NoPort, more |-> FALSE, phase |-> "none"]

Wake(p) == [op |-> "wake", port |-> p]
Send(p, c) == [op |-> "send", port |-> p, to |-> c]
Clear(p) == [op |-> "clear", port |-> p]
ClosePort(p) == [op |-> "close", port |-> p]
Detach(p) == [op |-> "detach", port |-> p]
Attach(p) == [op |-> "attach", port |-> p]
EnqueueMessage(p, m) == [op |-> "enqueue", port |-> p, message |-> m]
Receive(p, m) == [op |-> "receive", port |-> p, message |-> m]

\* discard_messages: every port a canceled message carries is closed.
Discard(ms) ==
    LET carrying == Without(ms, {NoPort})
    IN  [i \in DOMAIN carrying |-> ClosePort(carrying[i])]

PortsInit ==
    /\ live = Ports
    /\ peer = [p \in Ports |-> PeerOf(p)]
    /\ portOwner = Home
    /\ pending = [p \in Ports |-> <<>>]
    /\ closing = {}
    /\ wrapper = [c \in Contexts |-> {p \in Ports : Home[p] = c}]
    /\ startedPorts = [c \in Contexts |-> {}]
    /\ inbox = [c \in Contexts |-> <<>>]
    /\ turn = [c \in Contexts |-> NoTurn]
    /\ todo = [c \in Contexts |-> <<>>]
    /\ contextStatus = [c \in Contexts |-> "running"]
    /\ calls = 0

-----------------------------------------------------------------------------
(* Registry calls made by a thread, one per step.                          *)

Then(c, ops) == todo' = [todo EXCEPT ![c] = ops \o Tail(@)]

HasWork(p) == p \in closing \/ pending[p] # <<>>

\* wake_message_port_if_pending: the owner is copied out of the registry and
\* used after the lock has been released.
DoWake(c, p) ==
    /\ Then(c, IF p \in live /\ HasWork(p) /\ portOwner[p] # NoContext
                THEN <<Send(p, portOwner[p])>> ELSE <<>>)
    /\ UNCHANGED <<registry, objects, threads, calls>>

\* wake_port_if_owned: the send fails when the context's receiver is gone.
DoSend(c, p, to) ==
    /\ IF contextStatus[to] = "dead"
       THEN Then(c, <<Clear(p)>>) /\ UNCHANGED inbox
       ELSE Then(c, <<>>) /\ inbox' = [inbox EXCEPT ![to] = Append(@, p)]
    /\ UNCHANGED <<registry, objects, turn, contextStatus, calls>>

\* clear_message_port_owner and detach_message_port_owner_for_transfer.
DoRelease(c, p) ==
    /\ portOwner' = IF p \in live THEN [portOwner EXCEPT ![p] = NoContext] ELSE portOwner
    /\ Then(c, <<>>)
    /\ UNCHANGED <<live, peer, pending, closing, objects, threads, calls>>

\* Materializing a transferred port: its wake is not sent.
DoAttach(c, p) ==
    /\ portOwner' = IF p \in live THEN [portOwner EXCEPT ![p] = c] ELSE portOwner
    /\ Then(c, <<>>)
    /\ UNCHANGED <<live, peer, pending, closing, objects, threads, calls>>

\* enqueue_message_to_endpoint, then the wake or the disposal of the message.
DoEnqueue(c, p, m) ==
    /\ pending' = IF p \in live THEN [pending EXCEPT ![p] = Append(@, m)] ELSE pending
    /\ Then(c, IF p \in live THEN <<Wake(p)>> ELSE Discard(<<m>>))
    /\ UNCHANGED <<live, peer, portOwner, closing, objects, threads, calls>>

\* close_message_port and discard_messages: the queued messages are disposed of
\* after those that are already waiting for it.  Nothing else is ever left to
\* do behind a close.
DoClose(c, p) ==
    LET q == peer[p]
        told == p \in live /\ q \in live
    IN  /\ live' = live \ {p}
        /\ peer' = IF told THEN [peer EXCEPT ![q] = NoPort, ![p] = NoPort]
                   ELSE [peer EXCEPT ![p] = NoPort]
        /\ closing' = (closing \ {p}) \cup (IF told THEN {q} ELSE {})
        /\ pending' = [pending EXCEPT ![p] = <<>>]
        /\ portOwner' = [portOwner EXCEPT ![p] = NoContext]
        /\ todo' = [todo EXCEPT ![c] =
                (IF told /\ portOwner[q] # NoContext THEN <<Send(q, portOwner[q])>> ELSE <<>>)
                \o Tail(@) \o Discard(pending[p])]
        /\ UNCHANGED <<objects, threads, calls>>

\* A polled message reaches its context: the port it carries gets an object
\* there.  A message the context may not have is disposed of; one that does not
\* deserialize, or comes to a worker being terminated, is only dropped.
DoReceive(c, p, m) ==
    /\ \/ UNCHANGED objects /\ Then(c, <<>>)
       \/ UNCHANGED objects /\ Then(c, Discard(<<m>>))
       \/ /\ m # NoPort /\ contextStatus[c] = "running"
          /\ wrapper' = [wrapper EXCEPT ![c] = @ \cup {m}]
          /\ startedPorts' = [startedPorts EXCEPT ![c] = @ \ {m}]
          /\ Then(c, <<Attach(m)>>)
    /\ UNCHANGED <<registry, threads, calls>>

Call(c) ==
    /\ todo[c] # <<>>
    /\ LET next == Head(todo[c])
           p == next.port
       IN  \/ next.op = "wake" /\ DoWake(c, p)
           \/ next.op = "send" /\ DoSend(c, p, next.to)
           \/ next.op \in {"clear", "detach"} /\ DoRelease(c, p)
           \/ next.op = "attach" /\ DoAttach(c, p)
           \/ next.op = "enqueue" /\ DoEnqueue(c, p, next.message)
           \/ next.op = "close" /\ DoClose(c, p)
           \/ next.op = "receive" /\ DoReceive(c, p, next.message)

-----------------------------------------------------------------------------
(* Author code: a script task, or the handler of a delivered event.        *)

BetweenCalls(c) == contextStatus[c] = "running" /\ todo[c] = <<>>
Author(c) == BetweenCalls(c) /\ turn[c].phase # "task"

\* Fault: the transferring context keeps its port object.
PostMessageKeepingObject(c, p, q) ==
    /\ Author(c)
    /\ p \in wrapper[c] /\ q \in (wrapper[c] \ {p}) \cup {NoPort}
    /\ calls < MaxCalls /\ calls' = calls + 1
    /\ LET to == IF p \in live THEN peer[p] ELSE NoPort
           sent == IF to \in {NoPort, q} THEN Discard(<<q>>) ELSE <<EnqueueMessage(to, q)>>
       IN  todo' = [todo EXCEPT ![c] = (IF q = NoPort THEN <<>> ELSE <<Detach(q)>>) \o sent]
    /\ UNCHANGED <<registry, objects, threads>>

\* postMessage(value, [q]): the destination is captured, the transferred port
\* is detached while the value is serialized, then the message is enqueued.  A
\* message without a destination, or to the port it carries, is disposed of.
PostMessage(c, p, q) ==
    /\ Author(c)
    /\ p \in wrapper[c] /\ q \in (wrapper[c] \ {p}) \cup {NoPort}
    /\ calls < MaxCalls /\ calls' = calls + 1
    /\ LET to == IF p \in live THEN peer[p] ELSE NoPort
           sent == IF to \in {NoPort, q} THEN Discard(<<q>>) ELSE <<EnqueueMessage(to, q)>>
       IN  todo' = [todo EXCEPT ![c] = (IF q = NoPort THEN <<>> ELSE <<Detach(q)>>) \o sent]
    /\ wrapper' = [wrapper EXCEPT ![c] = @ \ {q}]
    /\ UNCHANGED <<registry, startedPorts, threads>>

\* Fault: starting a port publishes no task for what it already holds.
StartPortSilently(c, p) ==
    /\ Author(c)
    /\ p \in wrapper[c] \ startedPorts[c]
    /\ startedPorts' = [startedPorts EXCEPT ![c] = @ \cup {p}]
    /\ UNCHANGED <<registry, wrapper, threads, todo, calls>>

\* start(), or setting onmessage.
StartPort(c, p) ==
    /\ Author(c)
    /\ p \in wrapper[c] \ startedPorts[c]
    /\ startedPorts' = [startedPorts EXCEPT ![c] = @ \cup {p}]
    /\ todo' = [todo EXCEPT ![c] = <<Wake(p)>>]
    /\ UNCHANGED <<registry, wrapper, threads, calls>>

CloseCallback(c, p) ==
    /\ Author(c)
    /\ p \in wrapper[c]
    /\ calls < MaxCalls /\ calls' = calls + 1
    /\ wrapper' = [wrapper EXCEPT ![c] = @ \ {p}]
    /\ todo' = [todo EXCEPT ![c] = <<ClosePort(p)>>]
    /\ UNCHANGED <<registry, startedPorts, threads>>

-----------------------------------------------------------------------------
(* Delivery.                                                               *)

\* A wake is taken from the context's queue.  It is ignored when the context
\* no longer has an object for the port; a page notes whether another task of
\* the same port is queued.
TakeWake(c) ==
    /\ BetweenCalls(c) /\ turn[c] = NoTurn
    /\ inbox[c] # <<>>
    /\ LET p == Head(inbox[c])
           rest == Tail(inbox[c])
       IN  /\ inbox' = [inbox EXCEPT ![c] = rest]
           /\ turn' = [turn EXCEPT ![c] = IF p \in wrapper[c]
                  THEN [port |-> p, phase |-> "task",
                        more |-> \E i \in DOMAIN rest : rest[i] = p]
                  ELSE NoTurn]
    /\ UNCHANGED <<registry, objects, contextStatus, todo, calls>>

\* After an event a worker's loop polls again, with the same object; a page's
\* turn ends, having published another task if none was queued.
AfterEvent(c) ==
    [turn EXCEPT ![c].phase = IF c \in Workers THEN "drain" ELSE "after"]

PollMessage(c, p) ==
    /\ p \in live /\ p \in startedPorts[c] /\ pending[p] # <<>>
    /\ pending' = [pending EXCEPT ![p] = Tail(@)]
    /\ todo' = [todo EXCEPT ![c] = <<Receive(p, Head(pending[p]))>>]
    /\ turn' = AfterEvent(c)
    /\ UNCHANGED <<live, peer, portOwner, closing, objects>>

\* The close event of a port comes after all its messages.
PollClose(c, p) ==
    /\ p \in live /\ p \in startedPorts[c] /\ pending[p] = <<>> /\ p \in closing
    /\ closing' = closing \ {p}
    /\ turn' = AfterEvent(c)
    /\ UNCHANGED <<live, peer, portOwner, pending, objects, todo>>

PollIdle(c, p) ==
    /\ p \in live /\ (p \in startedPorts[c] => ~HasWork(p))
    /\ turn' = [turn EXCEPT ![c] = NoTurn]
    /\ UNCHANGED <<registry, objects, todo>>

PollRemoved(c, p) ==
    /\ p \notin live
    /\ wrapper' = [wrapper EXCEPT ![c] = @ \ {p}]
    /\ turn' = [turn EXCEPT ![c] = NoTurn]
    /\ UNCHANGED <<registry, startedPorts, todo>>

Poll(c) ==
    /\ BetweenCalls(c)
    /\ turn[c].phase \in {"task", "drain"}
    /\ LET p == turn[c].port
       IN  PollMessage(c, p) \/ PollClose(c, p) \/ PollIdle(c, p) \/ PollRemoved(c, p)
    /\ UNCHANGED <<inbox, contextStatus, calls>>

FinishTurn(c) ==
    /\ BetweenCalls(c)
    /\ turn[c].phase = "after"
    /\ turn' = [turn EXCEPT ![c] = NoTurn]
    /\ todo' = [todo EXCEPT ![c] = IF turn[c].more THEN <<>> ELSE <<Wake(turn[c].port)>>]
    /\ UNCHANGED <<registry, objects, inbox, contextStatus, calls>>

-----------------------------------------------------------------------------
(* The end of a context.                                                   *)

Deaths == {c \in Contexts : contextStatus[c] # "running"}

\* Worker.terminate() may come at any moment, and a delivery then goes no
\* further than the call it is making; a page's document is torn down by its own
\* thread, between two calls.
Terminate(c) ==
    /\ contextStatus[c] = "running" /\ Cardinality(Deaths) < MaxDeaths
    /\ c \in Pages => todo[c] = <<>>
    /\ contextStatus' = [contextStatus EXCEPT ![c] = "terminating"]
    /\ turn' = [turn EXCEPT ![c] = NoTurn]
    /\ UNCHANGED <<registry, objects, inbox, todo, calls>>

\* close_worker_owned_message_ports and retire_message_port, for the next of the
\* ports: what its close discards is disposed of before the one after it.
CloseOwned(c) ==
    /\ contextStatus[c] = "terminating" /\ todo[c] = <<>>
    /\ \E p \in wrapper[c] :
          /\ wrapper' = [wrapper EXCEPT ![c] = @ \ {p}]
          /\ todo' = [todo EXCEPT ![c] = <<ClosePort(p)>>]
    /\ UNCHANGED <<registry, startedPorts, threads, calls>>

\* The receiver of the context's wakes is dropped with what it still holds.
DropReceiver(c) ==
    /\ contextStatus[c] = "terminating" /\ todo[c] = <<>> /\ wrapper[c] = {}
    /\ contextStatus' = [contextStatus EXCEPT ![c] = "dead"]
    /\ inbox' = [inbox EXCEPT ![c] = <<>>]
    /\ UNCHANGED <<registry, objects, turn, todo, calls>>

Thread(c) == Call(c) \/ TakeWake(c) \/ Poll(c) \/ FinishTurn(c)
                     \/ CloseOwned(c) \/ DropReceiver(c)

Script(c) ==
    \/ \E p \in Ports, q \in Ports \cup {NoPort} : PostMessage(c, p, q)
    \/ \E p \in Ports : StartPort(c, p) \/ CloseCallback(c, p)

PortsNext == \E c \in Contexts : Thread(c) \/ Script(c) \/ Terminate(c)

PortsSpec == PortsInit /\ [][PortsNext]_portsVars

-----------------------------------------------------------------------------
\* Every variable has its type.
PortsTypeOK ==
    /\ live \subseteq Ports /\ closing \subseteq live
    /\ peer \in [Ports -> Ports \cup {NoPort}]
    /\ portOwner \in [Ports -> Contexts \cup {NoContext}]
    /\ pending \in [Ports -> Seq(Ports \cup {NoPort})]
    /\ wrapper \in [Contexts -> SUBSET Ports]
    /\ startedPorts \in [Contexts -> SUBSET Ports]
    /\ inbox \in [Contexts -> Seq(Ports)]
    /\ contextStatus \in [Contexts -> {"running", "terminating", "dead"}]
    /\ calls \in 0..MaxCalls

\* The places an endpoint can be: a context with an object for it, a message
\* queued at another endpoint, or a call a thread is about to make with it.
Held(p) == {c \in Contexts : p \in wrapper[c]}
Queued(p) == {at \in Ports \X (1..MaxCalls) :
                 at[2] \in DOMAIN pending[at[1]] /\ pending[at[1]][at[2]] = p}
Moving(p) == {at \in Contexts \X (1..(2 * MaxCalls + Cardinality(Ports) + 2)) :
                 /\ at[2] \in DOMAIN todo[at[1]]
                 /\ LET call == todo[at[1]][at[2]]
                    IN  \/ call.op \in {"enqueue", "receive"} /\ call.message = p
                        \/ call.op = "close" /\ call.port = p /\ p \in live}
Places(p) == Cardinality(Held(p)) + Cardinality(Queued(p)) + Cardinality(Moving(p))

\* A transfer moves an endpoint: it is never at two places at once, whatever
\* the peer, the receiver and the terminating contexts do meanwhile, and a
\* registered owner is the context that holds it.  (A port is detached and its
\* object forgotten, postMessage; attached where the message is received;
\* disposed of once with a canceled message.)
HeldOnce ==
    /\ PortsTypeOK
    /\ \A p \in live :
          /\ Places(p) <= 1
          /\ \A c \in Contexts :
                portOwner[p] = c /\ contextStatus[c] # "dead" =>
                    \/ p \in wrapper[c]
                    \/ \E i \in DOMAIN todo[c] :
                          todo[c][i].op \in {"detach", "close"} /\ todo[c][i].port = p

\* A call that will wake the owner of p, or the wake of c itself.
Wakes(call, p, c) ==
    call.port = p /\ (call.op \in {"wake", "enqueue"} \/ (call.op = "send" /\ call.to = c))

\* While no context has gone away, a started port with messages or a close
\* event never depends on a wake that nobody will send: one is queued for the
\* context that holds it, being delivered there, or about to be sent by some
\* thread.  It is not lost to a transfer, to an owner read too early, or to the
\* moment between the enqueue and start() (wake_message_port_if_pending, start,
\* the page's next task).
StartedPortsAreWoken ==
    Deaths = {} =>
        \A c \in Contexts : \A p \in live \cap wrapper[c] \cap startedPorts[c] :
            HasWork(p) =>
                \/ turn[c].port = p
                \/ \E i \in DOMAIN inbox[c] : inbox[c][i] = p
                \/ \E d \in Contexts : \E i \in DOMAIN todo[d] : Wakes(todo[d][i], p, c)

\* "The registry payload belongs to the port's current attachment.  A stale
\* wake must never consume or close it": only the context that holds a port
\* takes messages from its queue.
StaleWakeConsumesNothing ==
    [][\A p \in Ports :
          p \in live /\ p \in live' /\ pending'[p] # pending[p]
              /\ Len(pending'[p]) < Len(pending[p])
          => \E c \in Contexts : turn[c].port = p /\ p \in wrapper[c]]_portsVars

\* "Clear a stale owner after the embedding layer failed to schedule it": the
\* owner that is cleared is one that cannot be scheduled, or is transferring.
OnlyStaleOwnersCleared ==
    [][\A p \in Ports : \A c \in Contexts :
          p \in live' /\ portOwner[p] = c /\ portOwner'[p] = NoContext
          => \/ contextStatus[c] = "dead"
             \/ todo[c] # <<>> /\ Head(todo[c]) = Detach(p)]_portsVars

\* No "transfer failure or an unclaimed transfer entry" orphans an endpoint:
\* a live endpoint is somewhere.
NoOrphanEndpoint ==
    \A p \in live : Places(p) >= 1
=============================================================================
