--------------------------- MODULE TransactionQueue ---------------------------
(***************************************************************************)
(* moli-indexeddb: admission of regular transactions to one database.      *)
(* Event loops queue transactions and submit BEGIN, COMMIT and ABORT to    *)
(* the database owner, which serves one mailbox; a connection may close,   *)
(* be retired by force, or disappear with its realm while its transactions *)
(* wait, start or run.                                                     *)
(*                                                                         *)
(* A step is a section under the queue's mutex or the admission gate, or a *)
(* piece of owner work between two of them.  Each connection has its own   *)
(* event loop.  Upgrade transactions take no admission and are left out.   *)
(***************************************************************************)
EXTENDS Naturals, Sequences, SequencesExt, FiniteSets, OrderedRemoval

CONSTANTS
    Requests,       \* transactions the pages create
    Connections,    \* DatabaseHandle
    ConnOf,         \* the connection each transaction is created on
    Mode,           \* its TransactionMode: "readonly" or "readwrite"
    Stores,         \* its scope: a set of object stores
    MaxClosures     \* bound on closings, retirements and teardowns

ASSUME QueueAssumption ==
    /\ IsFiniteSet(Requests)
    /\ ConnOf \in [Requests -> Connections]
    /\ Mode \in [Requests -> {"readonly", "readwrite"}]
    /\ \A r \in Requests : Stores[r] # {}
    /\ MaxClosures \in Nat

Ops == {"begin", "commit", "abort"}
Command(op, r) == [op |-> op, request |-> r]
RetireCommand(c, forced) == [op |-> "retire", connection |-> c, forced |-> forced]
StopCommand == [op |-> "stop"]

Idle == [at |-> "idle"]
Stopped == [at |-> "stopped"]

VARIABLES
    queue,          \* QueueState::queues of this database
    status,         \* RequestState::status; "New" before it is queued
    phase,          \* how far the page's transaction object has come
    scan,           \* event loops with a wake to serve
    dying,          \* connections whose realm is being torn down
    mailbox,        \* Owner::sender and its receiver
    sealed,         \* the sender has been taken: submissions are refused
    owner,          \* what the database worker is doing
    sql,            \* transactions SQLite has open
    started,        \* Entry::transactions
    dbClosed,       \* Published::closed
    registered,     \* Published::connections
    closePending, retireRequested, inFlight, forcedClose, closed,
                    \* ConnectionStatus, as the set of connections with it set
    closures        \* closings, retirements and teardowns begun so far

requestVars == <<queue, status, phase, scan>>
statusVars == <<closePending, retireRequested, inFlight, forcedClose, closed>>
ownerVars == <<owner, sql, started, dbClosed, registered>>
vars == <<requestVars, dying, mailbox, sealed, ownerVars, statusVars, closures>>

\* Every variable has its type.
TypeOK ==
    /\ queue \in Seq(Requests)
    /\ status \in [Requests -> {"New", "Pending", "Ready", "Started", "Canceled", "Finished"}]
    /\ phase \in [Requests -> {"none", "waiting", "starting", "begun", "active", "failed",
                               "committing", "ending", "ended", "rejected", "done"}]
    /\ {scan, dying, registered, closePending, retireRequested, inFlight,
        forcedClose, closed} \subseteq SUBSET Connections
    /\ {sql, started} \subseteq SUBSET Requests
    /\ {sealed, dbClosed} \subseteq BOOLEAN
    /\ closures \in 0 .. MaxClosures

Init ==
    /\ queue = <<>>
    /\ status = [r \in Requests |-> "New"]
    /\ phase = [r \in Requests |-> "none"]
    /\ scan = {} /\ dying = {}
    /\ mailbox = <<>> /\ sealed = FALSE
    /\ owner = Idle /\ sql = {} /\ started = {}
    /\ dbClosed = FALSE
    /\ registered = Connections
    /\ closePending = {} /\ retireRequested = {} /\ inFlight = {}
    /\ forcedClose = {} /\ closed = {}
    /\ closures = 0

------------------------------------------------------------------------------
(* The admission queue.                                                    *)

\* conflicts_with, for the two modes that are admitted: one writer at a time,
\* and no writer together with a reader of one of its stores.
ConflictsWith(r, q) ==
    \/ Mode[r] = "readwrite" /\ Mode[q] = "readwrite"
    \/ "readwrite" \in {Mode[r], Mode[q]} /\ Stores[r] \cap Stores[q] # {}

Unblocked(q, i) == \A j \in 1 .. i - 1 : ~ConflictsWith(q[i], q[j])

\* The requests wake_newly_ready makes ready in q.
NewlyReady(q, st) ==
    {q[i] : i \in {j \in DOMAIN q : st[q[j]] = "Pending" /\ Unblocked(q, j)}}

Owners(S) == {ConnOf[r] : r \in S}

\* enqueue: ready at once if nothing before it conflicts.
Enqueue(r) ==
    /\ queue' = Append(queue, r)
    /\ status' = [status EXCEPT ![r] =
           IF Unblocked(queue', Len(queue')) THEN "Ready" ELSE "Pending"]

\* Fault: the requests behind the ones that left are not looked at again.
WithdrawWithoutWake(S, outcome) ==
    /\ queue' = Without(queue, S)
    /\ status' = [r \in Requests |-> IF r \in S THEN outcome ELSE status[r]]
    /\ scan' = scan \cup (IF outcome = "Canceled" THEN Owners(S) ELSE {})

\* Entries leave the queue with a final status; whoever they blocked becomes
\* ready, and every loop concerned is woken.
Withdraw(S, outcome) ==
    LET q == Without(queue, S)
        ready == NewlyReady(q, status)
    IN  /\ queue' = q
        /\ status' = [r \in Requests |-> IF r \in S THEN outcome
                                         ELSE IF r \in ready THEN "Ready" ELSE status[r]]
        /\ scan' = scan \cup Owners(ready)
                        \cup (IF outcome = "Canceled" THEN Owners(S) ELSE {})

\* Fault: dropping the lease withdraws a transaction that has started.
ReleaseLeaseAlways(r) ==
    IF r \in ToSet(queue)
    THEN Withdraw({r}, "Finished")
    ELSE UNCHANGED <<queue, status, scan>>

\* release(LeaseDropped)
ReleaseLease(r) ==
    IF r \in ToSet(queue) /\ status[r] # "Started"
    THEN Withdraw({r}, "Finished")
    ELSE UNCHANGED <<queue, status, scan>>

\* release(BackendFinished)
FinishAdmission(r) ==
    IF r \in ToSet(queue)
    THEN Withdraw({r}, "Finished")
    ELSE UNCHANGED <<queue, status, scan>>

\* cancel_connection
CancelConnection(c) ==
    Withdraw({r \in ToSet(queue) : ConnOf[r] = c}, "Canceled")

------------------------------------------------------------------------------
(* Event loops.                                                            *)

Alive(c) == c \notin dying

\* submit_owned refuses a closed database, and any sealed mailbox.
Accepts == ~sealed /\ ~dbClosed

\* Fault: a closing connection goes on accepting transactions.
QueueTransactionStartClosing(r) ==
    /\ phase[r] = "none" /\ Alive(ConnOf[r])
    /\ ConnOf[r] \notin closed /\ ~dbClosed
    /\ Enqueue(r)
    /\ phase' = [phase EXCEPT ![r] = "waiting"]
    /\ scan' = scan \cup {ConnOf[r]}
    /\ UNCHANGED <<dying, mailbox, sealed, ownerVars, statusVars>>

\* DatabaseConnection::queue_transaction_start, under the admission gate; the
\* page attaches its object and looks at the readiness afterwards.  (The call
\* that goes to the database itself is for an object without a connection, and
\* every object the factory delivers has one: materialize in factory.rs.)
QueueTransactionStart(r) ==
    /\ phase[r] = "none" /\ Alive(ConnOf[r])
    /\ ConnOf[r] \notin closePending \cup closed /\ ~dbClosed
    /\ Enqueue(r)
    /\ phase' = [phase EXCEPT ![r] = "waiting"]
    /\ scan' = scan \cup {ConnOf[r]}
    /\ UNCHANGED <<dying, mailbox, sealed, ownerVars, statusVars>>

\* The mailbox and the flags of c after a retirement has been submitted; it
\* is refused while another is in flight.
SubmitRetire(c, forced) ==
    IF c \in closed \cup inFlight \/ sealed
    THEN UNCHANGED <<mailbox, inFlight>>
    ELSE /\ mailbox' = Append(mailbox, RetireCommand(c, forced))
         /\ inFlight' = inFlight \cup {c}

\* DatabaseConnection::retire
RetireConnection(c) ==
    /\ retireRequested' = retireRequested \cup {c}
    /\ closePending' = closePending \cup {c}
    /\ SubmitRetire(c, TRUE)
    /\ UNCHANGED <<forcedClose, closed>>

\* One wake: enqueue_ready_transaction_starts.  Canceled transactions are
\* finished, a start task is queued for the ready ones.
Scan(c) ==
    LET mine == {r \in Requests : ConnOf[r] = c /\ phase[r] \notin {"none", "done"}}
    IN  /\ c \in scan /\ Alive(c)
        /\ scan' = scan \ {c}
        /\ phase' = [r \in Requests |->
               IF r \in mine /\ status[r] = "Canceled" THEN "done"
               ELSE IF r \in mine /\ status[r] = "Ready" /\ phase[r] = "waiting" THEN "starting"
               ELSE phase[r]]
        /\ UNCHANGED <<queue, status, dying, mailbox, sealed, ownerVars, statusVars>>

\* finish_transaction_abort with an armed rollback guard: over at once when
\* the database is retired; else ABORT is submitted, and where the mailbox
\* refuses it the connection is retired instead.
AbortArmed(r) ==
    LET c == ConnOf[r]
    IN  \/ /\ dbClosed
           /\ phase' = [phase EXCEPT ![r] = "done"]
           /\ ReleaseLease(r)
           /\ UNCHANGED <<mailbox, statusVars>>
        \/ /\ Accepts
           /\ phase' = [phase EXCEPT ![r] = "ending"]
           /\ mailbox' = Append(mailbox, Command("abort", r))
           /\ UNCHANGED <<queue, status, scan, statusVars>>
        \/ /\ sealed /\ ~dbClosed
           /\ phase' = [phase EXCEPT ![r] = IF c \in forcedClose THEN "done" ELSE "rejected"]
           /\ RetireConnection(c)
           /\ UNCHANGED <<queue, status, scan>>

\* flush_transaction_start_task: arm the guard and submit BEGIN.
FlushStart(r) ==
    /\ phase[r] = "starting" /\ Alive(ConnOf[r])
    /\ \/ /\ status[r] = "Ready" /\ Accepts
          /\ phase' = [phase EXCEPT ![r] = "begun"]
          /\ mailbox' = Append(mailbox, Command("begin", r))
          /\ UNCHANGED <<queue, status, scan, statusVars>>
       \/ /\ status[r] = "Ready" /\ ~Accepts
          /\ AbortArmed(r)
       \/ /\ status[r] = "Canceled"
          /\ phase' = [phase EXCEPT ![r] = "done"]
          /\ UNCHANGED <<queue, status, scan, mailbox, statusVars>>
    /\ UNCHANGED <<dying, sealed, ownerVars>>

\* The script aborts a transaction that has not been submitted: only its
\* lease is dropped.
AbortUnstarted(r) ==
    /\ phase[r] \in {"waiting", "starting"} /\ Alive(ConnOf[r])
    /\ ReleaseLease(r)
    /\ phase' = [phase EXCEPT ![r] = "done"]
    /\ UNCHANGED <<dying, mailbox, sealed, ownerVars, statusVars>>

\* flush_transaction_commit_task: the COMMIT of a running transaction goes
\* through the bucket's quota and the reading of its blobs.
FlushCommit(r) ==
    /\ phase[r] = "active" /\ Alive(ConnOf[r])
    /\ phase' = [phase EXCEPT ![r] = "committing"]
    /\ UNCHANGED <<queue, status, scan, dying, mailbox, sealed, ownerVars, statusVars>>

\* submit_indexed_db_sql_quota_task: a quota worker submits the COMMIT; where
\* that is refused, the loop aborts the transaction.  A COMMIT that comes later
\* than the end of its transaction object lies behind an ABORT or a rollback
\* and finds nothing; it is left out.
Commit(r) ==
    /\ phase[r] = "committing"
    /\ \/ /\ Accepts
          /\ mailbox' = Append(mailbox, Command("commit", r))
          /\ phase' = [phase EXCEPT ![r] = "ending"]
          /\ UNCHANGED <<queue, status, scan, statusVars>>
       \/ ~Accepts /\ Alive(ConnOf[r]) /\ AbortArmed(r)
    /\ UNCHANGED <<dying, sealed, ownerVars>>

\* abort() of a transaction whose BEGIN was submitted, or
\* fail_regular_transaction_start after a BEGIN that failed.
Abort(r) ==
    /\ phase[r] \in {"begun", "active", "failed"} /\ Alive(ConnOf[r])
    /\ phase[r] = "failed" => status[r] # "Canceled"
    /\ AbortArmed(r)
    /\ UNCHANGED <<dying, sealed, ownerVars>>

\* The receipt of the end, or of a BEGIN that failed after a cancellation:
\* the transaction is finished and its lease dropped.
Settle(r) ==
    /\ Alive(ConnOf[r])
    /\ phase[r] = "ended" \/ (phase[r] = "failed" /\ status[r] = "Canceled")
    /\ phase' = [phase EXCEPT ![r] = "done"]
    /\ ReleaseLease(r)
    /\ UNCHANGED <<dying, mailbox, sealed, ownerVars, statusVars>>

\* One more disturbance of the ordinary course.
Disturb == closures < MaxClosures /\ closures' = closures + 1

\* DatabaseConnection::close
Close(c) ==
    /\ Alive(c) /\ c \notin closePending
    /\ Disturb
    /\ closePending' = closePending \cup {c}
    /\ SubmitRetire(c, FALSE)
    /\ UNCHANGED <<requestVars, dying, sealed, ownerVars, retireRequested, forcedClose, closed>>

\* DatabaseConnection::retire from a page that goes on running.
Retire(c) ==
    /\ Alive(c) /\ c \notin retireRequested
    /\ Disturb
    /\ RetireConnection(c)
    /\ UNCHANGED <<requestVars, dying, sealed, ownerVars>>

\* retire_connections, when the realm goes away: transaction by transaction
\* the rollback guard and then the lease are dropped, and at last the
\* connection is retired.
TearDown(c) ==
    /\ Alive(c)
    /\ Disturb
    /\ dying' = dying \cup {c}
    /\ UNCHANGED <<requestVars, mailbox, sealed, ownerVars, statusVars>>

TearDownTransaction(r) ==
    /\ ConnOf[r] \in dying
    /\ phase[r] \notin {"none", "done"}
    /\ mailbox' = IF phase[r] \notin {"waiting", "starting"} /\ Accepts
                  THEN Append(mailbox, Command("abort", r)) ELSE mailbox
    /\ ReleaseLease(r)
    /\ phase' = [phase EXCEPT ![r] = "done"]
    /\ UNCHANGED <<dying, sealed, ownerVars, statusVars>>

TearDownConnection(c) ==
    /\ c \in dying \ retireRequested
    /\ \A r \in Requests : ConnOf[r] = c => phase[r] \in {"none", "done"}
    /\ RetireConnection(c)
    /\ UNCHANGED <<requestVars, dying, sealed, ownerVars>>

\* Command::Close from a page, or Owner::stop, which also seals the mailbox.
CloseDatabase(seal) ==
    /\ ~sealed
    /\ Disturb
    /\ StopCommand \notin ToSet(mailbox) /\ owner.at # "stopped"
    /\ mailbox' = Append(mailbox, StopCommand)
    /\ sealed' = seal
    /\ UNCHANGED <<requestVars, dying, ownerVars, statusVars>>

------------------------------------------------------------------------------
(* The database owner: one command at a time.                              *)

Receives(op) == owner = Idle /\ mailbox # <<>> /\ Head(mailbox).op = op

\* A reply reaches the transaction object only in the phase that waits for it.
Reply(r, waiting, answer) ==
    phase' = IF phase[r] = waiting THEN [phase EXCEPT ![r] = answer] ELSE phase

\* BEGIN: the database may fail to open, the admission may be gone, and
\* otherwise claim_start takes it.
ClaimStart ==
    /\ Receives("begin")
    /\ mailbox' = Tail(mailbox)
    /\ LET r == Head(mailbox).request
       IN  \/ /\ r \in ToSet(queue) /\ status[r] = "Ready"
              /\ status' = [status EXCEPT ![r] = "Started"]
              /\ owner' = [at |-> "begin", request |-> r]
              /\ UNCHANGED phase
           \/ /\ Reply(r, "begun", "failed")
              /\ UNCHANGED <<status, owner>>
    /\ UNCHANGED <<queue, scan, dying, sealed, sql, started, dbClosed, registered, statusVars>>

\* Database::begin, which may fail and then gives the admission back.
Begin ==
    /\ owner.at = "begin"
    /\ owner' = Idle
    /\ LET r == owner.request
       IN  \/ /\ sql' = sql \cup {r} /\ started' = started \cup {r}
              /\ Reply(r, "begun", "active")
              /\ UNCHANGED <<queue, status, scan>>
           \/ /\ FinishAdmission(r)
              /\ Reply(r, "begun", "failed")
              /\ UNCHANGED <<sql, started>>
    /\ UNCHANGED <<dying, mailbox, sealed, dbClosed, registered, statusVars>>

\* COMMIT or ABORT: the transaction is over in SQLite, or, when the rollback
\* cannot be confirmed, the owner closes the database.
End ==
    /\ \E op \in {"commit", "abort"} : Receives(op)
    /\ mailbox' = Tail(mailbox)
    /\ LET r == Head(mailbox).request
       IN  IF r \in started
           THEN \/ /\ sql' = sql \ {r}
                   /\ owner' = [at |-> "finish", request |-> r]
                   /\ UNCHANGED phase
                \/ /\ owner' = [at |-> "close"]
                   /\ Reply(r, "ending", "ended")
                   /\ UNCHANGED sql
           ELSE /\ Reply(r, "ending", "ended")
                /\ UNCHANGED <<sql, owner>>
    /\ UNCHANGED <<queue, status, scan, dying, sealed, started, dbClosed, registered, statusVars>>

\* The committed state is published, then the admission is released.
Finish ==
    /\ owner.at = "finish"
    /\ owner' = Idle
    /\ started' = started \ {owner.request}
    /\ FinishAdmission(owner.request)
    /\ Reply(owner.request, "ending", "ended")
    /\ UNCHANGED <<dying, mailbox, sealed, sql, dbClosed, registered, statusVars>>

StartedOn(c) == {r \in started : ConnOf[r] = c}
QueuedOn(c) == {r \in ToSet(queue) : ConnOf[r] = c}

\* Fault: a forced retirement leaves the rollback to the later cancellation.
RetireRollbackLate ==
    /\ Receives("retire")
    /\ LET c == Head(mailbox).connection
           forced == Head(mailbox).forced \/ c \in retireRequested
           idle == StartedOn(c) = {} /\ QueuedOn(c) = {}
       IN  owner' = [at |-> IF forced \/ idle THEN "remove" ELSE "refuse",
                     connection |-> c, forced |-> forced]
    /\ mailbox' = Tail(mailbox)
    /\ UNCHANGED <<requestVars, dying, sealed, sql, started, dbClosed, registered, statusVars>>

\* retire_connection: force rolls back the connection's own transactions
\* (closing the database if it cannot); a polite close of a busy connection
\* is refused.
RetireRollback ==
    /\ Receives("retire")
    /\ LET c == Head(mailbox).connection
           forced == Head(mailbox).forced \/ c \in retireRequested
           busy == StartedOn(c) # {} \/ QueuedOn(c) # {}
       IN  \/ /\ forced \/ ~busy
              /\ sql' = sql \ StartedOn(c)
              /\ owner' = [at |-> "remove", connection |-> c, forced |-> forced]
           \/ /\ forced /\ StartedOn(c) # {}
              /\ owner' = [at |-> "close"]
              /\ UNCHANGED sql
           \/ /\ ~forced /\ busy
              /\ owner' = [at |-> "refuse", connection |-> c, forced |-> FALSE]
              /\ UNCHANGED sql
    /\ mailbox' = Tail(mailbox)
    /\ UNCHANGED <<requestVars, dying, sealed, started, dbClosed, registered, statusVars>>

\* The completion of a refused close: repeated by force if a retirement was
\* asked for since the owner looked.
RetireRefused ==
    /\ owner.at = "refuse"
    /\ LET c == owner.connection
       IN  IF c \in retireRequested /\ ~sealed
           THEN mailbox' = Append(mailbox, RetireCommand(c, TRUE)) /\ UNCHANGED inFlight
           ELSE inFlight' = inFlight \ {c} /\ UNCHANGED mailbox
    /\ owner' = Idle
    /\ UNCHANGED <<requestVars, dying, sealed, sql, started, dbClosed, registered,
                   closePending, retireRequested, forcedClose, closed>>

\* Under the gate the record goes; a forced one is marked before anyone is woken.
RetireRemove ==
    /\ owner.at = "remove"
    /\ registered' = registered \ {owner.connection}
    /\ forcedClose' = IF owner.forced THEN forcedClose \cup {owner.connection} ELSE forcedClose
    /\ owner' = [owner EXCEPT !.at = IF owner.forced THEN "cancel" ELSE "closed"]
    /\ UNCHANGED <<requestVars, dying, mailbox, sealed, sql, started, dbClosed,
                   closePending, retireRequested, inFlight, closed>>

\* cancel_connection; the admissions of its transactions went with it.
RetireCancel ==
    /\ owner.at = "cancel"
    /\ CancelConnection(owner.connection)
    /\ started' = started \ StartedOn(owner.connection)
    /\ owner' = [owner EXCEPT !.at = "closed"]
    /\ UNCHANGED <<phase, dying, mailbox, sealed, sql, dbClosed, registered, statusVars>>

\* ConnectionRecord::retire
RetireClosed ==
    /\ owner.at = "closed"
    /\ closed' = closed \cup {owner.connection}
    /\ scan' = IF owner.forced THEN scan \cup {owner.connection} ELSE scan
    /\ owner' = Idle
    /\ UNCHANGED <<queue, status, phase, dying, mailbox, sealed, sql, started, dbClosed,
                   registered, closePending, retireRequested, inFlight, forcedClose>>

Stop ==
    /\ Receives("stop")
    /\ mailbox' = Tail(mailbox)
    /\ owner' = [at |-> "close"]
    /\ UNCHANGED <<requestVars, dying, sealed, sql, started, dbClosed, registered, statusVars>>

\* Entry::close: SQLite first, which rolls everything back.
CloseSql ==
    /\ owner.at = "close"
    /\ sql' = {}
    /\ owner' = [at |-> "publish"]
    /\ UNCHANGED <<requestVars, dying, mailbox, sealed, started, dbClosed, registered, statusVars>>

\* Under the gate no more admissions are accepted.
ClosePublish ==
    /\ owner.at = "publish"
    /\ dbClosed' = TRUE
    /\ registered' = {} /\ started' = {}
    /\ forcedClose' = forcedClose \cup registered
    /\ owner' = [at |-> "cancelAll", connections |-> registered]
    /\ UNCHANGED <<requestVars, dying, mailbox, sealed, sql,
                   closePending, retireRequested, inFlight, closed>>

\* cancel_database removes the queue under its lock and marks the requests
\* after it.
CloseCancel ==
    /\ owner.at = "cancelAll"
    /\ queue' = <<>>
    /\ owner' = [at |-> "mark", connections |-> owner.connections, canceled |-> ToSet(queue)]
    /\ UNCHANGED <<status, phase, scan, dying, mailbox, sealed, sql, started, dbClosed,
                   registered, statusVars>>

CloseMark ==
    /\ owner.at = "mark"
    /\ status' = [r \in Requests |-> IF r \in owner.canceled THEN "Canceled" ELSE status[r]]
    /\ scan' = scan \cup Owners(owner.canceled)
    /\ owner' = [at |-> "retireAll", connections |-> owner.connections]
    /\ UNCHANGED <<queue, phase, dying, mailbox, sealed, sql, started, dbClosed,
                   registered, statusVars>>

CloseRetire ==
    /\ owner.at = "retireAll"
    /\ closed' = closed \cup owner.connections
    /\ scan' = scan \cup owner.connections
    /\ owner' = [at |-> "drain"]
    /\ UNCHANGED <<queue, status, phase, dying, mailbox, sealed, sql, started, dbClosed,
                   registered, closePending, retireRequested, inFlight, forcedClose>>

\* finish_queue: the mailbox is sealed and every job left in it rejected.
FinishQueue ==
    LET left == {mailbox[i] : i \in {j \in DOMAIN mailbox : mailbox[j].op \in Ops}}
        Rejected(r, ops) == \E m \in left : m.request = r /\ m.op \in ops
    IN  /\ owner.at = "drain"
        /\ sealed' = TRUE /\ mailbox' = <<>>
        /\ phase' = [r \in Requests |->
               IF phase[r] = "begun" /\ Rejected(r, {"begin"}) THEN "failed"
               ELSE IF phase[r] = "ending" /\ Rejected(r, {"commit", "abort"}) THEN "ended"
               ELSE phase[r]]
        /\ inFlight' = inFlight \cap closed
        /\ owner' = Stopped
        /\ UNCHANGED <<queue, status, scan, dying, sql, started, dbClosed, registered,
                       closePending, retireRequested, forcedClose, closed>>

Owner ==
    \/ ClaimStart \/ Begin \/ End \/ Finish
    \/ RetireRollback \/ RetireRefused \/ RetireRemove \/ RetireCancel \/ RetireClosed
    \/ Stop \/ CloseSql \/ ClosePublish \/ CloseCancel \/ CloseMark \/ CloseRetire
    \/ FinishQueue

EventLoop ==
    \/ \E r \in Requests :
           \/ QueueTransactionStart(r) \/ FlushStart(r) \/ AbortUnstarted(r)
           \/ FlushCommit(r) \/ Commit(r) \/ Abort(r) \/ Settle(r)
           \/ TearDownTransaction(r)
    \/ \E c \in Connections : Scan(c) \/ TearDownConnection(c)

Closure ==
    \/ \E c \in Connections : Close(c) \/ Retire(c) \/ TearDown(c)
    \/ \E seal \in BOOLEAN : CloseDatabase(seal)

Next ==
    \/ (EventLoop \/ Owner) /\ UNCHANGED closures
    \/ Closure

Spec == Init /\ [][Next]_vars

\* The blocking worker and the event loops run; a transaction that has
\* nothing left to do is committed by its page, or aborted.
FairSpec ==
    /\ Spec
    /\ WF_vars(Owner /\ UNCHANGED closures)
    /\ \A c \in Connections :
           WF_vars((Scan(c) \/ TearDownConnection(c)) /\ UNCHANGED closures)
    /\ \A r \in Requests :
           WF_vars(/\ \/ Settle(r)
                      \/ FlushStart(r) \/ FlushCommit(r) \/ Commit(r) \/ Abort(r)
                      \/ TearDownTransaction(r)
                   /\ UNCHANGED closures)

------------------------------------------------------------------------------
(* Properties.                                                             *)

Abstract == INSTANCE TransactionOrder
    WITH order <- queue, running <- sql, Conflicts <- ConflictsWith

\* The queue and the owner together implement TransactionOrder: SQLite never
\* runs two conflicting transactions at once nor starts one before an older
\* conflicting one has left the queue, and no admission is given up while
\* its transaction is open.  Every path that ends a transaction (commit,
\* abort, forced retirement, closing the database) has to end it in SQLite
\* before it touches the queue.
ImplementsOrder == Abstract!OrderSpec

\* finish_canceled_transaction reports a rolled back transaction and disarms
\* the rollback guard as soon as it reads Canceled: by then SQLite has ended
\* the transaction and the connection's forced-close signal is set.
CanceledIsRolledBack ==
    \A r \in Requests : status[r] = "Canceled" =>
        r \notin sql /\ ConnOf[r] \in forcedClose

\* A connection whose close has completed holds no admission, so nothing
\* waits behind a transaction that nobody will start: closing refuses new
\* transactions before it looks for accepted ones.  (With the types.)
ClosedHoldsNoAdmission ==
    /\ TypeOK
    /\ \A c \in closed : QueuedOn(c) = {} /\ StartedOn(c) = {}

\* Every admission is released: nobody waits for ever behind a lease that
\* was dropped, a connection that was retired, a BEGIN that failed or a
\* database that closed, and every loop is woken for its turn.
EveryAdmissionReleased ==
    \A r \in Requests : r \in ToSet(queue) ~> r \notin ToSet(queue)

\* finish_transaction_abort, about an ABORT the mailbox refused: "Retire this
\* logical connection and let its rollback receipt finish abort".
RefusedAbortFinishes ==
    \A r \in Requests : phase[r] = "rejected" ~> phase[r] = "done"
=============================================================================
