------------------------------ MODULE Writeback ------------------------------
(***************************************************************************)
(* moli-sqlite: write-behind persistence of one file.  Callers hand over   *)
(* deltas without waiting; one task commits what is pending after a delay, *)
(* early when many operations have gathered, or when a flush or the close  *)
(* asks for it.                                                            *)
(*                                                                         *)
(* Every section under the pending lock is a step, every piece of blocking *)
(* work another.  A delta is a model value, a batch the set of deltas      *)
(* merged into it.  Blocking work may fail, or panic with its executor.    *)
(***************************************************************************)
EXTENDS Naturals, Sequences, SequencesExt, FiniteSets

CONSTANTS
    Deltas,         \* mutations callers may hand over
    Jobs,           \* calls of query and flush
    Kind,           \* which of the two each of them is
    EarlyLimit      \* WritebackPolicy::early_commit_operations

CloseMessage == "close"

\* A job is neither the close message nor the loop's own commit.
ASSUME WritebackAssumption ==
    /\ Kind \in [Jobs -> {"query", "flush"}]
    /\ "loop" \notin Jobs /\ CloseMessage \notin Jobs
    /\ EarlyLimit \in Nat \ {0}

VARIABLES
    batch, operations, dirty, failure, sealed,   \* Pending (dirty: first_dirty)
    permit,         \* Shared::changed
    channel,        \* the message FIFO
    connection,     \* LazyConnection
    task,           \* what the writeback task is doing
    reply,          \* the reply of each job
    covers,         \* history: the deltas accepted before each flush
    fate,           \* history: what became of each delta
    closing         \* the owner's close: "no", "called", or its result

pendingVars == <<batch, operations, dirty, failure, sealed>>
callVars == <<reply, covers, closing>>
vars == <<pendingVars, permit, channel, connection, task, fate, callVars>>

\* Every variable has its type.
TypeOK ==
    /\ batch \subseteq Deltas /\ IsFiniteSet(batch) /\ operations = Cardinality(batch)
    /\ {dirty, failure, sealed, permit} \subseteq BOOLEAN
    /\ channel \in Seq(Jobs \cup {CloseMessage})
    /\ connection \in {"unopened", "open", "failed"}
    /\ reply \in [Jobs -> {"none", "waiting", "ok", "err"}]
    /\ covers \in [Jobs -> SUBSET Deltas]
    /\ fate \in [Deltas -> {"none", "accepted", "durable", "lost", "forgotten"}]
    /\ closing \in {"no", "called", "ok", "err"}

Start == [at |-> "start"]

Init ==
    /\ batch = {} /\ operations = 0 /\ dirty = FALSE /\ failure = FALSE /\ sealed = FALSE
    /\ permit = FALSE /\ channel = <<>> /\ connection = "unopened"
    /\ task = Start
    /\ reply = [j \in Jobs |-> "none"] /\ covers = [j \in Jobs |-> {}]
    /\ fate = [d \in Deltas |-> "none"] /\ closing = "no"

At(place) == task.at = place

------------------------------------------------------------------------------
(* Callers.                                                                *)

\* accept: publish the delta under the admission gate and wake the task.
Accept(d) ==
    /\ fate[d] = "none" /\ ~sealed
    /\ batch' = batch \cup {d} /\ operations' = operations + 1 /\ dirty' = TRUE
    /\ permit' = TRUE
    /\ fate' = [fate EXCEPT ![d] = "accepted"]
    /\ UNCHANGED <<failure, sealed, channel, connection, task, callVars>>

Accepted == {d \in Deltas : fate[d] # "none"}

\* query and flush: refused once sealed, otherwise queued under the lock.
Ask(j) ==
    /\ reply[j] = "none"
    /\ IF sealed \/ At("done")
       THEN /\ reply' = [reply EXCEPT ![j] = "err"]
            /\ UNCHANGED <<channel, covers>>
       ELSE /\ reply' = [reply EXCEPT ![j] = "waiting"]
            /\ channel' = Append(channel, j)
            /\ covers' = [covers EXCEPT ![j] = Accepted]
    /\ UNCHANGED <<pendingVars, permit, connection, task, fate, closing>>

\* Fault: the close is sent before admission is sealed.
SealLater ==
    \/ /\ closing = "no"
       /\ channel' = Append(channel, CloseMessage) /\ closing' = "called"
       /\ UNCHANGED <<pendingVars, permit, connection, task, fate, reply, covers>>
    \/ /\ closing \in {"called", "ok", "err"} /\ ~sealed
       /\ sealed' = TRUE
       /\ UNCHANGED <<batch, operations, dirty, failure, permit, channel, connection, task, fate,
                      callVars>>

\* WritebackOwner::close, or its drop: seal admission, then ask the task to
\* finish.
Close ==
    /\ closing = "no"
    /\ sealed' = TRUE
    /\ channel' = IF At("done") THEN channel ELSE Append(channel, CloseMessage)
    /\ closing' = "called"
    /\ UNCHANGED <<batch, operations, dirty, failure, permit, connection, task, fate, reply, covers>>

------------------------------------------------------------------------------
(* The task.                                                               *)

\* The top of the loop reads the pending state and chooses a deadline.
ComputeDeadline ==
    /\ At("start")
    /\ task' = [at |-> "select", deadline |-> operations >= EarlyLimit \/ dirty]
    /\ UNCHANGED <<pendingVars, permit, channel, connection, fate, callVars>>

Notified ==
    /\ At("select") /\ permit
    /\ permit' = FALSE
    /\ task' = Start
    /\ UNCHANGED <<pendingVars, channel, connection, fate, callVars>>

\* The deadline passes: now if early, after the delay otherwise.
Timeout ==
    /\ At("select") /\ task.deadline
    /\ task' = [at |-> "commit", for |-> "loop"]
    /\ UNCHANGED <<pendingVars, permit, channel, connection, fate, callVars>>

Receive ==
    /\ At("select") /\ channel # <<>>
    /\ channel' = Tail(channel)
    /\ task' = LET m == Head(channel)
               IN  IF m # CloseMessage /\ Kind[m] = "query" THEN [at |-> "query", job |-> m]
                   ELSE [at |-> "commit", for |-> m]
    /\ UNCHANGED <<pendingVars, permit, connection, fate, callVars>>

\* LazyConnection::get: opened by the first use, and failed for good if that
\* fails.
Open(after) ==
    \/ connection = "unopened" /\ after \in {"open", "failed"}
    \/ connection # "unopened" /\ after = connection

Query ==
    /\ At("query")
    /\ \E after \in {"open", "failed"}, ok \in BOOLEAN :
           /\ Open(after)
           /\ connection' = after
           /\ reply' = [reply EXCEPT ![task.job] =
                  IF ok /\ after = "open" THEN "ok" ELSE "err"]
           /\ failure' = (failure \/ after = "failed")
    /\ task' = Start
    /\ UNCHANGED <<batch, operations, dirty, sealed, permit, channel, fate, covers, closing>>

\* commit, first section: the batch is moved out and the marks reset together.
TakeBatch ==
    /\ At("commit")
    /\ batch' = {}
    /\ IF batch = {}
       THEN /\ task' = [at |-> "written", for |-> task.for]
            /\ UNCHANGED <<operations, dirty>>
       ELSE /\ task' = [at |-> "write", for |-> task.for, deltas |-> batch]
            /\ operations' = 0 /\ dirty' = FALSE
    /\ UNCHANGED <<failure, sealed, permit, channel, connection, fate, callVars>>

\* The blocking write; a failed batch is not tried again.
Write ==
    /\ At("write")
    /\ \E after \in {"open", "failed"}, ok \in BOOLEAN :
           LET done == ok /\ after = "open"
           IN  /\ Open(after)
               /\ connection' = after
               /\ task' = [at |-> "record", for |-> task.for, done |-> done]
               /\ fate' = [d \in Deltas |->
                      IF d \in task.deltas THEN IF done THEN "durable" ELSE "lost"
                      ELSE IF done /\ fate[d] = "lost" THEN "forgotten" ELSE fate[d]]
    /\ UNCHANGED <<pendingVars, permit, channel, callVars>>

\* Fault: the outcome of a failed write is only logged.
RecordSuccessOnly ==
    /\ At("record")
    /\ failure' = FALSE
    /\ task' = [at |-> "written", for |-> task.for]
    /\ UNCHANGED <<batch, operations, dirty, sealed, permit, channel, connection, fate, callVars>>

\* Fault: the acknowledgement of a batch clears the marks of newer deltas.
RecordClearsMarks ==
    /\ At("record")
    /\ failure' = ~task.done
    /\ operations' = 0 /\ dirty' = FALSE
    /\ task' = [at |-> "written", for |-> task.for]
    /\ UNCHANGED <<batch, sealed, permit, channel, connection, fate, callVars>>

\* The outcome replaces the recorded failure.
Record ==
    /\ At("record")
    /\ failure' = ~task.done
    /\ task' = [at |-> "written", for |-> task.for]
    /\ UNCHANGED <<batch, operations, dirty, sealed, permit, channel, connection, fate, callVars>>

\* After the commit: back to the loop, the receipt of a flush, or the end.
Written ==
    /\ At("written")
    /\ CASE task.for = "loop" ->
              task' = Start /\ UNCHANGED reply
         [] task.for \in Jobs ->
              /\ reply' = [reply EXCEPT ![task.for] = IF failure THEN "err" ELSE "ok"]
              /\ task' = Start
         [] task.for = CloseMessage ->
              /\ \E ok \in BOOLEAN :
                     /\ connection = "unopened" => ok
                     /\ connection = "failed" => ~ok
                     /\ task' = [at |-> "finish", ok |-> ok /\ ~failure]
              /\ UNCHANGED reply
    /\ UNCHANGED <<pendingVars, permit, channel, connection, fate, covers, closing>>

\* Blocking work panics or its executor is gone: the task ends there, and the
\* batch it had taken with it.
Panic ==
    /\ task.at \in {"query", "write"}
    /\ task' = [at |-> "finish", ok |-> FALSE]
    /\ reply' = IF At("query") THEN [reply EXCEPT ![task.job] = "err"]
                ELSE IF task.for \in Jobs THEN [reply EXCEPT ![task.for] = "err"] ELSE reply
    /\ UNCHANGED <<pendingVars, permit, channel, connection, fate, covers, closing>>

\* The epilogue: seal, record, hand over the receipt; the messages left in
\* the channel are dropped and their callers told.
Finish ==
    /\ At("finish")
    /\ sealed' = TRUE
    /\ failure' = (failure \/ ~task.ok)
    /\ task' = [at |-> "done", ok |-> task.ok]
    /\ channel' = <<>>
    /\ reply' = [j \in Jobs |-> IF j \in ToSet(channel) THEN "err" ELSE reply[j]]
    /\ UNCHANGED <<batch, operations, dirty, permit, connection, fate, covers, closing>>

\* close() receives the outcome.
Receipt ==
    /\ At("done") /\ closing = "called"
    /\ closing' = IF task.ok THEN "ok" ELSE "err"
    /\ UNCHANGED <<pendingVars, permit, channel, connection, task, fate, reply, covers>>

Task ==
    \/ ComputeDeadline \/ Notified \/ Timeout \/ Receive \/ Query \/ TakeBatch
    \/ Write \/ Record \/ Written \/ Finish

Next ==
    \/ \E d \in Deltas : Accept(d)
    \/ \E j \in Jobs : Ask(j)
    \/ Close \/ Task \/ Panic \/ Receipt

Spec == Init /\ [][Next]_vars

\* The executor runs the task, and timers fire.
FairSpec == Spec /\ WF_vars(Task) /\ WF_vars(Receipt)

------------------------------------------------------------------------------
(* Properties.                                                             *)

\* A flush that reports success left nothing behind: everything accepted
\* before it was called is on disk, except what an earlier batch lost before
\* a later one succeeded.  Deltas that arrive while a commit is under way
\* neither hide in the moved batch nor lose their dirty mark.
FlushCovers ==
    /\ TypeOK
    /\ \A j \in Jobs : Kind[j] = "flush" /\ reply[j] = "ok" =>
           \A d \in covers[j] : fate[d] \in {"durable", "forgotten"}

\* A close that reports success accounts for every delta ever accepted, and
\* nothing can be accepted after it.
CloseCovers ==
    closing = "ok" =>
        /\ sealed
        /\ \A d \in Accepted : fate[d] \in {"durable", "forgotten"}

\* Without any flush, what was accepted is written after the delay, unless
\* the task ends first; every caller is answered, and the close too.
EverythingSettles ==
    /\ \A d \in Deltas : fate[d] = "accepted" ~> fate[d] # "accepted" \/ task.at = "done"
    /\ \A j \in Jobs : reply[j] = "waiting" ~> reply[j] # "waiting"
    /\ closing = "called" ~> closing \in {"ok", "err"}
=============================================================================
