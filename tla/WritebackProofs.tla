--------------------------- MODULE WritebackProofs ---------------------------
(***************************************************************************)
(* What a successful flush and a successful close of the writeback         *)
(* guarantee, for any deltas, any calls and any early-commit limit; and,   *)
(* in the second part, what a version change counts and decides.  The two  *)
(* share no constant and no variable.                                      *)
(***************************************************************************)
EXTENDS Writeback, VersionChange, FiniteSetTheorems, TLAPS

-----------------------------------------------------------------------------
(* The task as a union of record types, one per place of its loop.         *)

Purposes == Jobs \cup {"loop", CloseMessage}

TaskType ==
    \/ task = Start
    \/ task \in [at : {"select"}, deadline : BOOLEAN]
    \/ task \in [at : {"query"}, job : {j \in Jobs : Kind[j] = "query"}]
    \/ task \in [at : {"commit", "written"}, for : Purposes]
    \/ task \in [at : {"write"}, for : Purposes, deltas : SUBSET Deltas]
    \/ task \in [at : {"record"}, for : Purposes, done : BOOLEAN]
    \/ task \in [at : {"finish", "done"}, ok : BOOLEAN]

(* Where an accepted delta can be: still pending, in the batch the task    *)
(* has taken, or gone with the task that panicked over it.                 *)

InFlight == IF At("write") THEN task.deltas ELSE {}
Ended == task.at \in {"finish", "done"}
Abandoned == Ended /\ ~task.ok

PendingAccepted ==
    /\ \A d \in batch : fate[d] = "accepted"
    /\ \A d \in InFlight : fate[d] = "accepted" /\ d \notin batch
AcceptedPending ==
    \A d \in Deltas : fate[d] = "accepted" => d \in batch \/ d \in InFlight \/ Abandoned

\* A lost delta shows: in the recorded failure, in the outcome about to be
\* recorded, or in the result of the task.
LossShows ==
    \A d \in Deltas : fate[d] = "lost" =>
        /\ failure \/ (At("record") /\ ~task.done)
        /\ At("record") => ~task.done
        /\ Ended => ~task.ok

\* What a queued or served call has to do with its history.
CallsKnown ==
    /\ \A n \in 1 .. Len(channel) : channel[n] \in Jobs => reply[channel[n]] # "none"
    /\ \A j \in Jobs : covers[j] \subseteq Accepted
    /\ task.at \in {"commit", "write", "record", "written"} /\ task.for \in Jobs =>
           reply[task.for] # "none"
    /\ At("query") => reply[task.job] # "none"

\* The batch a flush was served with took everything it covers.
FlushServed ==
    task.at \in {"write", "record", "written"} /\ task.for \in Jobs =>
        covers[task.for] \cap batch = {}

\* The close is asked for only once admission is sealed, so the batch taken
\* for it is the last one.
CloseServed ==
    /\ \A n \in 1 .. Len(channel) : channel[n] = CloseMessage => sealed
    /\ task.at \in {"commit", "write", "record", "written"} /\ task.for = CloseMessage => sealed
    /\ task.at \in {"write", "record", "written"} /\ task.for = CloseMessage => batch = {}
    /\ Ended /\ task.ok => sealed /\ batch = {}
    /\ closing = "ok" => At("done") /\ task.ok

FlushResult ==
    \A j \in Jobs : Kind[j] = "flush" /\ reply[j] = "ok" =>
        \A d \in covers[j] : fate[d] \in {"durable", "forgotten"}

WritebackInv ==
    /\ TypeOK /\ TaskType
    /\ PendingAccepted /\ AcceptedPending /\ LossShows
    /\ CallsKnown /\ FlushServed /\ CloseServed /\ FlushResult

\* A fresh writeback satisfies it.
LEMMA WritebackInit == Init => WritebackInv
<1> SUFFICES ASSUME Init PROVE WritebackInv
    OBVIOUS
<1>0. IsFiniteSet(batch) /\ operations = Cardinality(batch)
    BY FS_EmptySet DEF Init
<1>1. TypeOK
    <2>1. channel \in Seq(Jobs \cup {CloseMessage})
        BY DEF Init
    <2>2. batch \subseteq Deltas /\ {dirty, failure, sealed, permit} \subseteq BOOLEAN
        BY DEF Init
    <2> QED BY <1>0, <2>1, <2>2 DEF Init, TypeOK
<1>2. TaskType
    BY DEF Init, TaskType
<1>3. PendingAccepted /\ AcceptedPending /\ LossShows
    BY DEF Init, Start, PendingAccepted, AcceptedPending, LossShows, InFlight, At
<1>4. CallsKnown /\ FlushServed /\ CloseServed /\ FlushResult
    BY DEF Init, Start, CallsKnown, FlushServed, CloseServed, FlushResult, At, Ended, Accepted
<1> QED
    BY <1>1, <1>2, <1>3, <1>4 DEF WritebackInv

\* A delta is new when it is accepted: no call covers it yet, and it joins the
\* batch and the count together.
LEMMA AcceptKeeps ==
    ASSUME WritebackInv, NEW d \in Deltas, Accept(d)
    PROVE  WritebackInv'
<1> USE WritebackAssumption DEF WritebackInv, pendingVars, callVars, Accept, Start, At, CloseMessage, Purposes
<1>1. TypeOK'
    BY FS_EmptySet, FS_AddElement DEF TypeOK, TaskType, PendingAccepted
<1>2. TaskType'
    BY DEF TypeOK, TaskType
<1>3. (PendingAccepted /\ AcceptedPending)'
    BY DEF TypeOK, TaskType, PendingAccepted, AcceptedPending, InFlight, Ended, Abandoned
<1>4. LossShows'
    BY DEF TypeOK, TaskType, LossShows, Ended, PendingAccepted, InFlight
<1>5. CallsKnown'
    BY DEF TypeOK, TaskType, CallsKnown, Accepted
<1>6. (FlushServed /\ CloseServed)'
    BY DEF TypeOK, TaskType, FlushServed, CloseServed, CallsKnown, Ended, Accepted
<1>7. FlushResult'
    BY DEF TypeOK, TaskType, FlushResult, CallsKnown, FlushServed, PendingAccepted, AcceptedPending, LossShows, Accepted, InFlight, Abandoned, Ended
<1> QED
    BY <1>1, <1>2, <1>3, <1>4, <1>5, <1>6, <1>7

\* A call that is queued covers what has been accepted; its history is fixed
\* from then on, for a queued call is never asked again.
LEMMA AskKeeps ==
    ASSUME WritebackInv, NEW j \in Jobs, Ask(j)
    PROVE  WritebackInv'
<1> USE WritebackAssumption DEF WritebackInv, pendingVars, callVars, Ask, Start, At, CloseMessage, Purposes
<1>1. TypeOK'
    <2>1. IsFiniteSet(batch') /\ operations' = Cardinality(batch')
        BY DEF TypeOK
    <2>2. channel' \in Seq(Jobs \cup {CloseMessage})
        <3>1. channel \in Seq(Jobs \cup {CloseMessage})
            BY DEF TypeOK
        <3>2. channel' = channel \/ channel' = Append(channel, j)
            OBVIOUS
        <3> QED BY <3>1, <3>2
    <2>3. reply' \in [Jobs -> {"none", "waiting", "ok", "err"}] /\ covers' \in [Jobs -> SUBSET Deltas]
        BY DEF TypeOK, Accepted
    <2> QED BY <2>1, <2>2, <2>3 DEF TypeOK
<1>2. TaskType'
    BY DEF TypeOK, TaskType
<1>3. (PendingAccepted /\ AcceptedPending)'
    BY DEF TypeOK, TaskType, PendingAccepted, AcceptedPending, InFlight, Ended, Abandoned
<1>4. LossShows'
    BY DEF TypeOK, TaskType, LossShows, Ended, PendingAccepted, InFlight
<1>5. CallsKnown'
    BY DEF TypeOK, TaskType, CallsKnown, Accepted
<1>6. (FlushServed /\ CloseServed)'
    BY DEF TypeOK, TaskType, FlushServed, CloseServed, CallsKnown, Ended, Accepted
<1>7. FlushResult'
    BY DEF TypeOK, TaskType, FlushResult, CallsKnown, FlushServed, PendingAccepted, AcceptedPending, LossShows, Accepted, InFlight, Abandoned, Ended
<1> QED
    BY <1>1, <1>2, <1>3, <1>4, <1>5, <1>6, <1>7

\* The close seals admission before its message is in the channel.
LEMMA CloseKeeps ==
    ASSUME WritebackInv, Close
    PROVE  WritebackInv'
<1> USE WritebackAssumption DEF WritebackInv, pendingVars, callVars, Close, Start, At, CloseMessage, Purposes
<1>1. TypeOK'
    BY FS_EmptySet, FS_AddElement DEF TypeOK, TaskType, PendingAccepted
<1>2. TaskType'
    BY DEF TypeOK, TaskType
<1>3. (PendingAccepted /\ AcceptedPending)'
    BY DEF TypeOK, TaskType, PendingAccepted, AcceptedPending, InFlight, Ended, Abandoned
<1>4. LossShows'
    BY DEF TypeOK, TaskType, LossShows, Ended, PendingAccepted, InFlight
<1>5. CallsKnown'
    BY DEF TypeOK, TaskType, CallsKnown, Accepted
<1>6. (FlushServed /\ CloseServed)'
    BY DEF TypeOK, TaskType, FlushServed, CloseServed, CallsKnown, Ended, Accepted
<1>7. FlushResult'
    BY DEF TypeOK, TaskType, FlushResult, CallsKnown, FlushServed, PendingAccepted, AcceptedPending, LossShows, Accepted, InFlight, Abandoned, Ended
<1> QED
    BY <1>1, <1>2, <1>3, <1>4, <1>5, <1>6, <1>7

\* Choosing a deadline changes only the task.
LEMMA ComputeDeadlineKeeps ==
    ASSUME WritebackInv, ComputeDeadline
    PROVE  WritebackInv'
<1> USE WritebackAssumption DEF WritebackInv, pendingVars, callVars, ComputeDeadline, Start, At, CloseMessage, Purposes
<1>1. TypeOK'
    BY FS_EmptySet, FS_AddElement DEF TypeOK, TaskType, PendingAccepted
<1>2. TaskType'
    BY DEF TypeOK, TaskType
<1>3. (PendingAccepted /\ AcceptedPending)'
    BY DEF TypeOK, TaskType, PendingAccepted, AcceptedPending, InFlight, Ended, Abandoned
<1>4. LossShows'
    BY DEF TypeOK, TaskType, LossShows, Ended, PendingAccepted, InFlight
<1>5. CallsKnown'
    BY DEF TypeOK, TaskType, CallsKnown, Accepted
<1>6. (FlushServed /\ CloseServed)'
    BY DEF TypeOK, TaskType, FlushServed, CloseServed, CallsKnown, Ended, Accepted
<1>7. FlushResult'
    BY DEF TypeOK, TaskType, FlushResult, CallsKnown, FlushServed, PendingAccepted, AcceptedPending, LossShows, Accepted, InFlight, Abandoned, Ended
<1> QED
    BY <1>1, <1>2, <1>3, <1>4, <1>5, <1>6, <1>7

\* Nor does a notification change anything else.
LEMMA NotifiedKeeps ==
    ASSUME WritebackInv, Notified
    PROVE  WritebackInv'
<1> USE WritebackAssumption DEF WritebackInv, pendingVars, callVars, Notified, Start, At, CloseMessage, Purposes
<1>1. TypeOK'
    BY FS_EmptySet, FS_AddElement DEF TypeOK, TaskType, PendingAccepted
<1>2. TaskType'
    BY DEF TypeOK, TaskType
<1>3. (PendingAccepted /\ AcceptedPending)'
    BY DEF TypeOK, TaskType, PendingAccepted, AcceptedPending, InFlight, Ended, Abandoned
<1>4. LossShows'
    BY DEF TypeOK, TaskType, LossShows, Ended, PendingAccepted, InFlight
<1>5. CallsKnown'
    BY DEF TypeOK, TaskType, CallsKnown, Accepted
<1>6. (FlushServed /\ CloseServed)'
    BY DEF TypeOK, TaskType, FlushServed, CloseServed, CallsKnown, Ended, Accepted
<1>7. FlushResult'
    BY DEF TypeOK, TaskType, FlushResult, CallsKnown, FlushServed, PendingAccepted, AcceptedPending, LossShows, Accepted, InFlight, Abandoned, Ended
<1> QED
    BY <1>1, <1>2, <1>3, <1>4, <1>5, <1>6, <1>7

\* A commit of the loop serves no call.
LEMMA TimeoutKeeps ==
    ASSUME WritebackInv, Timeout
    PROVE  WritebackInv'
<1> USE WritebackAssumption DEF WritebackInv, pendingVars, callVars, Timeout, Start, At, CloseMessage, Purposes
<1>1. TypeOK'
    BY FS_EmptySet, FS_AddElement DEF TypeOK, TaskType, PendingAccepted
<1>2. TaskType'
    BY DEF TypeOK, TaskType
<1>3. (PendingAccepted /\ AcceptedPending)'
    BY DEF TypeOK, TaskType, PendingAccepted, AcceptedPending, InFlight, Ended, Abandoned
<1>4. LossShows'
    BY DEF TypeOK, TaskType, LossShows, Ended, PendingAccepted, InFlight
<1>5. CallsKnown'
    BY DEF TypeOK, TaskType, CallsKnown, Accepted
<1>6. (FlushServed /\ CloseServed)'
    BY DEF TypeOK, TaskType, FlushServed, CloseServed, CallsKnown, Ended, Accepted
<1>7. FlushResult'
    BY DEF TypeOK, TaskType, FlushResult, CallsKnown, FlushServed, PendingAccepted, AcceptedPending, LossShows, Accepted, InFlight, Abandoned, Ended
<1> QED
    BY <1>1, <1>2, <1>3, <1>4, <1>5, <1>6, <1>7

\* A received message becomes what the task serves; the rest of the channel
\* moves up.
LEMMA ReceiveKeeps ==
    ASSUME WritebackInv, Receive
    PROVE  WritebackInv'
<1> USE WritebackAssumption DEF WritebackInv, pendingVars, callVars, Receive, Start, At, CloseMessage, Purposes
<1>1. TypeOK'
    BY FS_EmptySet, FS_AddElement DEF TypeOK, TaskType, PendingAccepted
<1>2. TaskType'
    BY DEF TypeOK, TaskType
<1>3. (PendingAccepted /\ AcceptedPending)'
    BY DEF TypeOK, TaskType, PendingAccepted, AcceptedPending, InFlight, Ended, Abandoned
<1>4. LossShows'
    BY DEF TypeOK, TaskType, LossShows, Ended, PendingAccepted, InFlight
<1>5. CallsKnown'
    BY DEF TypeOK, TaskType, CallsKnown, Accepted
<1>6. (FlushServed /\ CloseServed)'
    BY DEF TypeOK, TaskType, FlushServed, CloseServed, CallsKnown, Ended, Accepted
<1>7. FlushResult'
    BY DEF TypeOK, TaskType, FlushResult, CallsKnown, FlushServed, PendingAccepted, AcceptedPending, LossShows, Accepted, InFlight, Abandoned, Ended
<1> QED
    BY <1>1, <1>2, <1>3, <1>4, <1>5, <1>6, <1>7

\* A query answers a job that is no flush; a connection that cannot be opened
\* only adds a failure.
LEMMA QueryKeeps ==
    ASSUME WritebackInv, Query
    PROVE  WritebackInv'
<1> USE WritebackAssumption DEF WritebackInv, pendingVars, callVars, Query, Start, At, CloseMessage, Purposes
<1>1. TypeOK'
    BY FS_EmptySet, FS_AddElement DEF TypeOK, TaskType, PendingAccepted
<1>2. TaskType'
    BY DEF TypeOK, TaskType
<1>3. (PendingAccepted /\ AcceptedPending)'
    BY DEF TypeOK, TaskType, PendingAccepted, AcceptedPending, InFlight, Ended, Abandoned
<1>4. LossShows'
    BY DEF TypeOK, TaskType, LossShows, Ended, PendingAccepted, InFlight
<1>5. CallsKnown'
    BY DEF TypeOK, TaskType, CallsKnown, Accepted
<1>6. (FlushServed /\ CloseServed)'
    BY DEF TypeOK, TaskType, FlushServed, CloseServed, CallsKnown, Ended, Accepted
<1>7. FlushResult'
    BY DEF TypeOK, TaskType, FlushResult, CallsKnown, FlushServed, PendingAccepted, AcceptedPending, LossShows, Accepted, InFlight, Abandoned, Ended
<1> QED
    BY <1>1, <1>2, <1>3, <1>4, <1>5, <1>6, <1>7

\* The batch moves to the task as a whole, so nothing a flush covers stays
\* pending, and after the seal nothing is pending at all.
LEMMA TakeBatchKeeps ==
    ASSUME WritebackInv, TakeBatch
    PROVE  WritebackInv'
<1> USE WritebackAssumption DEF WritebackInv, pendingVars, callVars, TakeBatch, Start, At, CloseMessage, Purposes
<1>1. TypeOK'
    BY FS_EmptySet, FS_AddElement DEF TypeOK, TaskType, PendingAccepted
<1>2. TaskType'
    BY DEF TypeOK, TaskType
<1>3. (PendingAccepted /\ AcceptedPending)'
    BY DEF TypeOK, TaskType, PendingAccepted, AcceptedPending, InFlight, Ended, Abandoned
<1>4. LossShows'
    BY DEF TypeOK, TaskType, LossShows, Ended, PendingAccepted, InFlight
<1>5. CallsKnown'
    BY DEF TypeOK, TaskType, CallsKnown, Accepted
<1>6. (FlushServed /\ CloseServed)'
    BY DEF TypeOK, TaskType, FlushServed, CloseServed, CallsKnown, Ended, Accepted
<1>7. FlushResult'
    BY DEF TypeOK, TaskType, FlushResult, CallsKnown, FlushServed, PendingAccepted, AcceptedPending, LossShows, Accepted, InFlight, Abandoned, Ended
<1> QED
    BY <1>1, <1>2, <1>3, <1>4, <1>5, <1>6, <1>7

\* The write settles exactly the deltas it was given; when it succeeds no loss
\* is left to report.
LEMMA WriteKeeps ==
    ASSUME WritebackInv, Write
    PROVE  WritebackInv'
<1> USE WritebackAssumption DEF WritebackInv, pendingVars, callVars, Write, Start, At, CloseMessage, Purposes
<1>1. TypeOK'
    BY FS_EmptySet, FS_AddElement DEF TypeOK, TaskType, PendingAccepted
<1>2. TaskType'
    BY DEF TypeOK, TaskType
<1>3. (PendingAccepted /\ AcceptedPending)'
    BY DEF TypeOK, TaskType, PendingAccepted, AcceptedPending, InFlight, Ended, Abandoned
<1>4. LossShows'
    <2>a. task \in [at : {"write"}, for : Purposes, deltas : SUBSET Deltas]
        BY DEF TaskType
    <2>1. PICK done \in BOOLEAN :
              /\ task' = [at |-> "record", for |-> task.for, done |-> done]
              /\ fate' = [d \in Deltas |->
                      IF d \in task.deltas THEN IF done THEN "durable" ELSE "lost"
                      ELSE IF done /\ fate[d] = "lost" THEN "forgotten" ELSE fate[d]]
        OBVIOUS
    <2>2. task'.at = "record" /\ task'.done = done
        BY <2>1
    <2>3. CASE done
        <3>1. \A d \in Deltas : fate'[d] # "lost"
            BY <2>1, <2>3
        <3> QED BY <3>1 DEF LossShows
    <2>4. CASE ~done
        BY <2>2, <2>4 DEF LossShows, Ended
    <2> QED BY <2>3, <2>4
<1>5. CallsKnown'
    BY DEF TypeOK, TaskType, CallsKnown, Accepted
<1>6. (FlushServed /\ CloseServed)'
    BY DEF TypeOK, TaskType, FlushServed, CloseServed, CallsKnown, Ended, Accepted
<1>7. FlushResult'
    BY DEF TypeOK, TaskType, FlushResult, CallsKnown, FlushServed, PendingAccepted, AcceptedPending, LossShows, Accepted, InFlight, Abandoned, Ended
<1> QED
    BY <1>1, <1>2, <1>3, <1>4, <1>5, <1>6, <1>7

\* The recorded outcome is that of the write, so a loss still shows.
LEMMA RecordKeeps ==
    ASSUME WritebackInv, Record
    PROVE  WritebackInv'
<1> USE WritebackAssumption DEF WritebackInv, pendingVars, callVars, Record, Start, At, CloseMessage, Purposes
<1>1. TypeOK'
    BY FS_EmptySet, FS_AddElement DEF TypeOK, TaskType, PendingAccepted
<1>2. TaskType'
    BY DEF TypeOK, TaskType
<1>3. (PendingAccepted /\ AcceptedPending)'
    BY DEF TypeOK, TaskType, PendingAccepted, AcceptedPending, InFlight, Ended, Abandoned
<1>4. LossShows'
    BY DEF TypeOK, TaskType, LossShows, Ended, PendingAccepted, InFlight
<1>5. CallsKnown'
    BY DEF TypeOK, TaskType, CallsKnown, Accepted
<1>6. (FlushServed /\ CloseServed)'
    BY DEF TypeOK, TaskType, FlushServed, CloseServed, CallsKnown, Ended, Accepted
<1>7. FlushResult'
    BY DEF TypeOK, TaskType, FlushResult, CallsKnown, FlushServed, PendingAccepted, AcceptedPending, LossShows, Accepted, InFlight, Abandoned, Ended
<1> QED
    BY <1>1, <1>2, <1>3, <1>4, <1>5, <1>6, <1>7

\* A flush is answered by the recorded failure, and by then everything it
\* covers has been in a batch; the close ends the task with that outcome.
LEMMA WrittenKeeps ==
    ASSUME WritebackInv, Written
    PROVE  WritebackInv'
<1> USE WritebackAssumption DEF WritebackInv, pendingVars, callVars, Start, At, CloseMessage, Purposes
<1> DEFINE Kept == UNCHANGED <<pendingVars, permit, channel, connection, fate, covers, closing>>
<1>a. task \in [at : {"written"}, for : Purposes]
    BY DEF Written, TaskType
<1>b. CASE task.for = "loop"
    <2>1. task' = Start /\ reply' = reply /\ Kept
        BY <1>b DEF Written
    <2>2. (TypeOK /\ TaskType)'
        BY <2>1 DEF TypeOK, TaskType
    <2>3. (PendingAccepted /\ AcceptedPending /\ LossShows)'
        BY <1>a, <2>1 DEF TypeOK, PendingAccepted, AcceptedPending, LossShows, InFlight, Ended, Abandoned
    <2>4. (CallsKnown /\ FlushServed /\ CloseServed /\ FlushResult)'
        BY <1>a, <2>1 DEF TypeOK, CallsKnown, FlushServed, CloseServed, FlushResult, Ended, Accepted
    <2> QED BY <2>2, <2>3, <2>4
<1>c. CASE task.for \in Jobs
    <2>1. /\ task' = Start /\ Kept
          /\ reply' = [reply EXCEPT ![task.for] = IF failure THEN "err" ELSE "ok"]
        BY <1>c DEF Written
    <2>2. (TypeOK /\ TaskType)'
        BY <1>c, <2>1 DEF TypeOK, TaskType
    <2>3. (PendingAccepted /\ AcceptedPending /\ LossShows)'
        BY <1>a, <2>1 DEF TypeOK, PendingAccepted, AcceptedPending, LossShows, InFlight, Ended, Abandoned
    <2>4. (CallsKnown /\ FlushServed /\ CloseServed)'
        BY <1>a, <1>c, <2>1 DEF TypeOK, CallsKnown, FlushServed, CloseServed, Ended, Accepted
    <2>5. ~failure => \A d \in covers[task.for] : fate[d] \in {"durable", "forgotten"}
        BY <1>a, <1>c DEF TypeOK, CallsKnown, FlushServed, AcceptedPending, LossShows, InFlight, Ended, Abandoned, Accepted
    <2>6. FlushResult'
        BY <1>c, <2>1, <2>5 DEF TypeOK, FlushResult
    <2> QED BY <2>2, <2>3, <2>4, <2>6
<1>d. CASE task.for = CloseMessage
    <2>1. reply' = reply /\ Kept
        BY <1>d DEF Written
    <2>2. PICK ok \in BOOLEAN : task' = [at |-> "finish", ok |-> ok]
                               /\ (ok => ~failure)
        <3>1. PICK b \in BOOLEAN : task' = [at |-> "finish", ok |-> b /\ ~failure]
            BY <1>d DEF Written
        <3> QED BY <3>1
    <2>3. (TypeOK /\ TaskType)'
        BY <2>1, <2>2 DEF TypeOK, TaskType
    <2>4. (PendingAccepted /\ AcceptedPending /\ LossShows)'
        BY <1>a, <1>d, <2>1, <2>2 DEF TypeOK, PendingAccepted, AcceptedPending, LossShows, InFlight, Ended, Abandoned
    <2>5. (CallsKnown /\ FlushServed /\ CloseServed /\ FlushResult)'
        BY <1>a, <1>d, <2>1, <2>2 DEF TypeOK, CallsKnown, FlushServed, CloseServed, FlushResult, Ended, Accepted
    <2> QED BY <2>3, <2>4, <2>5
<1> QED
    BY <1>a, <1>b, <1>c, <1>d

\* A panic abandons the batch together with the task, whose result is bad.
LEMMA PanicKeeps ==
    ASSUME WritebackInv, Panic
    PROVE  WritebackInv'
<1> USE WritebackAssumption DEF WritebackInv, pendingVars, callVars, Panic, Start, At, CloseMessage, Purposes
<1>1. TypeOK'
    BY FS_EmptySet, FS_AddElement DEF TypeOK, TaskType, PendingAccepted
<1>2. TaskType'
    BY DEF TypeOK, TaskType
<1>3. (PendingAccepted /\ AcceptedPending)'
    BY DEF TypeOK, TaskType, PendingAccepted, AcceptedPending, InFlight, Ended, Abandoned
<1>4. LossShows'
    BY DEF TypeOK, TaskType, LossShows, Ended, PendingAccepted, InFlight
<1>5. CallsKnown'
    BY DEF TypeOK, TaskType, CallsKnown, Accepted
<1>6. (FlushServed /\ CloseServed)'
    BY DEF TypeOK, TaskType, FlushServed, CloseServed, CallsKnown, Ended, Accepted
<1>7. FlushResult'
    BY DEF TypeOK, TaskType, FlushResult, CallsKnown, FlushServed, PendingAccepted, AcceptedPending, LossShows, Accepted, InFlight, Abandoned, Ended
<1> QED
    BY <1>1, <1>2, <1>3, <1>4, <1>5, <1>6, <1>7

\* The epilogue seals and tells the callers still queued of the failure.
LEMMA FinishKeeps ==
    ASSUME WritebackInv, Finish
    PROVE  WritebackInv'
<1> USE WritebackAssumption DEF WritebackInv, pendingVars, callVars, Finish, Start, At, CloseMessage, Purposes
<1>1. TypeOK'
    BY FS_EmptySet, FS_AddElement DEF TypeOK, TaskType, PendingAccepted
<1>2. TaskType'
    BY DEF TypeOK, TaskType
<1>3. (PendingAccepted /\ AcceptedPending)'
    BY DEF TypeOK, TaskType, PendingAccepted, AcceptedPending, InFlight, Ended, Abandoned
<1>4. LossShows'
    BY DEF TypeOK, TaskType, LossShows, Ended, PendingAccepted, InFlight
<1>5. CallsKnown'
    BY DEF TypeOK, TaskType, CallsKnown, Accepted
<1>6. (FlushServed /\ CloseServed)'
    BY DEF TypeOK, TaskType, FlushServed, CloseServed, CallsKnown, Ended, Accepted
<1>7. FlushResult'
    BY DEF TypeOK, TaskType, FlushResult, CallsKnown, FlushServed, PendingAccepted, AcceptedPending, LossShows, Accepted, InFlight, Abandoned, Ended
<1> QED
    BY <1>1, <1>2, <1>3, <1>4, <1>5, <1>6, <1>7

\* The close reports what the task ended with.
LEMMA ReceiptKeeps ==
    ASSUME WritebackInv, Receipt
    PROVE  WritebackInv'
<1> USE WritebackAssumption DEF WritebackInv, pendingVars, callVars, Receipt, Start, At, CloseMessage, Purposes
<1>1. TypeOK'
    BY FS_EmptySet, FS_AddElement DEF TypeOK, TaskType, PendingAccepted
<1>2. TaskType'
    BY DEF TypeOK, TaskType
<1>3. (PendingAccepted /\ AcceptedPending)'
    BY DEF TypeOK, TaskType, PendingAccepted, AcceptedPending, InFlight, Ended, Abandoned
<1>4. LossShows'
    BY DEF TypeOK, TaskType, LossShows, Ended, PendingAccepted, InFlight
<1>5. CallsKnown'
    BY DEF TypeOK, TaskType, CallsKnown, Accepted
<1>6. (FlushServed /\ CloseServed)'
    BY DEF TypeOK, TaskType, FlushServed, CloseServed, CallsKnown, Ended, Accepted
<1>7. FlushResult'
    BY DEF TypeOK, TaskType, FlushResult, CallsKnown, FlushServed, PendingAccepted, AcceptedPending, LossShows, Accepted, InFlight, Abandoned, Ended
<1> QED
    BY <1>1, <1>2, <1>3, <1>4, <1>5, <1>6, <1>7

\* Every step of callers and task keeps the invariant.
LEMMA WritebackStep == WritebackInv /\ [Next]_vars => WritebackInv'
<1> SUFFICES ASSUME WritebackInv, [Next]_vars PROVE WritebackInv'
    OBVIOUS
<1>1. ASSUME NEW d \in Deltas, Accept(d) PROVE WritebackInv'
    BY <1>1, AcceptKeeps
<1>2. ASSUME NEW j \in Jobs, Ask(j) PROVE WritebackInv'
    BY <1>2, AskKeeps
<1>3. CASE Close \/ Panic \/ Receipt
    BY <1>3, CloseKeeps, PanicKeeps, ReceiptKeeps
<1>4. CASE Task
    BY <1>4, ComputeDeadlineKeeps, NotifiedKeeps, TimeoutKeeps, ReceiveKeeps, QueryKeeps, TakeBatchKeeps,
       WriteKeeps, RecordKeeps, WrittenKeeps, FinishKeeps DEF Task
<1>5. CASE UNCHANGED vars
    BY <1>5 DEF vars, pendingVars, callVars, WritebackInv, TypeOK, TaskType, PendingAccepted, AcceptedPending,
       LossShows, CallsKnown, FlushServed, CloseServed, FlushResult, InFlight, Ended, Abandoned, Accepted, At, Start
<1> QED
    BY <1>1, <1>2, <1>3, <1>4, <1>5 DEF Next

\* The invariant holds in every reachable state of the writeback.
THEOREM WritebackInvariant == Spec => []WritebackInv
BY WritebackInit, WritebackStep, PTL DEF Spec

\* A flush answered with success left nothing it covers pending, in flight or
\* unreported (writeback.rs: commit, and the receipt read from the recorded
\* failure).
THEOREM FlushCoversHolds == Spec => []FlushCovers
<1>1. WritebackInv => FlushCovers
    BY DEF WritebackInv, FlushResult, FlushCovers
<1> QED
    BY <1>1, WritebackInvariant, PTL

\* A close that reports success accounts for every delta ever accepted, and
\* admission stays sealed (writeback.rs: close, and the epilogue of the task).
THEOREM CloseCoversHolds == Spec => []CloseCovers
<1>1. WritebackInv => CloseCovers
    <2> SUFFICES ASSUME WritebackInv, closing = "ok"
                 PROVE  sealed /\ \A d \in Accepted : fate[d] \in {"durable", "forgotten"}
        BY DEF CloseCovers
    <2>1. At("done") /\ task.ok /\ sealed /\ batch = {}
        BY DEF WritebackInv, CloseServed, Ended, At
    <2>2. \A d \in Deltas : fate[d] # "lost" /\ fate[d] # "accepted"
        BY <2>1 DEF WritebackInv, LossShows, AcceptedPending, InFlight, Ended, Abandoned, At
    <2> QED
        BY <2>1, <2>2 DEF WritebackInv, TypeOK, Accepted
<1> QED
    BY <1>1, WritebackInvariant, PTL

-----------------------------------------------------------------------------
(***************************************************************************)
(* Version changes: the other protocol of a database worker.               *)
(***************************************************************************)
\* The connections that exist: those of the start, and those of requests whose
\* open has been served.
Opened ==
    Connections \cup {NewConn[f] : f \in {g \in Factories : stage[g] \in {"event", "done"}}}

Stages == {"new", "queued", "notifying", "blocked", "waiting", "orphan", "event", "done"}

Stations ==
    {"unregister", "discard", "closed", "release", "refuse", "again", "unhold", "take"}

\* Who may have kept a batch from finding nobody left.
Causes(f) == plain[f] \cup late[f]

BatchTypes ==
    /\ stage \in [Factories -> Stages]
    /\ pending \in [Factories -> Nat]
    /\ blocked \in [Factories -> {"unknown", "yes", "no"}]
    /\ snapshot \in [Factories -> SUBSET Handles]
    /\ plain \in [Factories -> SUBSET Handles] /\ late \in [Factories -> SUBSET Handles]
    /\ notifications \in [Handles -> Seq(Factories)]
    /\ taken \in [Handles -> SUBSET Factories]
    /\ held \in [Handles -> SUBSET Factories]
    /\ registered \in SUBSET Handles /\ IsFiniteSet(registered)

LoopTypes ==
    /\ loop \in [Handles -> {"idle", "close", "retire", "drop", "gone"}]
    /\ mailbox \in Seq([connection : Handles, forced : BOOLEAN])
    /\ worker = Idle \/ worker \in [at : Stations, connection : Handles]

\* A notification is queued, in an event or held, and at one of these once.
Distinct ==
    \A c \in Handles :
        /\ \A i, j \in DOMAIN notifications[c] :
              notifications[c][i] = notifications[c][j] => i = j
        /\ ToSet(notifications[c]) \cap taken[c] = {}
        /\ ToSet(notifications[c]) \cap held[c] = {}
        /\ taken[c] \cap held[c] = {}

Unasked == \A f \in Factories : stage[f] \in {"new", "queued"} => Outstanding(f) = {}

Counted ==
    \A f \in Factories :
        /\ IsFiniteSet(Outstanding(f))
        /\ pending[f] = Cardinality(Outstanding(f))
        /\ stage[f] \in {"notifying", "blocked"} => (pending[f] = 0 <=> blocked[f] # "unknown")

\* A connection of a batch that is still open stayed open, was answered for too
\* early, or has yet to answer.
Accounted ==
    \A f \in Factories :
        \A c \in snapshot[f] \cap registered : c \in Causes(f) \cup Outstanding(f)

BatchInv == BatchTypes /\ Distinct /\ Unasked /\ Counted /\ Accounted /\ NoSpuriousBlocked

\* Only connections that exist are used ...
Known ==
    /\ registered \cup closePending \cup closed \subseteq Opened
    /\ \A f \in Factories : snapshot[f] \subseteq Opened
    /\ \A i \in DOMAIN mailbox : mailbox[i].connection \in Opened
    /\ worker # Idle => worker.connection \in Opened
    /\ \A c \in Handles : loop[c] \in {"close", "retire", "drop"} => c \in Opened

\* ... and none is registered once its closing got past the registry.
Gone ==
    /\ registered \cap closed = {}
    /\ worker # Idle /\ worker.at \in {"discard", "closed", "release"} =>
          worker.connection \notin registered

\* What the completion of a refused closing is about to give was held by that
\* closing, or by one accepted since.
Refusals ==
    worker # Idle /\ worker.at = "take" =>
        \A f \in held[worker.connection] :
            worker.connection \in plain[f] \/ worker.connection \in inFlight

VersionInv == BatchInv /\ LoopTypes /\ Known /\ Gone /\ Refusals

batchState ==
    <<stage, pending, blocked, snapshot, plain, late, notifications, taken, held, registered>>

-----------------------------------------------------------------------------
\* Taking the head of a sequence shifts the others by one.
LEMMA TailIsShift ==
    ASSUME NEW S, NEW s \in Seq(S), s # <<>>
    PROVE  /\ Head(s) \in S /\ 1 \in DOMAIN s /\ Head(s) = s[1] /\ Tail(s) \in Seq(S)
           /\ \A i \in DOMAIN Tail(s) : i + 1 \in DOMAIN s /\ Tail(s)[i] = s[i + 1]
<1>1. /\ Len(Tail(s)) = Len(s) - 1 /\ DOMAIN Tail(s) = 1..(Len(s) - 1) /\ Len(s) \in Nat \ {0}
      /\ \A i \in 1..(Len(s) - 1) : Tail(s)[i] = s[i + 1]
      /\ Head(s) = s[1] /\ DOMAIN s = 1..Len(s) /\ Tail(s) \in Seq(S) /\ Head(s) \in S
  OBVIOUS
<1>2. 1 \in DOMAIN s /\ \A i \in DOMAIN Tail(s) : i + 1 \in DOMAIN s
  BY <1>1
<1> QED BY <1>1, <1>2

\* A notification appended is one member more.
LEMMA SetOfAppend ==
    ASSUME NEW S, NEW s \in Seq(S), NEW e PROVE ToSet(Append(s, e)) = ToSet(s) \cup {e}
<1> DEFINE t == Append(s, e)
<1>1. /\ DOMAIN t = 1..(Len(s) + 1) /\ DOMAIN s = 1..Len(s) /\ Len(s) \in Nat
      /\ \A i \in DOMAIN s : t[i] = s[i]
      /\ t[Len(s) + 1] = e
  OBVIOUS
<1> HIDE DEF t
<1>2. \A i \in DOMAIN t : i \in DOMAIN s \/ i = Len(s) + 1
  BY <1>1
<1>3. DOMAIN s \subseteq DOMAIN t /\ Len(s) + 1 \in DOMAIN t
  BY <1>1
<1>4. ToSet(t) = ToSet(s) \cup {e}
  BY <1>1, <1>2, <1>3 DEF ToSet
<1> QED BY <1>4 DEF t

\* Before any request every batch is empty and only the first connections exist.
LEMMA VersionStart ==
    ASSUME VersionInit
    PROVE  VersionInv
<1>1. BatchTypes /\ LoopTypes
  BY VersionAssumption DEF VersionInit, BatchTypes, LoopTypes, Handles, Stages
<1>2. \A f \in Factories : Outstanding(f) = {}
  BY DEF VersionInit, Outstanding, ToSet
<1>3. Distinct /\ Unasked
  BY <1>2 DEF VersionInit, Distinct, Unasked, ToSet
<1>4. Counted
  BY <1>2, FS_EmptySet DEF VersionInit, Counted
<1>5. Accounted /\ NoSpuriousBlocked
  BY DEF VersionInit, Accounted, NoSpuriousBlocked
<1>6. Known /\ Gone /\ Refusals
  BY DEF VersionInit, Known, Gone, Refusals, Opened, Idle
<1> QED BY <1>1, <1>3, <1>4, <1>5, <1>6 DEF VersionInv, BatchInv

\* BatchInv speaks of the variables of the batches only.
LEMMA BatchFrame ==
    ASSUME BatchInv, UNCHANGED batchState
    PROVE  BatchInv'
<1>1. \A f \in Factories : Outstanding(f)' = Outstanding(f)
  BY DEF batchState, Outstanding
<1> QED
  BY <1>1 DEF BatchInv, batchState, BatchTypes, Distinct, Unasked, Counted, Accounted, Causes,
           NoSpuriousBlocked

\* What an answer of c to the batches in F does to the counts.
AnswersOf(c, F) ==
    /\ \A f \in F : c \in Outstanding(f)
    /\ \A f \in Factories :
          Outstanding(f)' = IF f \in F THEN Outstanding(f) \ {c} ELSE Outstanding(f)

\* VersionChangeCompletion::drop: the count stays the number of answers that
\* are out, and the last of them, and only that, decides the batch.
LEMMA AnswerCounts ==
    ASSUME BatchTypes, Counted, NEW c \in Handles, NEW F \in SUBSET Factories, NEW W,
           Complete(F, W), AnswersOf(c, F), UNCHANGED stage
    PROVE  /\ Counted'
           /\ pending' \in [Factories -> Nat]
           /\ blocked' \in [Factories -> {"unknown", "yes", "no"}]
<1>1. SUFFICES ASSUME NEW f \in Factories
               PROVE  /\ IsFiniteSet(Outstanding(f)')
                      /\ pending'[f] \in Nat
                      /\ blocked'[f] \in {"unknown", "yes", "no"}
                      /\ pending'[f] = Cardinality(Outstanding(f)')
                      /\ stage[f] \in {"notifying", "blocked"} =>
                            (pending'[f] = 0 <=> blocked'[f] # "unknown")
  BY DEF Counted, Complete
<1>2. /\ IsFiniteSet(Outstanding(f)) /\ pending[f] = Cardinality(Outstanding(f))
      /\ pending[f] \in Nat /\ blocked[f] \in {"unknown", "yes", "no"}
      /\ stage[f] \in {"notifying", "blocked"} => (pending[f] = 0 <=> blocked[f] # "unknown")
  BY DEF Counted, BatchTypes
<1>3. Decision(f) \in {"yes", "no"}
  BY DEF Decision
<1>4. CASE f \in F
  <2>1. c \in Outstanding(f) /\ Outstanding(f)' = Outstanding(f) \ {c}
    BY <1>4 DEF AnswersOf
  <2>2. IsFiniteSet(Outstanding(f)') /\ Cardinality(Outstanding(f)') = pending[f] - 1
    BY <1>2, <2>1, FS_RemoveElement
  <2>3. Cardinality(Outstanding(f)') \in Nat
    BY <2>2, FS_CardinalityType
  <2>4. /\ pending'[f] = pending[f] - 1
        /\ blocked'[f] = IF pending[f] = 1 THEN Decision(f) ELSE blocked[f]
    BY <1>4 DEF Complete
  <2> QED BY <1>2, <1>3, <2>2, <2>3, <2>4
<1>5. CASE f \notin F
  <2>1. Outstanding(f)' = Outstanding(f)
    BY <1>5 DEF AnswersOf
  <2>2. pending'[f] = pending[f] /\ blocked'[f] = blocked[f]
    BY <1>5 DEF Complete
  <2> QED BY <1>2, <2>1, <2>2
<1> QED BY <1>4, <1>5

\* The last answer decides for "blocked" only over a connection that stayed open.
LEMMA AnswerAccounts ==
    ASSUME BatchTypes, Counted, Accounted, NoSpuriousBlocked,
           NEW c \in Handles, NEW F \in SUBSET Factories, NEW W,
           Complete(F, W), AnswersOf(c, F), UNCHANGED <<stage, registered>>,
           \A f \in Factories : Causes(f) \subseteq Causes(f)',
           c \in registered => \A f \in F : c \in Causes(f)'
    PROVE  Accounted' /\ NoSpuriousBlocked'
<1>1. Counted' /\ pending' \in [Factories -> Nat]
  BY AnswerCounts
<1>2. Accounted'
  BY DEF Accounted, AnswersOf, Complete
<1>3. ASSUME NEW f \in Factories, blocked'[f] = "yes" PROVE Causes(f)' # {}
  <2>1. CASE f \in F /\ pending[f] = 1
    <3>1. pending'[f] = 0 /\ Decision(f) = "yes"
      BY <1>3, <2>1 DEF Complete
    <3>2. PICK d \in snapshot[f] \cap registered : TRUE
      BY <3>1 DEF Decision
    <3>3. IsFiniteSet(Outstanding(f)') /\ Cardinality(Outstanding(f)') = 0
      BY <1>1, <3>1 DEF Counted
    <3>4. Outstanding(f)' = {}
      BY <3>3, FS_EmptySet
    <3>5. snapshot' = snapshot
      BY DEF Complete
    <3> QED BY <1>2, <3>2, <3>4, <3>5 DEF Accounted
  <2>2. CASE ~(f \in F /\ pending[f] = 1)
    <3>1. blocked'[f] = blocked[f]
      BY <2>2 DEF Complete
    <3> QED BY <1>3, <3>1 DEF NoSpuriousBlocked, Causes
  <2> QED BY <2>1, <2>2
<1> QED BY <1>2, <1>3 DEF NoSpuriousBlocked, Causes

-----------------------------------------------------------------------------
\* A request moves on; the connections open afterwards were open before, or no
\* batch has seen them.
LEMMA StageStep ==
    ASSUME BatchInv, NEW f \in Factories, NEW s,
           stage' = [stage EXCEPT ![f] = s],
           \/ s = "queued" /\ stage[f] = "new"
           \/ s = "blocked" /\ stage[f] = "notifying"
           \/ s \in {"waiting", "orphan", "event", "done"},
           UNCHANGED <<pending, blocked, snapshot, plain, late, notifications, taken, held>>,
           registered' \in SUBSET Handles, IsFiniteSet(registered'),
           \A g \in Factories : snapshot[g] \cap registered' \subseteq registered
    PROVE  BatchInv'
<1>1. \A g \in Factories : Outstanding(g)' = Outstanding(g)
  BY DEF Outstanding
<1>2. BatchTypes'
  BY DEF BatchInv, BatchTypes, Stages
<1>3. Distinct'
  BY DEF BatchInv, Distinct
<1>4. Unasked'
  BY <1>1 DEF BatchInv, BatchTypes, Unasked
<1>5. Counted'
  BY <1>1 DEF BatchInv, BatchTypes, Counted
<1>6. Accounted' /\ NoSpuriousBlocked'
  BY <1>1 DEF BatchInv, Accounted, Causes, NoSpuriousBlocked
<1> QED BY <1>2, <1>3, <1>4, <1>5, <1>6 DEF BatchInv

\* A new batch asks each open connection that is not closing, once.
LEMMA BeginVersionChangeKeeps ==
    ASSUME BatchInv, NEW f \in Factories, BeginVersionChange(f)
    PROVE  BatchInv'
<1> DEFINE R == registered \ closePending
<1>1. /\ stage[f] = "queued" /\ Outstanding(f) = {}
      /\ R \subseteq Handles /\ IsFiniteSet(R) /\ Cardinality(R) = Cardinality(R)
      /\ Cardinality(R) \in Nat /\ (Cardinality(R) = 0 <=> R = {})
  <2>1. stage[f] = "queued"
    BY DEF BeginVersionChange
  <2>2. IsFiniteSet(R)
    BY FS_Subset DEF BatchInv, BatchTypes
  <2> QED BY <2>1, <2>2, FS_EmptySet, FS_CardinalityType
          DEF BatchInv, BatchTypes, Unasked
<1>2. /\ snapshot' = [snapshot EXCEPT ![f] = registered]
      /\ pending' = [pending EXCEPT ![f] = Cardinality(R)]
      /\ blocked' = [blocked EXCEPT ![f] =
             IF R # {} THEN "unknown" ELSE IF registered # {} THEN "yes" ELSE "no"]
      /\ notifications' = [c \in Handles |-> IF c \in R
                               THEN Append(notifications[c], f) ELSE notifications[c]]
      /\ stage' = [stage EXCEPT ![f] = "notifying"]
      /\ plain' = [plain EXCEPT ![f] = registered \ R]
      /\ UNCHANGED <<late, registered, taken, held>>
  BY <1>1 DEF BeginVersionChange, Expected
<1> HIDE DEF R
<1>3. \A c \in Handles : f \notin ToSet(notifications[c]) \cup taken[c] \cup held[c]
  BY <1>1 DEF Outstanding
<1>4. BatchTypes'
  BY <1>1, <1>2 DEF BatchInv, BatchTypes, Stages
<1>5. ASSUME NEW c \in Handles
      PROVE  ToSet(notifications[c])' =
                ToSet(notifications[c]) \cup (IF c \in R THEN {f} ELSE {})
  <2>1. notifications[c] \in Seq(Factories)
    BY DEF BatchInv, BatchTypes
  <2>2. CASE c \in R
    BY <1>2, <2>1, <2>2, SetOfAppend
  <2>3. CASE c \notin R
    BY <1>2, <2>3 DEF ToSet
  <2> QED BY <2>2, <2>3
<1>6. Distinct'
  <2>1. SUFFICES ASSUME NEW c \in Handles
                 PROVE  /\ \A i, j \in DOMAIN notifications'[c] :
                              notifications'[c][i] = notifications'[c][j] => i = j
                        /\ ToSet(notifications[c])' \cap taken[c] = {}
                        /\ ToSet(notifications[c])' \cap held[c] = {}
                        /\ taken[c] \cap held[c] = {}
    BY <1>2 DEF Distinct
  <2>2. /\ notifications[c] \in Seq(Factories)
        /\ \A i, j \in DOMAIN notifications[c] :
              notifications[c][i] = notifications[c][j] => i = j
        /\ \A i \in DOMAIN notifications[c] : notifications[c][i] # f
    BY <1>3 DEF BatchInv, BatchTypes, Distinct, ToSet
  <2>3. \A i, j \in DOMAIN notifications'[c] :
           notifications'[c][i] = notifications'[c][j] => i = j
    <3>1. CASE c \in R
      <4>1. notifications'[c] = Append(notifications[c], f)
        BY <1>2, <3>1
      <4> QED BY <2>2, <4>1
    <3>2. CASE c \notin R
      BY <1>2, <2>2, <3>2
    <3> QED BY <3>1, <3>2
  <2> QED BY <1>3, <1>5, <2>3 DEF BatchInv, Distinct
<1>7. ASSUME NEW g \in Factories
      PROVE  Outstanding(g)' = IF g = f THEN R ELSE Outstanding(g)
  <2>1. ASSUME NEW c \in Handles
        PROVE  (g \in ToSet(notifications[c])' \cup taken'[c] \cup held'[c]) <=>
                  IF g = f THEN c \in R
                  ELSE g \in ToSet(notifications[c]) \cup taken[c] \cup held[c]
    BY <1>2, <1>3, <1>5
  <2>2. Outstanding(g)' =
           {c \in Handles : g \in ToSet(notifications[c])' \cup taken'[c] \cup held'[c]}
    BY DEF Outstanding
  <2> QED BY <1>1, <2>1, <2>2 DEF Outstanding
<1>8. Unasked'
  BY <1>2, <1>7 DEF BatchInv, BatchTypes, Unasked
<1>9. Counted'
  BY <1>1, <1>2, <1>7 DEF BatchInv, BatchTypes, Counted
<1>10. Accounted' /\ NoSpuriousBlocked'
  <2>1. Accounted'
    BY <1>1, <1>2, <1>7 DEF BatchInv, BatchTypes, Accounted, Causes
  <2>2. NoSpuriousBlocked'
    BY <1>2 DEF BatchInv, BatchTypes, NoSpuriousBlocked
  <2> QED BY <2>1, <2>2
<1> QED BY <1>4, <1>6, <1>8, <1>9, <1>10 DEF BatchInv

\* A taken notification is out as before.
LEMMA TakeNotificationKeeps ==
    ASSUME BatchInv, NEW c \in Handles, TakeNotification(c)
    PROVE  BatchInv'
<1> DEFINE s == notifications[c]
<1>1. /\ s \in Seq(Factories) /\ s # <<>>
      /\ \A i, j \in DOMAIN s : s[i] = s[j] => i = j
      /\ Head(s) \in Factories /\ Tail(s) \in Seq(Factories)
      /\ ToSet(s) \cap taken[c] = {} /\ ToSet(s) \cap held[c] = {}
      /\ taken[c] \cap held[c] = {} /\ taken[c] \in SUBSET Factories
  BY DEF BatchInv, BatchTypes, Distinct, TakeNotification
<1>2. /\ taken' = [taken EXCEPT ![c] = taken[c] \cup {Head(s)}]
      /\ notifications' = [notifications EXCEPT ![c] = Tail(s)]
      /\ UNCHANGED <<stage, pending, blocked, snapshot, plain, late, held, registered>>
  BY DEF TakeNotification, factoryVars, batchVars
<1> HIDE DEF s
<1>3. /\ \A i, j \in DOMAIN Tail(s) : Tail(s)[i] = Tail(s)[j] => i = j
      /\ ToSet(Tail(s)) = ToSet(s) \ {Head(s)} /\ Head(s) \in ToSet(s)
  <2>1. /\ Len(Tail(s)) = Len(s) - 1 /\ DOMAIN Tail(s) = 1..(Len(s) - 1) /\ Len(s) \in Nat \ {0}
        /\ \A i \in 1..(Len(s) - 1) : Tail(s)[i] = s[i + 1]
        /\ Head(s) = s[1] /\ DOMAIN s = 1..Len(s)
    BY <1>1
  <2>2. \A i \in 1..(Len(s) - 1) : i + 1 \in DOMAIN s /\ i + 1 # 1
    BY <2>1
  <2>3. \A i \in DOMAIN s : i = 1 \/ (i - 1 \in 1..(Len(s) - 1) /\ (i - 1) + 1 = i)
    BY <2>1
  <2>4. \A i, j \in DOMAIN Tail(s) : Tail(s)[i] = Tail(s)[j] => i = j
    BY <1>1, <2>1, <2>2
  <2>5. ToSet(Tail(s)) \subseteq ToSet(s) \ {Head(s)}
    BY <1>1, <2>1, <2>2 DEF ToSet
  <2>6. ToSet(s) \ {Head(s)} \subseteq ToSet(Tail(s))
    <3>1. SUFFICES ASSUME NEW i \in DOMAIN s, s[i] # s[1] PROVE s[i] \in ToSet(Tail(s))
      BY <2>1 DEF ToSet
    <3>2. i - 1 \in DOMAIN Tail(s) /\ Tail(s)[i - 1] = s[i]
      BY <2>1, <2>3, <3>1
    <3> QED BY <3>2 DEF ToSet
  <2>7. Head(s) \in ToSet(s)
    BY <2>1 DEF ToSet
  <2> QED BY <2>4, <2>5, <2>6, <2>7
<1>4. BatchTypes'
  BY <1>1, <1>2 DEF BatchInv, BatchTypes
<1>5. ASSUME NEW d \in Handles
      PROVE  /\ d # c => notifications'[d] = notifications[d] /\ taken'[d] = taken[d]
             /\ d = c => notifications'[d] = Tail(s) /\ taken'[d] = taken[c] \cup {Head(s)}
             /\ held'[d] = held[d]
  BY <1>2 DEF BatchInv, BatchTypes
<1>6. Distinct'
  <2>1. SUFFICES ASSUME NEW d \in Handles
                 PROVE  /\ \A i, j \in DOMAIN notifications'[d] :
                              notifications'[d][i] = notifications'[d][j] => i = j
                        /\ ToSet(notifications'[d]) \cap taken'[d] = {}
                        /\ ToSet(notifications'[d]) \cap held'[d] = {}
                        /\ taken'[d] \cap held'[d] = {}
    BY DEF Distinct
  <2>2. CASE d = c
    BY <1>1, <1>3, <1>5, <2>2 DEF s
  <2>3. CASE d # c
    BY <1>5, <2>3 DEF BatchInv, Distinct
  <2> QED BY <2>2, <2>3
<1>7. ASSUME NEW g \in Factories
      PROVE  Outstanding(g)' = Outstanding(g)
  BY <1>3, <1>5 DEF Outstanding, s
<1>8. Accounted' /\ NoSpuriousBlocked'
  BY <1>2, <1>7 DEF BatchInv, Accounted, Causes, NoSpuriousBlocked
<1> QED BY <1>2, <1>4, <1>6, <1>7, <1>8 DEF BatchInv, BatchTypes, Unasked, Counted

\* Where the notifications of a connection are.
Out(c) == ToSet(notifications[c]) \cup taken[c] \cup held[c]

\* What the places of the notifications have to be after a step of c.
PlacesOK ==
    /\ notifications \in [Handles -> Seq(Factories)]
    /\ taken \in [Handles -> SUBSET Factories]
    /\ held \in [Handles -> SUBSET Factories]
    /\ Distinct

\* An answer of c takes c out of the batches it answers, and no other.
LEMMA AnswerStep ==
    ASSUME BatchInv, NEW c \in Handles, NEW F \in SUBSET Factories, NEW W,
           Complete(F, W), UNCHANGED <<stage, registered>>,
           PlacesOK', F \subseteq Out(c),
           \A d \in Handles : Out(d)' = IF d = c THEN Out(d) \ F ELSE Out(d),
           plain' \in [Factories -> SUBSET Handles], late' \in [Factories -> SUBSET Handles],
           \A f \in Factories : Causes(f) \subseteq Causes(f)',
           c \in registered => \A f \in F : c \in Causes(f)'
    PROVE  BatchInv'
<1>1. AnswersOf(c, F)
  <2>1. \A f \in F : c \in Outstanding(f)
    BY DEF Out, Outstanding
  <2>2. ASSUME NEW f \in Factories
        PROVE  Outstanding(f)' = IF f \in F THEN Outstanding(f) \ {c} ELSE Outstanding(f)
    <3>1. /\ Outstanding(f)' = {d \in Handles : f \in Out(d)'}
          /\ Outstanding(f) = {d \in Handles : f \in Out(d)}
      BY DEF Out, Outstanding
    <3> QED BY <3>1
  <2> QED BY <2>1, <2>2 DEF AnswersOf
<1>2. Counted' /\ pending' \in [Factories -> Nat]
      /\ blocked' \in [Factories -> {"unknown", "yes", "no"}]
  BY <1>1, AnswerCounts DEF BatchInv
<1>3. Accounted' /\ NoSpuriousBlocked'
  BY <1>1, AnswerAccounts DEF BatchInv
<1>4. snapshot' = snapshot
  BY DEF Complete
<1>5. BatchTypes'
  BY <1>2, <1>4 DEF BatchInv, BatchTypes, PlacesOK
<1>6. Unasked'
  BY <1>1 DEF AnswersOf, BatchInv, Unasked
<1> QED BY <1>2, <1>3, <1>5, <1>6 DEF BatchInv, PlacesOK

\* An acknowledgement is given, or held while the close of c is in flight.
LEMMA AcknowledgeKeeps ==
    ASSUME BatchInv, NEW c \in Handles, NEW f \in Factories, Acknowledge(c, f),
           registered \cap closed = {}
    PROVE  BatchInv'
<1>1. /\ f \in taken[c]
      /\ taken' = [taken EXCEPT ![c] = taken[c] \ {f}]
      /\ UNCHANGED <<stage, registered, notifications>>
  BY DEF Acknowledge, factoryVars
<1>2. /\ f \notin ToSet(notifications[c]) /\ f \notin held[c]
      /\ \A d \in Handles : /\ taken'[d] = IF d = c THEN taken[c] \ {f} ELSE taken[d]
                            /\ taken'[d] \subseteq taken[d]
  BY <1>1 DEF BatchInv, BatchTypes, Distinct
<1>3. CASE c \in inFlight \ closed
  <2>1. /\ held' = [held EXCEPT ![c] = held[c] \cup {f}]
        /\ UNCHANGED <<pending, blocked, snapshot, plain, late>>
    BY <1>3 DEF Acknowledge, batchVars
  <2>2. \A d \in Handles : held'[d] = IF d = c THEN held[c] \cup {f} ELSE held[d]
    BY <2>1 DEF BatchInv, BatchTypes
  <2>3. BatchTypes'
    BY <1>1, <2>1 DEF BatchInv, BatchTypes
  <2>4. Distinct'
    BY <1>1, <1>2, <2>2 DEF BatchInv, Distinct
  <2>5. \A g \in Factories : Outstanding(g)' = Outstanding(g)
    BY <1>1, <1>2, <2>2 DEF Outstanding
  <2>6. Accounted' /\ NoSpuriousBlocked'
    BY <1>1, <2>1, <2>5 DEF BatchInv, Accounted, Causes, NoSpuriousBlocked
  <2> QED BY <1>1, <2>1, <2>3, <2>4, <2>5, <2>6
          DEF BatchInv, BatchTypes, Unasked, Counted
<1>4. CASE ~(c \in inFlight \ closed)
  <2>1. /\ Complete({f}, {}) /\ held' = held /\ late' = late
        /\ plain' = Noted(plain, c, IF c \in closed THEN {} ELSE {f})
    BY <1>4 DEF Acknowledge
  <2>2. PlacesOK'
    BY <1>1, <1>2, <2>1 DEF PlacesOK, BatchInv, BatchTypes, Distinct
  <2>3. {f} \subseteq Out(c)
    BY <1>1 DEF Out
  <2>4. \A d \in Handles : Out(d)' = IF d = c THEN Out(d) \ {f} ELSE Out(d)
    BY <1>1, <1>2, <2>1 DEF Out
  <2>5. /\ plain' \in [Factories -> SUBSET Handles] /\ late' \in [Factories -> SUBSET Handles]
        /\ \A g \in Factories : Causes(g) \subseteq Causes(g)'
        /\ c \in registered => \A g \in {f} : c \in Causes(g)'
    BY <2>1 DEF Noted, Causes, BatchInv, BatchTypes
  <2> QED BY <1>1, <2>1, <2>2, <2>3, <2>4, <2>5, AnswerStep
<1> QED BY <1>3, <1>4

\* The notifications of an unregistered connection are answered in its place.
LEMMA DiscardKeeps ==
    ASSUME BatchInv, Discard, worker.connection \in Handles,
           worker.connection \notin registered
    PROVE  BatchInv'
<1> DEFINE c == worker.connection
           F == ToSet(notifications[c])
<1>1. /\ Complete(F, observers[c])
      /\ notifications' = [notifications EXCEPT ![c] = <<>>]
      /\ UNCHANGED <<stage, plain, late, registered, taken, held>>
  BY DEF Discard, factoryVars
<1>2. F \subseteq Factories
  BY DEF BatchInv, BatchTypes, ToSet
<1>3. /\ \A d \in Handles : notifications'[d] = IF d = c THEN <<>> ELSE notifications[d]
      /\ ToSet(<<>>) = {}
  BY <1>1 DEF BatchInv, BatchTypes, ToSet
<1>4. PlacesOK'
  BY <1>1, <1>3 DEF PlacesOK, BatchInv, BatchTypes, Distinct
<1>5. F \subseteq Out(c) /\ F \cap (taken[c] \cup held[c]) = {}
  BY DEF Out, BatchInv, Distinct
<1>6. \A d \in Handles : Out(d)' = IF d = c THEN Out(d) \ F ELSE Out(d)
  BY <1>1, <1>3, <1>5 DEF Out
<1>7. /\ plain' \in [Factories -> SUBSET Handles] /\ late' \in [Factories -> SUBSET Handles]
      /\ \A f \in Factories : Causes(f)' = Causes(f)
  BY <1>1 DEF Causes, BatchInv, BatchTypes
<1> QED BY <1>1, <1>2, <1>4, <1>5, <1>6, <1>7, AnswerStep

\* The held acknowledgements are given together.
LEMMA ReleaseKeeps ==
    ASSUME BatchInv, ReleaseHeld, worker.connection \in Handles,
           late' \in [Factories -> SUBSET Handles],
           \A f \in Factories : late[f] \subseteq late'[f],
           worker.connection \in registered =>
               \A f \in held[worker.connection] : worker.connection \in plain[f] \cup late'[f]
    PROVE  BatchInv'
<1> DEFINE c == worker.connection
           F == held[c]
<1>1. /\ Complete(F, {})
      /\ held' = [held EXCEPT ![c] = {}]
      /\ UNCHANGED <<stage, plain, registered, taken, notifications>>
  BY DEF ReleaseHeld, factoryVars
<1>2. F \subseteq Factories
  BY DEF BatchInv, BatchTypes
<1>3. \A d \in Handles : held'[d] = IF d = c THEN {} ELSE held[d]
  BY <1>1 DEF BatchInv, BatchTypes
<1>4. PlacesOK'
  BY <1>1, <1>3 DEF PlacesOK, BatchInv, BatchTypes, Distinct
<1>5. F \subseteq Out(c) /\ F \cap (taken[c] \cup ToSet(notifications[c])) = {}
  BY DEF Out, BatchInv, Distinct
<1>6. \A d \in Handles : Out(d)' = IF d = c THEN Out(d) \ F ELSE Out(d)
  BY <1>1, <1>3, <1>5 DEF Out
<1>7. /\ plain' \in [Factories -> SUBSET Handles]
      /\ \A g \in Factories : Causes(g) \subseteq Causes(g)'
      /\ c \in registered => \A g \in F : c \in Causes(g)'
  BY <1>1, <1>2 DEF Causes, BatchInv, BatchTypes
<1> QED BY <1>1, <1>2, <1>4, <1>5, <1>6, <1>7, AnswerStep

\* One connection less is open.
LEMMA UnregisterKeeps ==
    ASSUME BatchInv, Unregister
    PROVE  BatchInv'
<1>1. /\ registered' = registered \ {worker.connection}
      /\ UNCHANGED <<stage, pending, blocked, snapshot, plain, late, notifications, taken, held>>
  BY DEF Unregister, factoryVars, batchVars, noteVars
<1>2. IsFiniteSet(registered')
  BY <1>1, FS_Subset DEF BatchInv, BatchTypes
<1>3. \A g \in Factories : Outstanding(g)' = Outstanding(g)
  BY <1>1 DEF Outstanding
<1> QED BY <1>1, <1>2, <1>3
        DEF BatchInv, BatchTypes, Distinct, Unasked, Counted, Accounted, Causes, NoSpuriousBlocked

-----------------------------------------------------------------------------
\* The existing connections, and what uses them.
\* The connection of an unfinished request does not exist yet.
LEMMA KnownHandles ==
    ASSUME BatchTypes, Known, NEW f \in Factories, stage[f] \notin {"event", "done"},
           NewConn[f] # NoConn
    PROVE  NewConn[f] \notin Opened
BY VersionAssumption DEF Opened

\* Connections are not forgotten.
LEMMA OpenedGrows ==
    ASSUME NEW f \in Factories, NEW s, BatchTypes,
           stage' = [stage EXCEPT ![f] = s],
           stage[f] \in {"event", "done"} => s \in {"event", "done"}
    PROVE  Opened \subseteq Opened'
BY DEF Opened, BatchTypes

\* Known depends on who uses connections.
LEMMA KnownFrame ==
    ASSUME Known, Opened \subseteq Opened',
           UNCHANGED <<registered, closePending, closed, snapshot, mailbox, worker, loop>>
    PROVE  Known'
BY DEF Known

\* LoopTypes and Gone depend on the loops, the mailbox and the worker.
LEMMA LoopFrame ==
    ASSUME LoopTypes, Gone, UNCHANGED <<registered, closed, mailbox, worker, loop>>
    PROVE  LoopTypes' /\ Gone'
BY DEF LoopTypes, Gone

\* Refusals is kept by steps of others: what is held since was held by a closing
\* in flight, and what was noted stays noted.
LEMMA RefusalsFrame ==
    ASSUME Refusals, LoopTypes, worker' = worker, inFlight \subseteq inFlight',
           \A c \in Handles : \A f \in held'[c] :
               \/ f \in held[c] /\ (c \in plain[f] => c \in plain'[f])
               \/ c \in inFlight'
    PROVE  Refusals'
BY DEF Refusals, LoopTypes, Idle

\* Steps of a request.
LEMMA RequestStep ==
    ASSUME VersionInv, NEW f \in Factories,
           Enqueue(f) \/ Request(f) \/ Reply(f) \/ Deliver(f) \/ Withdraw(f)
    PROVE  VersionInv'
<1> USE DEF VersionInv
<1>0. BatchTypes
  BY DEF BatchInv
<1>1. CASE \/ Enqueue(f) \/ FireBlocked(f) \/ Withdraw(f) \/ Proceed(f) \/ OpenAtOnce(f)
           \/ FailEarly(f) \/ Deliver(f)
  <2>1. PICK s \in {"queued", "blocked", "waiting", "orphan", "event", "done"} :
           /\ stage' = [stage EXCEPT ![f] = s]
           /\ s = "queued" => stage[f] = "new"
           /\ s = "blocked" => stage[f] = "notifying"
           /\ stage[f] \in {"event", "done"} => s \in {"event", "done"}
    BY <1>0, <1>1 DEF Enqueue, FireBlocked, Withdraw, Proceed, OpenAtOnce, FailEarly, Deliver,
                      Move, Decided, BatchTypes
  <2>2. UNCHANGED <<pending, blocked, snapshot, plain, late, notifications, taken, held,
                    registered, closePending, inFlight, closed, loop, mailbox, worker>>
    BY <1>1 DEF Enqueue, FireBlocked, Withdraw, Proceed, OpenAtOnce, FailEarly, Deliver, Move,
                batchVars, noteVars, statusVars
  <2>3. registered' \in SUBSET Handles /\ IsFiniteSet(registered')
    BY <1>0, <2>2 DEF BatchTypes
  <2>4. BatchInv'
    BY <2>1, <2>2, <2>3, StageStep
  <2>5. Opened \subseteq Opened'
    BY <1>0, <2>1, OpenedGrows
  <2>6. Refusals'
    BY <2>2, RefusalsFrame
  <2> QED BY <2>2, <2>4, <2>5, <2>6, KnownFrame, LoopFrame
<1>2. CASE BeginVersionChange(f)
  <2>1. BatchInv'
    BY <1>2, BeginVersionChangeKeeps
  <2>2. /\ UNCHANGED <<registered, held, closePending, inFlight, closed, loop, mailbox, worker>>
        /\ stage' = [stage EXCEPT ![f] = "notifying"] /\ stage[f] = "queued"
        /\ snapshot' = [snapshot EXCEPT ![f] = registered]
        /\ \A g \in Factories : g # f => plain'[g] = plain[g]
    BY <1>0, <1>2 DEF BeginVersionChange, statusVars, BatchTypes
  <2>3. Opened \subseteq Opened'
    BY <1>0, <2>2, OpenedGrows
  <2>4. Known'
    BY <1>0, <2>2, <2>3 DEF Known, BatchTypes
  <2>5. \A c \in Handles : f \notin held[c]
    BY <2>2 DEF BatchInv, Unasked, Outstanding
  <2>6. \A c \in Handles : held[c] \subseteq Factories
    BY <1>0 DEF BatchTypes
  <2>7. Refusals'
    BY <2>2, <2>5, <2>6, RefusalsFrame
  <2> QED BY <2>1, <2>2, <2>4, <2>7, LoopFrame
<1>3. CASE Reply(f)
  <2>1. PICK opened \in SUBSET ({NewConn[f]} \ {NoConn}) :
           /\ registered' = registered \cup opened
           /\ loop' = loop \/ loop' = [c \in Handles |-> IF c \in opened THEN "drop" ELSE loop[c]]
    BY <1>3 DEF Reply
  <2>2. PICK s \in {"event", "done"} :
           /\ stage[f] \notin {"event", "done"} /\ stage' = [stage EXCEPT ![f] = s]
           /\ UNCHANGED <<pending, blocked, snapshot, plain, late, notifications, taken, held,
                          closePending, inFlight, closed, mailbox, worker>>
    BY <1>3 DEF Reply, batchVars, noteVars
  <2>3. \A c \in opened : c \notin Opened
    BY <1>0, <2>2, KnownHandles
  <2>4. opened \in SUBSET Handles /\ opened \subseteq Opened'
    BY <1>0, <2>2 DEF Handles, Opened, BatchTypes
  <2>5. registered' \in SUBSET Handles
    BY <1>0, <2>1, <2>4 DEF BatchTypes
  <2>6. IsFiniteSet(registered')
    <3>1. IsFiniteSet({NewConn[f]})
      BY FS_Singleton
    <3>2. IsFiniteSet(opened)
      BY <3>1, FS_Subset
    <3> QED BY <1>0, <2>1, <3>2, FS_Union DEF BatchTypes
  <2>7. \A g \in Factories : snapshot[g] \cap registered' \subseteq registered
    BY <2>1, <2>3 DEF Known
  <2>8. BatchInv'
    BY <2>2, <2>5, <2>6, <2>7, StageStep
  <2>9. Opened \subseteq Opened'
    BY <1>0, <2>2, OpenedGrows
  <2>10. Known'
    BY <2>1, <2>2, <2>4, <2>9 DEF Known
  <2>11. LoopTypes' /\ Gone'
    BY <2>1, <2>2, <2>3 DEF LoopTypes, Gone, Known
  <2>12. Refusals'
    BY <2>2, RefusalsFrame
  <2> QED BY <2>8, <2>10, <2>11, <2>12
<1>4. CASE NotReady(f)
  <2>1. UNCHANGED batchState /\ UNCHANGED <<closePending, inFlight, closed, loop, mailbox, worker>>
    BY <1>4 DEF NotReady, batchState, factoryVars, batchVars, noteVars, statusVars
  <2>2. Opened' = Opened
    BY <2>1 DEF Opened, batchState
  <2> QED BY <2>1, <2>2, BatchFrame, KnownFrame, LoopFrame, RefusalsFrame DEF batchState
<1> QED BY <1>1, <1>2, <1>3, <1>4 DEF Request

\* Steps of a connection's event loop.
LEMMA RecipientStep ==
    ASSUME VersionInv, NEW c \in Handles,
           \/ Recipient(c) \/ CallDrop(c) \/ FinishWork(c)
           \/ \E kind \in {"close", "retire"} : CallClose(c, kind)
    PROVE  VersionInv'
<1> USE DEF VersionInv
<1>1. CASE TakeNotification(c) \/ \E f \in Factories : Acknowledge(c, f)
  <2>1. BatchInv'
    BY <1>1, TakeNotificationKeeps, AcknowledgeKeeps DEF Gone
  <2>2. UNCHANGED <<registered, closePending, closed, snapshot, mailbox, worker, loop, stage>>
    BY <1>1 DEF TakeNotification, Acknowledge, factoryVars, batchVars, statusVars,
                Complete
  <2>3. Opened' = Opened
    BY <2>2 DEF Opened
  <2>4. Refusals'
    <3>1. worker' = worker /\ inFlight' = inFlight
      BY <1>1 DEF TakeNotification, Acknowledge, statusVars
    <3>2. ASSUME NEW d \in Handles, NEW g \in held'[d]
          PROVE  \/ g \in held[d] /\ (d \in plain[g] => d \in plain'[g])
                 \/ d \in inFlight'
      <4>1. CASE TakeNotification(c)
        BY <3>2, <4>1 DEF TakeNotification, batchVars
      <4>2. CASE \E f \in Factories : Acknowledge(c, f)
        <5>1. PICK f \in Factories : Acknowledge(c, f)
          BY <4>2
        <5>2. BatchTypes /\ held[d] \subseteq Factories
          BY DEF BatchInv, BatchTypes
        <5>3. CASE c \in inFlight \ closed
          BY <3>1, <3>2, <5>1, <5>2, <5>3 DEF Acknowledge, batchVars, BatchTypes
        <5>4. CASE ~(c \in inFlight \ closed)
          <6>1. /\ held' = held
                /\ plain' = Noted(plain, c, IF c \in closed THEN {} ELSE {f})
            BY <5>1, <5>4 DEF Acknowledge
          <6> QED BY <3>2, <5>2, <6>1 DEF Noted
        <5> QED BY <5>3, <5>4
      <4> QED BY <1>1, <4>1, <4>2
    <3> QED BY <3>1, <3>2, RefusalsFrame
  <2> QED BY <2>1, <2>2, <2>3, <2>4, KnownFrame, LoopFrame
<1>2. CASE Submit(c)
  <2>0. Refusals'
    <3>1. worker' = worker /\ inFlight \subseteq inFlight' /\ held' = held /\ plain' = plain
      BY <1>2 DEF Submit, noteVars, batchVars
    <3> QED BY <3>1, RefusalsFrame
  <2>1. UNCHANGED batchState /\ UNCHANGED <<closePending, closed, worker>>
    BY <1>2 DEF Submit, batchState, factoryVars, batchVars, noteVars, statusVars
  <2>2. Opened' = Opened /\ c \in Opened
    BY <1>2, <2>1 DEF Opened, batchState, Submit, Known
  <2>3. /\ loop[c] \in {"close", "retire", "drop"}
        /\ loop' = [loop EXCEPT ![c] = IF loop[c] = "drop" THEN "gone" ELSE "idle"]
        /\ \/ mailbox' = mailbox
           \/ mailbox' = Append(mailbox, [connection |-> c, forced |-> loop[c] # "close"])
    BY <1>2 DEF Submit
  <2>4. /\ mailbox' \in Seq([connection : Handles, forced : BOOLEAN])
        /\ \A i \in DOMAIN mailbox' : mailbox'[i].connection \in Opened
    <3>1. CASE mailbox' = mailbox
      BY <3>1 DEF LoopTypes, Known
    <3>2. CASE mailbox' = Append(mailbox, [connection |-> c, forced |-> loop[c] # "close"])
      <4> DEFINE m == [connection |-> c, forced |-> loop[c] # "close"]
      <4>1. m \in [connection : Handles, forced : BOOLEAN] /\ m.connection = c
        OBVIOUS
      <4>2. mailbox \in Seq([connection : Handles, forced : BOOLEAN])
        BY DEF LoopTypes
      <4>3. \A i \in DOMAIN mailbox : mailbox[i].connection \in Opened
        BY DEF Known
      <4> HIDE DEF m
      <4>4. mailbox' = Append(mailbox, m)
        BY <3>2 DEF m
      <4>5. \A i \in DOMAIN mailbox' :
            (i \in DOMAIN mailbox /\ mailbox'[i] = mailbox[i]) \/ mailbox'[i] = m
        BY <4>1, <4>2, <4>4
      <4> QED BY <2>2, <4>1, <4>2, <4>3, <4>4, <4>5
    <3> QED BY <2>3, <3>1, <3>2
  <2>5. LoopTypes' /\ Gone'
    BY <2>1, <2>3, <2>4 DEF LoopTypes, Gone, batchState
  <2>6. Known'
    BY <2>1, <2>2, <2>3, <2>4 DEF Known, batchState, LoopTypes
  <2> QED BY <2>0, <2>1, <2>5, <2>6, BatchFrame
<1>3. CASE FinishWork(c)
  <2>1. UNCHANGED batchState /\ UNCHANGED <<closePending, inFlight, closed, loop, mailbox, worker>>
    BY <1>3 DEF FinishWork, batchState, factoryVars, batchVars, noteVars, statusVars
  <2>2. Opened' = Opened
    BY <2>1 DEF Opened, batchState
  <2> QED BY <2>1, <2>2, BatchFrame, KnownFrame, LoopFrame, RefusalsFrame DEF batchState
<1>4. CASE CallDrop(c) \/ \E kind \in {"close", "retire"} : CallClose(c, kind)
  <2>1. UNCHANGED batchState /\ UNCHANGED <<inFlight, closed, mailbox, worker>>
    BY <1>4 DEF CallDrop, CallClose, batchState, factoryVars, batchVars, noteVars,
                statusVars
  <2>2. Opened' = Opened
    BY <2>1 DEF Opened, batchState
  <2>3. c \in Opened /\ closePending' \subseteq closePending \cup {c}
    BY <1>4 DEF CallDrop, CallClose, Known
  <2>4. PICK kind \in {"close", "retire", "drop"} : loop' = [loop EXCEPT ![c] = kind]
    BY <1>4 DEF CallDrop, CallClose
  <2>5. LoopTypes' /\ Gone'
    BY <2>1, <2>4 DEF LoopTypes, Gone, batchState
  <2>6. Known'
    BY <2>1, <2>2, <2>3, <2>4 DEF Known, batchState, LoopTypes
  <2>7. Refusals'
    BY <2>1, RefusalsFrame DEF batchState
  <2> QED BY <2>1, <2>5, <2>6, <2>7, BatchFrame
<1> QED BY <1>1, <1>2, <1>3, <1>4 DEF Recipient

\* A worker at a place of its loop serves an existing connection.
LEMMA AtWork ==
    ASSUME LoopTypes, Known, NEW place \in Stations, WorkerAt(place)
    PROVE  /\ worker \in [at : Stations, connection : Handles] /\ worker # Idle
           /\ worker.at = place /\ worker.connection \in Handles
           /\ worker.connection \in Opened
BY DEF LoopTypes, Known, WorkerAt, Idle, Stations

\* Going on, it serves the same one.
LEMMA GoneOn ==
    ASSUME LoopTypes, Known, NEW place \in Stations, WorkerAt(place), NEW next \in Stations,
           Goto(next)
    PROVE  /\ worker' \in [at : Stations, connection : Handles] /\ worker' # Idle
           /\ worker'.at = next /\ worker'.connection = worker.connection
<1>1. /\ worker \in [at : Stations, connection : Handles]
      /\ worker' = [worker EXCEPT !.at = next]
  BY AtWork DEF Goto
<1>2. worker' \in [at : Stations, connection : Handles]
  BY <1>1
<1>3. worker'.at = next /\ worker'.connection = worker.connection
  BY <1>1
<1>4. next # "idle"
  BY DEF Stations
<1> QED BY <1>2, <1>3, <1>4 DEF Idle

\* The worker takes a step of its own: nothing of the batches changes.
LEMMA WorkerMoves ==
    ASSUME VersionInv, RetireConnection \/ MarkClosed \/ Refuse \/ RetireAgain
    PROVE  VersionInv'
<1> USE DEF VersionInv
<1>0. ASSUME worker' # Idle, worker'.at # "take" PROVE Refusals'
  BY <1>0 DEF Refusals
<1>1. UNCHANGED batchState /\ UNCHANGED <<closePending, loop>>
  BY DEF RetireConnection, MarkClosed, Refuse, RetireAgain, batchState, factoryVars,
         batchVars, noteVars, statusVars
<1>2. BatchInv' /\ Opened' = Opened
  BY <1>1, BatchFrame DEF Opened, batchState
<1>3. CASE RetireConnection
  <2>1. /\ mailbox \in Seq([connection : Handles, forced : BOOLEAN]) /\ mailbox # <<>>
        /\ mailbox' = Tail(mailbox) /\ closed' = closed
    BY <1>3 DEF RetireConnection, LoopTypes, statusVars
  <2>2. /\ Head(mailbox) \in [connection : Handles, forced : BOOLEAN]
        /\ 1 \in DOMAIN mailbox /\ Head(mailbox) = mailbox[1]
        /\ Tail(mailbox) \in Seq([connection : Handles, forced : BOOLEAN])
        /\ \A i \in DOMAIN Tail(mailbox) : /\ i + 1 \in DOMAIN mailbox
                                           /\ Tail(mailbox)[i] = mailbox[i + 1]
    BY <2>1, TailIsShift
  <2>3. PICK place \in {"unregister", "refuse"} :
           worker' = [at |-> place, connection |-> Head(mailbox).connection]
    BY <1>3 DEF RetireConnection
  <2>4. /\ worker' \in [at : Stations, connection : Handles] /\ worker' # Idle
        /\ worker'.at \in {"unregister", "refuse"} /\ worker'.connection \in Opened
    BY <2>2, <2>3 DEF Stations, Idle, Known
  <2>5. LoopTypes' /\ Gone'
    BY <1>1, <2>1, <2>2, <2>4 DEF LoopTypes, Gone, batchState
  <2>6. Known'
    BY <1>1, <1>2, <2>1, <2>2, <2>4 DEF Known, batchState
  <2> QED BY <1>0, <1>2, <2>4, <2>5, <2>6
<1>4. CASE MarkClosed
  <2>1. /\ WorkerAt("closed") /\ Goto("release") /\ mailbox' = mailbox
        /\ closed' = closed \cup {worker.connection}
    BY <1>4 DEF MarkClosed
  <2>2. "closed" \in Stations /\ "release" \in Stations
    BY DEF Stations
  <2>3. /\ worker' \in [at : Stations, connection : Handles] /\ worker' # Idle
        /\ worker'.at = "release" /\ worker'.connection = worker.connection
        /\ worker # Idle /\ worker.at = "closed" /\ worker.connection \in Opened
    BY <2>1, <2>2, GoneOn, AtWork
  <2>4. LoopTypes' /\ Gone'
    BY <1>1, <2>1, <2>3 DEF LoopTypes, Gone, batchState
  <2>5. Known'
    BY <1>1, <1>2, <2>1, <2>3 DEF Known, batchState
  <2> QED BY <1>0, <1>2, <2>3, <2>4, <2>5
<1>5. CASE Refuse
  <2>1. /\ WorkerAt("refuse") /\ Goto("again") /\ mailbox' = mailbox /\ closed' = closed
    BY <1>5 DEF Refuse
  <2>2. "refuse" \in Stations /\ "again" \in Stations
    BY DEF Stations
  <2>3. /\ worker' \in [at : Stations, connection : Handles] /\ worker' # Idle
        /\ worker'.at = "again" /\ worker'.connection = worker.connection
        /\ worker.connection \in Opened
    BY <2>1, <2>2, GoneOn, AtWork
  <2>4. LoopTypes' /\ Gone'
    BY <1>1, <2>1, <2>3 DEF LoopTypes, Gone, batchState
  <2>5. Known'
    BY <1>1, <1>2, <2>1, <2>3 DEF Known, batchState
  <2> QED BY <1>0, <1>2, <2>3, <2>4, <2>5
<1>6. CASE RetireAgain
  <2> DEFINE m == [connection |-> worker.connection, forced |-> TRUE]
  <2>1. /\ WorkerAt("again") /\ Goto("unhold") /\ closed' = closed
        /\ mailbox' = mailbox \/ mailbox' = Append(mailbox, m)
    BY <1>6 DEF RetireAgain
  <2>2. "again" \in Stations /\ "unhold" \in Stations
    BY DEF Stations
  <2>3. /\ worker' \in [at : Stations, connection : Handles] /\ worker' # Idle
        /\ worker'.at = "unhold" /\ worker'.connection = worker.connection
        /\ worker.connection \in Opened /\ worker.connection \in Handles
    BY <2>1, <2>2, GoneOn, AtWork
  <2>4. /\ m \in [connection : Handles, forced : BOOLEAN] /\ m.connection \in Opened
        /\ mailbox \in Seq([connection : Handles, forced : BOOLEAN])
        /\ \A i \in DOMAIN mailbox : mailbox[i].connection \in Opened
    BY <2>3 DEF LoopTypes, Known
  <2> HIDE DEF m
  <2>5. /\ mailbox' \in Seq([connection : Handles, forced : BOOLEAN])
        /\ \A i \in DOMAIN mailbox' : mailbox'[i].connection \in Opened
    <3>1. CASE mailbox' = mailbox
      BY <2>4, <3>1
    <3>2. CASE mailbox' = Append(mailbox, m)
      <4>1. \A i \in DOMAIN mailbox' :
            (i \in DOMAIN mailbox /\ mailbox'[i] = mailbox[i]) \/ mailbox'[i] = m
        BY <2>4, <3>2
      <4> QED BY <2>4, <3>2, <4>1
    <3> QED BY <2>1, <3>1, <3>2
  <2>6. LoopTypes' /\ Gone'
    BY <1>1, <2>1, <2>3, <2>5 DEF LoopTypes, Gone, batchState
  <2>7. Known'
    BY <1>1, <1>2, <2>1, <2>3, <2>5 DEF Known, batchState
  <2> QED BY <1>0, <1>2, <2>3, <2>6, <2>7
<1> QED BY <1>3, <1>4, <1>5, <1>6

\* Steps of the worker that answer for a connection or unregister it.
LEMMA WorkerAnswers ==
    ASSUME VersionInv, Unregister \/ Discard \/ Release \/ Unhold \/ TakeHeld
    PROVE  VersionInv'
<1> USE DEF VersionInv
<1>0. ASSUME worker' = Idle \/ worker'.at # "take" PROVE Refusals'
  BY <1>0 DEF Refusals
<1>1. CASE Unregister
  <2>1. /\ WorkerAt("unregister") /\ Goto("discard")
        /\ registered' = registered \ {worker.connection}
        /\ UNCHANGED <<stage, closePending, closed, snapshot, mailbox, loop>>
    BY <1>1 DEF Unregister, factoryVars, batchVars, statusVars
  <2>2. "unregister" \in Stations /\ "discard" \in Stations
    BY DEF Stations
  <2>3. /\ worker' \in [at : Stations, connection : Handles] /\ worker' # Idle
        /\ worker'.at # "take" /\ worker'.connection = worker.connection /\ worker.connection \in Opened
    BY <2>1, <2>2, GoneOn, AtWork
  <2>4. BatchInv' /\ Opened' = Opened
    BY <1>1, <2>1, UnregisterKeeps DEF Opened
  <2>5. LoopTypes' /\ Gone'
    BY <2>1, <2>3 DEF LoopTypes, Gone
  <2>6. Known'
    BY <2>1, <2>3, <2>4 DEF Known
  <2> QED BY <1>0, <2>3, <2>4, <2>5, <2>6
<1>2. CASE Discard
  <2>1. /\ WorkerAt("discard") /\ Goto("closed")
        /\ UNCHANGED <<stage, registered, closePending, closed, snapshot, mailbox, loop>>
    BY <1>2 DEF Discard, Complete, factoryVars, statusVars
  <2>2. "closed" \in Stations /\ "discard" \in Stations
    BY DEF Stations
  <2>3. /\ worker' \in [at : Stations, connection : Handles] /\ worker' # Idle
        /\ worker'.at # "take" /\ worker'.connection = worker.connection /\ worker.connection \in Opened
        /\ worker # Idle /\ worker.at = "discard" /\ worker.connection \in Handles
    BY <2>1, <2>2, GoneOn, AtWork
  <2>4. worker.connection \notin registered
    BY <2>3 DEF Gone
  <2>5. BatchInv' /\ Opened' = Opened
    BY <1>2, <2>1, <2>3, <2>4, DiscardKeeps DEF Opened
  <2>6. LoopTypes' /\ Gone'
    BY <2>1, <2>3, <2>4 DEF LoopTypes, Gone
  <2>7. Known'
    BY <2>1, <2>3, <2>5 DEF Known
  <2> QED BY <1>0, <2>3, <2>5, <2>6, <2>7
<1>3. CASE Release \/ TakeHeld
  <2>1. PICK place \in {"release", "take"} : WorkerAt(place)
    BY <1>3 DEF Release, TakeHeld
  <2>2. /\ worker # Idle /\ worker.at = place /\ worker.connection \in Handles
    BY <2>1, AtWork DEF Stations
  <2>3. /\ worker' = Idle /\ ReleaseHeld
        /\ UNCHANGED <<stage, plain, registered, closePending, closed, snapshot, mailbox, loop>>
    BY <1>3 DEF Release, TakeHeld, ReleaseHeld, Complete, factoryVars, statusVars
  <2>4. BatchInv'
    <3>1. BatchTypes
      BY DEF BatchInv
    <3>2. CASE Release
      <4>1. worker.connection \notin registered
        BY <2>2, <3>2 DEF Gone, Release, WorkerAt
      <4>2. late' = late /\ late \in [Factories -> SUBSET Handles]
        BY <3>1, <3>2 DEF Release, BatchTypes
      <4> QED BY <2>2, <2>3, <4>1, <4>2, ReleaseKeeps
    <3>3. CASE TakeHeld
      <4> DEFINE c == worker.connection
                 H == {f \in held[c] : c \in inFlight \ plain[f]}
      <4>1. /\ late' = [f \in Factories |-> IF f \in H THEN late[f] \cup {c} ELSE late[f]]
            /\ c \in Handles /\ late \in [Factories -> SUBSET Handles]
            /\ held[c] \subseteq Factories
        BY <2>2, <3>1, <3>3 DEF TakeHeld, Noted, BatchTypes
      <4>2. \A f \in held[c] : c \in plain[f] \/ f \in H
        BY <2>2, <3>3 DEF Refusals, TakeHeld, WorkerAt
      <4> HIDE DEF H
      <4>3. /\ late' \in [Factories -> SUBSET Handles]
            /\ \A f \in Factories : late[f] \subseteq late'[f]
            /\ \A f \in held[c] : c \in plain[f] \cup late'[f]
        BY <4>1, <4>2
      <4> QED BY <2>2, <2>3, <4>3, ReleaseKeeps
    <3> QED BY <1>3, <3>2, <3>3
  <2>5. LoopTypes' /\ Gone'
    BY <2>3 DEF LoopTypes, Gone
  <2>6. Known'
    BY <2>3 DEF Known, Opened
  <2> QED BY <1>0, <2>3, <2>4, <2>5, <2>6
<1>4. CASE Unhold
  <2> DEFINE c == worker.connection
  <2>1. /\ WorkerAt("unhold")
        /\ UNCHANGED <<stage, pending, blocked, snapshot, late, notifications, taken, held,
                       registered, closePending, inFlight, closed, mailbox, loop>>
    BY <1>4 DEF Unhold, factoryVars, noteVars, statusVars
  <2>2. "unhold" \in Stations /\ "take" \in Stations
    BY DEF Stations
  <2>3. /\ worker # Idle /\ c \in Handles /\ c \in Opened
    BY <2>1, <2>2, AtWork
  <2>4. BatchTypes /\ held[c] \subseteq Factories
    BY <2>3 DEF BatchInv, BatchTypes
  <2>5. /\ plain' \in [Factories -> SUBSET Handles]
        /\ \A f \in Factories : plain[f] \subseteq plain'[f]
    <3>1. CASE c \in inFlight
      BY <1>4, <2>4, <3>1 DEF Unhold, BatchTypes
    <3>2. CASE c \notin inFlight
      <4>1. plain' = [f \in Factories |-> IF f \in held[c] THEN plain[f] \cup {c} ELSE plain[f]]
        BY <1>4, <3>2 DEF Unhold, Noted
      <4>2. plain \in [Factories -> SUBSET Handles]
        BY <2>4 DEF BatchTypes
      <4> QED BY <2>3, <4>1, <4>2
    <3> QED BY <3>1, <3>2
  <2>6. BatchInv'
    <3>1. \A f \in Factories : Outstanding(f)' = Outstanding(f) /\ Causes(f) \subseteq Causes(f)'
      BY <2>1, <2>5 DEF Outstanding, Causes
    <3>2. BatchTypes' /\ Distinct' /\ Unasked' /\ Counted'
      BY <2>1, <2>5, <3>1 DEF BatchInv, BatchTypes, Distinct, Unasked, Counted
    <3>3. Accounted' /\ NoSpuriousBlocked'
      BY <2>1, <3>1 DEF BatchInv, Accounted, NoSpuriousBlocked, Causes
    <3> QED BY <3>2, <3>3 DEF BatchInv
  <2>7. /\ worker' = Idle \/ (worker' \in [at : Stations, connection : Handles] /\ worker'.at = "take"
                             /\ worker'.connection = c /\ c \notin inFlight)
    BY <1>4, <2>1, <2>2, GoneOn DEF Unhold
  <2>8. LoopTypes' /\ Gone'
    BY <2>1, <2>7 DEF LoopTypes, Gone
  <2>9. Known'
    BY <2>1, <2>3, <2>7 DEF Known, Opened
  <2>10. Refusals'
    <3>1. CASE c \in inFlight
      BY <1>0, <1>4, <3>1 DEF Unhold
    <3>2. CASE c \notin inFlight
      <4>1. \A f \in held[c] : c \in plain'[f]
        BY <1>4, <2>4, <3>2 DEF Unhold, Noted
      <4> QED BY <2>1, <2>7, <4>1 DEF Refusals, Idle
    <3> QED BY <3>1, <3>2
  <2> QED BY <2>6, <2>8, <2>9, <2>10
<1> QED BY <1>1, <1>2, <1>3, <1>4

\* A stuttering step keeps everything.
LEMMA VersionStutter ==
    ASSUME VersionInv, UNCHANGED versionVars
    PROVE  VersionInv'
<1>1. UNCHANGED batchState /\ UNCHANGED <<closePending, inFlight, closed, loop, mailbox, worker>>
  BY DEF versionVars, batchState, factoryVars, batchVars, noteVars, statusVars
<1>2. Opened' = Opened
  BY <1>1 DEF Opened, batchState
<1> QED BY <1>1, <1>2, BatchFrame, KnownFrame, LoopFrame, RefusalsFrame DEF batchState, VersionInv

\* The inductive invariant of version changes holds in every state.
THEOREM VersionInvariant == VersionSpec => []VersionInv
<1>1. VersionInit => VersionInv
  BY VersionStart
<1>2. VersionInv /\ [VersionNext]_versionVars => VersionInv'
  BY RequestStep, RecipientStep, WorkerMoves, WorkerAnswers, VersionStutter
     DEF VersionNext, Worker
<1> QED BY <1>1, <1>2, PTL DEF VersionSpec

\* A batch counts exactly the acknowledgements that are out, and is decided as
\* soon as, and no sooner than, the last is given (VersionChangeBatch and
\* VersionChangeCompletion::drop), for any requests and connections.
THEOREM BatchesCountAnswers ==
    VersionSpec => []AcknowledgementsExact
<1>1. VersionInv => AcknowledgementsExact
  BY DEF VersionInv, BatchInv, Counted, AcknowledgementsExact
<1> QED BY <1>1, VersionInvariant, PTL

\* "blocked" is due only when some connection stayed open beyond its own event,
\* or a close was accepted between the load and the take of an earlier refusal;
\* never otherwise for a connection whose close was accepted during the event,
\* however the acknowledgement, the unregistration and the publication of
\* closed interleave (VersionChangeBatch, ConnectionNotifications::unregister).
THEOREM BlockedIsCaused ==
    VersionSpec => []NoSpuriousBlocked
<1>1. VersionInv => NoSpuriousBlocked
  BY DEF VersionInv, BatchInv
<1> QED BY <1>1, VersionInvariant, PTL
=============================================================================
