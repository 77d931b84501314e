----------------------------- MODULE DnsResolver -----------------------------
(***************************************************************************)
(* moli-dns-resolver: the process-wide DNS service.  Lookups of one        *)
(* partition for one target share a worker command while it is in flight;  *)
(* positive answers are cached for a fixed time; a fixed pool of threads   *)
(* runs the blocking system lookups and then the completions.              *)
(*                                                                         *)
(* Each section under the state mutex (admit, finish) is one step; sending *)
(* the command, the lookup and every completion happen outside it.  A      *)
(* request is one call of resolve; it may come from any thread, a resolver *)
(* worker inside another request's completion included.  The branch of     *)
(* resolve for a closed command channel needs every worker gone while the  *)
(* service is alive, which neither shutdown (it owns the service) nor a    *)
(* panic (the profiles abort) can bring about.                             *)
(***************************************************************************)
EXTENDS Integers, Sequences, SequencesExt, FiniteSets

CONSTANTS
    Requests,       \* calls of resolve
    Partitions,     \* DnsCachePartition: one per network runtime
    Targets,        \* DnsTarget: host and port
    Reserved,       \* the targets under the .invalid domain
    Workers,        \* threads of the pool
    TTL,            \* positive_cache_ttl
    MaxTime         \* bound on the clock

ASSUME DnsAssumption ==
    /\ Reserved \subseteq Targets
    /\ TTL \in Nat \ {0}
    /\ MaxTime \in Nat
    /\ IsFiniteSet(Workers) /\ Workers # {}

\* DnsLookupKey
Key == [partition : Partitions, target : Targets]

Resolve(k) == [kind |-> "resolve", key |-> k]
Shutdown == [kind |-> "shutdown"]

Idle == [at |-> "idle"]
Exited == [at |-> "exited"]

VARIABLES
    now,            \* the clock
    phase,          \* how far a call of resolve has come
    asked,          \* the key each request asks for
    inFlight,       \* DnsResolverState::in_flight: key -> completions
    answers,        \* DnsPositiveCache::answers: key -> expires_at
    expirations,    \* DnsPositiveCache::expirations: (instant, key) pairs
    commands,       \* the worker command channel
    worker,         \* what each pool thread is doing
    replies,        \* history: the results each completion was called with
    service         \* "open", or "stopping" once it is being dropped

vars == <<now, phase, asked, inFlight, answers, expirations, commands, worker,
          replies, service>>

\* A function without the keys in K.
Without(f, K) == [k \in DOMAIN f \ K |-> f[k]]

\* A function with k set to v.
With(f, k, v) == [j \in DOMAIN f \cup {k} |-> IF j = k THEN v ELSE f[j]]

\* DnsWorkerPool::start: every thread waits for a command.
PoolStarted == [w \in Workers |-> Idle]

Init ==
    /\ now = 0
    /\ phase = [r \in Requests |-> "new"]
    /\ asked = <<>>
    /\ inFlight = <<>>
    /\ answers = <<>>
    /\ expirations = {}
    /\ commands = <<>>
    /\ worker = PoolStarted
    /\ replies = [r \in Requests |-> <<>>]
    /\ service = "open"

\* A completion is called with the result of a lookup for key k.
Reply(r, k, ok) ==
    replies' = [replies EXCEPT ![r] = Append(@, [from |-> k, ok |-> ok])]

-----------------------------------------------------------------------------
(* DnsPositiveCache                                                        *)

\* retire_expired: the due buckets, and the answers they name that are due.
Due == {e \in expirations : e[1] <= now}
Retired == {k \in DOMAIN answers : answers[k] <= now /\ \E e \in Due : e[2] = k}

\* Fault: an expired answer is served until its bucket is retired.
CacheGetStale(k) ==
    /\ UNCHANGED <<answers, expirations>>
    /\ k \in DOMAIN answers

\* get: retire what is due, then look up the exact key.  Its own expiry guard
\* finds nothing left to do (IndexExact).
CacheGet(k) ==
    /\ expirations' = expirations \ Due
    /\ answers' = Without(answers, Retired)
    /\ k \in DOMAIN answers \ Retired

\* get, when it returns None.
CacheMiss(k) ==
    /\ expirations' = expirations \ Due
    /\ answers' = Without(answers, Retired \cup
                     {j \in {k} \cap DOMAIN answers : answers[j] <= now})
    /\ k \notin DOMAIN answers'

\* insert
CacheInsert(k) ==
    /\ answers' = With(answers, k, now + TTL)
    /\ expirations' = expirations \cup {<<now + TTL, k>>}

-----------------------------------------------------------------------------
(* resolve                                                                 *)

\* target_is_reserved_invalid
TargetIsReserved(k) == k.target \in Reserved

\* The call starts: an entry of the new request.
Asks(r, k) ==
    /\ service = "open" /\ phase[r] = "new"
    /\ asked' = With(asked, r, k)

\* A name under .invalid is refused on the caller, before any state.
RejectReserved(r, k) ==
    /\ Asks(r, k) /\ TargetIsReserved(k)
    /\ phase' = [phase EXCEPT ![r] = "done"]
    /\ Reply(r, k, FALSE)
    /\ UNCHANGED <<now, inFlight, answers, expirations, commands, worker,
                   service>>

\* Fault: a hit also joins a lookup in flight, or starts one.
AdmitCachedTwice(r, k) ==
    /\ Asks(r, k) /\ ~TargetIsReserved(k)
    /\ CacheGet(k)
    /\ inFlight' = With(inFlight, k, IF k \in DOMAIN inFlight
                                     THEN Append(inFlight[k], r) ELSE <<r>>)
    /\ phase' = [phase EXCEPT ![r] = "cached"]
    /\ UNCHANGED <<now, commands, worker, replies, service>>

\* admit: CompleteCached.
AdmitCached(r, k) ==
    /\ Asks(r, k) /\ ~TargetIsReserved(k)
    /\ CacheGet(k)
    /\ phase' = [phase EXCEPT ![r] = "cached"]
    /\ UNCHANGED <<now, inFlight, commands, worker, replies, service>>

\* admit: Coalesced.
AdmitCoalesced(r, k) ==
    /\ Asks(r, k) /\ ~TargetIsReserved(k)
    /\ CacheMiss(k)
    /\ k \in DOMAIN inFlight
    /\ inFlight' = [inFlight EXCEPT ![k] = Append(@, r)]
    /\ phase' = [phase EXCEPT ![r] = "waiting"]
    /\ UNCHANGED <<now, commands, worker, replies, service>>

\* admit: Start.
AdmitStart(r, k) ==
    /\ Asks(r, k) /\ ~TargetIsReserved(k)
    /\ CacheMiss(k)
    /\ k \notin DOMAIN inFlight
    /\ inFlight' = With(inFlight, k, <<r>>)
    /\ phase' = [phase EXCEPT ![r] = "starting"]
    /\ UNCHANGED <<now, commands, worker, replies, service>>

\* After the lock: the completion of a hit runs on the caller.
AnswerCached(r) ==
    /\ phase[r] = "cached"
    /\ Reply(r, asked[r], TRUE)
    /\ phase' = [phase EXCEPT ![r] = "done"]
    /\ UNCHANGED <<now, asked, inFlight, answers, expirations, commands, worker,
                   service>>

\* After the lock: DnsWorkerPool::resolve sends the only command of the key.
SendCommand(r) ==
    /\ phase[r] = "starting"
    /\ commands' = Append(commands, Resolve(asked[r]))
    /\ phase' = [phase EXCEPT ![r] = "waiting"]
    /\ UNCHANGED <<now, asked, inFlight, answers, expirations, worker, replies,
                   service>>

-----------------------------------------------------------------------------
(* Worker pool                                                             *)

\* run_worker takes a command: a lookup begins, or the thread returns.
Receive(w) ==
    /\ worker[w] = Idle /\ commands # <<>>
    /\ commands' = Tail(commands)
    /\ LET c == Head(commands)
       IN  worker' = [worker EXCEPT ![w] =
              IF c.kind = "shutdown" THEN Exited
              ELSE [at |-> "lookup", key |-> c.key]]
    /\ UNCHANGED <<now, phase, asked, inFlight, answers, expirations, replies,
                   service>>

\* system_dns_lookup succeeds with addresses, or fails: an error of the system
\* resolver or an empty answer.
SystemDnsLookup == {TRUE, FALSE}

\* Fault: a lookup that fails is dropped without being published.
PublishOnlySuccess(w) ==
    /\ worker[w].at = "lookup"
    /\ LET k == worker[w].key
       IN  \/ /\ CacheInsert(k)
              /\ inFlight' = Without(inFlight, {k})
              /\ worker' = [worker EXCEPT ![w] =
                    [at |-> "complete", key |-> k, ok |-> TRUE, rest |-> inFlight[k]]]
           \/ /\ worker' = [worker EXCEPT ![w] = Idle]
              /\ UNCHANGED <<answers, expirations, inFlight>>
    /\ UNCHANGED <<now, phase, asked, commands, replies, service>>

\* Fault: the entry of a failed lookup stays in flight.
PublishKeepsFailedEntry(w) ==
    /\ worker[w].at = "lookup"
    /\ LET k == worker[w].key
       IN  \E ok \in SystemDnsLookup :
              /\ IF ok THEN CacheInsert(k) ELSE UNCHANGED <<answers, expirations>>
              /\ inFlight' = IF ok THEN Without(inFlight, {k}) ELSE inFlight
              /\ worker' = [worker EXCEPT ![w] =
                    [at |-> "complete", key |-> k, ok |-> ok, rest |-> inFlight[k]]]
    /\ UNCHANGED <<now, phase, asked, commands, replies, service>>

\* The system lookup returns and finish takes every completion of the key;
\* only success is cached.
Publish(w) ==
    /\ worker[w].at = "lookup"
    /\ LET k == worker[w].key
       IN  \E ok \in SystemDnsLookup :
              /\ IF ok THEN CacheInsert(k) ELSE UNCHANGED <<answers, expirations>>
              /\ inFlight' = Without(inFlight, {k})
              /\ worker' = [worker EXCEPT ![w] =
                    [at |-> "complete", key |-> k, ok |-> ok,
                     rest |-> IF k \in DOMAIN inFlight THEN inFlight[k] ELSE <<>>]]
    /\ UNCHANGED <<now, phase, asked, commands, replies, service>>

\* publish_lookup_result calls the completions one after the other, unlocked.
Complete(w) ==
    /\ worker[w].at = "complete" /\ worker[w].rest # <<>>
    /\ LET r == Head(worker[w].rest)
       IN  /\ Reply(r, worker[w].key, worker[w].ok)
           /\ phase' = [phase EXCEPT ![r] = IF @ = "waiting" THEN "done" ELSE @]
    /\ worker' = [worker EXCEPT ![w].rest = Tail(@)]
    /\ UNCHANGED <<now, asked, inFlight, answers, expirations, commands, service>>

CompleteDone(w) ==
    /\ worker[w].at = "complete" /\ worker[w].rest = <<>>
    /\ worker' = [worker EXCEPT ![w] = Idle]
    /\ UNCHANGED <<now, phase, asked, inFlight, answers, expirations, commands,
                   replies, service>>

Shutdowns == [i \in 1..Cardinality(Workers) |-> Shutdown]

\* No call of resolve is under way: the service can be dropped.
NoCaller == \A r \in Requests : phase[r] \notin {"cached", "starting"}

\* Fault: shutdown overtakes the lookups already queued.
StopWorkersFirst ==
    /\ service = "open" /\ NoCaller
    /\ service' = "stopping"
    /\ commands' = Shutdowns \o commands
    /\ UNCHANGED <<now, phase, asked, inFlight, answers, expirations, worker,
                   replies>>

\* stop_workers: one Shutdown per thread behind everything queued; the drop
\* then joins the threads.
StopWorkers ==
    /\ service = "open" /\ NoCaller
    /\ service' = "stopping"
    /\ commands' = commands \o Shutdowns
    /\ UNCHANGED <<now, phase, asked, inFlight, answers, expirations, worker,
                   replies>>

Tick ==
    /\ now < MaxTime
    /\ now' = now + 1
    /\ UNCHANGED <<phase, asked, inFlight, answers, expirations, commands, worker,
                   replies, service>>

-----------------------------------------------------------------------------
Caller(r) ==
    \/ \E k \in Key : \/ RejectReserved(r, k) \/ AdmitCached(r, k)
                      \/ AdmitCoalesced(r, k) \/ AdmitStart(r, k)
    \/ AnswerCached(r) \/ SendCommand(r)

Worker(w) == Receive(w) \/ Publish(w) \/ Complete(w) \/ CompleteDone(w)

Next ==
    \/ \E r \in Requests : Caller(r)
    \/ \E w \in Workers : Worker(w)
    \/ StopWorkers
    \/ Tick

Spec == Init /\ [][Next]_vars

\* A call that has begun ends; pool threads run, and the system lookup and
\* the completions they call return.
Fairness ==
    /\ \A r \in Requests : WF_vars(AnswerCached(r) \/ SendCommand(r))
    /\ \A w \in Workers : WF_vars(Worker(w))

FairSpec == Spec /\ Fairness

-----------------------------------------------------------------------------
(* Properties                                                              *)

Expiry == 1..(MaxTime + TTL)

WorkerState ==
    {Idle, Exited} \cup [at : {"lookup"}, key : Key]
       \cup [at : {"complete"}, key : Key, ok : BOOLEAN, rest : Seq(Requests)]

IsMap(f, S, T) == DOMAIN f \subseteq S /\ \A x \in DOMAIN f : f[x] \in T

\* Every variable has its type.
TypeOK ==
    /\ now \in 0..MaxTime
    /\ phase \in [Requests -> {"new", "cached", "starting", "waiting", "done"}]
    /\ IsMap(asked, Requests, Key)
    /\ IsMap(inFlight, Key, Seq(Requests) \ {<<>>})
    /\ IsMap(answers, Key, Expiry)
    /\ expirations \subseteq Expiry \X Key
    /\ commands \in Seq({Shutdown} \cup {Resolve(k) : k \in Key})
    /\ worker \in [Workers -> WorkerState]
    /\ replies \in [Requests -> Seq([from : Key, ok : BOOLEAN])]
    /\ service \in {"open", "stopping"}

\* Where the completion of a request can be.
InTable(r) == {k \in DOMAIN inFlight : r \in ToSet(inFlight[k])}
WithWorker(r) ==
    {w \in Workers : worker[w].at = "complete" /\ r \in ToSet(worker[w].rest)}

\* "The callback is consumed exactly once": a request whose call has begun
\* is in one place only, waiting or answered, whatever the interleaving of
\* admission, publication and completion.
ConsumedOnce ==
    \A r \in Requests :
        Cardinality(InTable(r)) + Cardinality(WithWorker(r)) + Len(replies[r])
            + (IF phase[r] = "cached" THEN 1 ELSE 0)
          = IF phase[r] = "new" THEN 0 ELSE 1

\* Who owns the one worker command of a key: a caller about to send it, the
\* channel, or a worker looking it up.
Owners(k) ==
    {<<"caller", r>> : r \in {q \in Requests : phase[q] = "starting" /\ asked[q] = k}}
      \cup {<<"queued", i>> : i \in {j \in DOMAIN commands : commands[j] = Resolve(k)}}
      \cup {<<"worker", w>> : w \in {v \in Workers : worker[v].at = "lookup"
                                                     /\ worker[v].key = k}}

\* "A Start result means this call owns the only worker command for the key":
\* a key is in flight exactly while one command for it exists, so nobody
\* coalesces with a lookup that will never finish.
OneCommandPerKey ==
    \A k \in Key : Cardinality(Owners(k)) = IF k \in DOMAIN inFlight THEN 1 ELSE 0

\* The expiry index names every cached answer exactly once, at its deadline:
\* an answer is never retired by an older entry and none is left behind.
IndexExact == expirations = {<<answers[k], k>> : k \in DOMAIN answers}

\* A cached answer is served only before it expires, and never while a lookup
\* for the same key is in flight.
HitIsFresh ==
    [][\A r \in Requests : phase[r] = "new" /\ phase'[r] = "cached" =>
          LET k == asked'[r]
          IN  k \in DOMAIN answers /\ now < answers[k] /\ k \notin DOMAIN inFlight]_vars

\* Answers never cross a partition: a completion only sees a lookup made for
\* its own partition and target.
OwnPartitionOnly ==
    \A r \in Requests : \A i \in DOMAIN replies[r] : replies[r][i].from = asked[r]

\* Each callback runs once and sees its own partition's answer; the expiry
\* index behind the shared cache stays exact meanwhile.
AnsweredExactly == TypeOK /\ ConsumedOnce /\ OwnPartitionOnly /\ IndexExact

\* Dropping the service joins the pool only after every accepted lookup has
\* been answered.
ShutdownStrandsNobody ==
    (\A w \in Workers : worker[w] = Exited) =>
        /\ commands = <<>> /\ inFlight = <<>>
        /\ \A r \in Requests : phase[r] \in {"new", "done"}

\* Every call of resolve is answered in the end.
EveryLookupAnswered ==
    \A r \in Requests : phase[r] # "new" ~> replies[r] # <<>>
=============================================================================
