-------------------------- MODULE DnsResolverProofs --------------------------
(***************************************************************************)
(* What the shared resolver guarantees for any requests, partitions,       *)
(* targets and pool size: one command per key in flight, every callback    *)
(* consumed once and by its own partition's answer, a cache that serves    *)
(* nothing stale, and a shutdown that strands nobody.                      *)
(***************************************************************************)
EXTENDS DnsResolver, FiniteSetTheorems, TLAPS

-----------------------------------------------------------------------------
(* The cache: a key is never cached and in flight at once.                 *)

IsFunction(f) == f = [x \in DOMAIN f |-> f[x]]

CacheInv ==
    /\ TypeOK /\ IsFunction(inFlight)
    /\ IndexExact
    /\ DOMAIN answers \cap DOMAIN inFlight = {}

(* The commands: every key in flight has one owner of its command, and no  *)
(* other key has any.                                                      *)

Starting(r, k) == phase[r] = "starting" /\ asked[r] = k
Queued(n, k) == commands[n] = Resolve(k)
Looking(w, k) == worker[w].at = "lookup" /\ worker[w].key = k

OwnedInFlight ==
    \A k \in Key :
        /\ \A r \in Requests : Starting(r, k) => k \in DOMAIN inFlight
        /\ \A n \in 1 .. Len(commands) : Queued(n, k) => k \in DOMAIN inFlight
        /\ \A w \in Workers : Looking(w, k) => k \in DOMAIN inFlight
OwnerAlone ==
    \A k \in Key :
        /\ \A r, q \in Requests : Starting(r, k) /\ Starting(q, k) => r = q
        /\ \A m, n \in 1 .. Len(commands) : Queued(m, k) /\ Queued(n, k) => m = n
        /\ \A v, w \in Workers : Looking(v, k) /\ Looking(w, k) => v = w
        /\ \A r \in Requests, n \in 1 .. Len(commands) : ~(Starting(r, k) /\ Queued(n, k))
        /\ \A r \in Requests, w \in Workers : ~(Starting(r, k) /\ Looking(w, k))
        /\ \A n \in 1 .. Len(commands), w \in Workers : ~(Queued(n, k) /\ Looking(w, k))
OwnerThere ==
    \A k \in DOMAIN inFlight :
        \/ \E r \in Requests : Starting(r, k)
        \/ \E n \in 1 .. Len(commands) : Queued(n, k)
        \/ \E w \in Workers : Looking(w, k)

CommandInv == OwnedInFlight /\ OwnerAlone /\ OwnerThere

(* The completions: a request is at one position of one list, or answered. *)

Waits(r, k) == \E n \in 1 .. Len(inFlight[k]) : inFlight[k][n] = r
Held(r, w) ==
    worker[w].at = "complete" /\ \E n \in 1 .. Len(worker[w].rest) : worker[w].rest[n] = r

ListsDistinct ==
    /\ \A k \in DOMAIN inFlight : \A m, n \in 1 .. Len(inFlight[k]) :
           inFlight[k][m] = inFlight[k][n] => m = n
    /\ \A w \in Workers : worker[w].at = "complete" => \A m, n \in 1 .. Len(worker[w].rest) :
           worker[w].rest[m] = worker[w].rest[n] => m = n
TablePlaces ==
    \A r \in Requests, k \in DOMAIN inFlight : Waits(r, k) =>
        /\ r \in DOMAIN asked /\ asked[r] = k
        /\ phase[r] \in {"starting", "waiting"}
WorkerPlaces ==
    \A r \in Requests, w \in Workers : Held(r, w) =>
        /\ r \in DOMAIN asked /\ asked[r] = worker[w].key
        /\ phase[r] = "waiting"
        /\ \A k \in DOMAIN inFlight : ~Waits(r, k)
        /\ \A v \in Workers : Held(r, v) => v = w
Placed ==
    \A r \in Requests :
        /\ phase[r] = "starting" => \E k \in DOMAIN inFlight : Waits(r, k)
        /\ phase[r] = "waiting" => \/ \E k \in DOMAIN inFlight : Waits(r, k)
                                   \/ \E w \in Workers : Held(r, w)
Replied ==
    \A r \in Requests :
        /\ phase[r] # "new" <=> r \in DOMAIN asked
        /\ Len(replies[r]) = IF phase[r] = "done" THEN 1 ELSE 0

PlaceInv == ListsDistinct /\ TablePlaces /\ WorkerPlaces /\ Placed /\ Replied /\ OwnPartitionOnly

(* The shutdown: one command per thread that has not returned, behind      *)
(* every lookup, and none before the service stops.                        *)

ExitedWorkers == {w \in Workers : worker[w] = Exited}

StopInv ==
    \E n \in 0 .. Len(commands) :
        /\ \A i \in 1 .. Len(commands) : commands[i].kind = IF i <= n THEN "resolve" ELSE "shutdown"
        /\ service = "open" => ExitedWorkers = {} /\ n = Len(commands)
        /\ service = "stopping" =>
              /\ NoCaller
              /\ (Len(commands) - n) + Cardinality(ExitedWorkers) = Cardinality(Workers)
              /\ ExitedWorkers # {} => n = 0

DnsInv == CacheInv /\ CommandInv /\ PlaceInv /\ StopInv

-----------------------------------------------------------------------------
(* The helpers of the model.                                               *)

\* With adds one entry and keeps the others.
LEMMA WithFacts ==
    ASSUME NEW f, NEW x, NEW v
    PROVE  /\ DOMAIN With(f, x, v) = DOMAIN f \cup {x}
           /\ With(f, x, v)[x] = v
           /\ \A y \in DOMAIN f \ {x} : With(f, x, v)[y] = f[y]
           /\ IsFunction(With(f, x, v))
BY DEF With, IsFunction

\* Without drops entries and keeps the others.
LEMMA WithoutFacts ==
    ASSUME NEW f, NEW K
    PROVE  /\ DOMAIN Without(f, K) = DOMAIN f \ K
           /\ \A y \in DOMAIN f \ K : Without(f, K)[y] = f[y]
           /\ IsFunction(Without(f, K))
BY DEF Without, IsFunction

\* With an exact index retire_expired retires exactly the expired answers.
LEMMA RetiredExact ==
    ASSUME TypeOK, IndexExact
    PROVE  Retired = {k \in DOMAIN answers : answers[k] <= now}
<1>1. ASSUME NEW k \in DOMAIN answers, answers[k] <= now
      PROVE  \E e \in Due : e[2] = k
    <2>1. <<answers[k], k>> \in expirations
        BY DEF IndexExact
    <2>2. <<answers[k], k>> \in Due
        BY <1>1, <2>1 DEF Due
    <2> QED BY <2>2
<1> QED
    BY <1>1 DEF Retired

\* Retiring keeps the index exact.
LEMMA RetireKeeps ==
    ASSUME TypeOK, IndexExact, expirations' = expirations \ Due,
           answers' = Without(answers, {k \in DOMAIN answers : answers[k] <= now})
    PROVE  /\ IsMap(answers, Key, Expiry)' /\ expirations' \subseteq Expiry \X Key
           /\ IndexExact'
           /\ DOMAIN answers' = {k \in DOMAIN answers : ~(answers[k] <= now)}
<1> DEFINE Old == {k \in DOMAIN answers : answers[k] <= now}
<1>1. /\ DOMAIN answers' = DOMAIN answers \ Old
      /\ \A k \in DOMAIN answers \ Old : answers'[k] = answers[k]
    BY WithoutFacts
<1>2. IsMap(answers, Key, Expiry)' /\ expirations' \subseteq Expiry \X Key
    BY <1>1 DEF TypeOK, IsMap
<1>3. ASSUME NEW e \in expirations' PROVE \E k \in DOMAIN answers' : e = <<answers'[k], k>>
    <2>1. PICK k \in DOMAIN answers : e = <<answers[k], k>>
        BY <1>3 DEF IndexExact
    <2>2. ~(e[1] <= now)
        BY <1>3 DEF Due
    <2>3. k \notin Old
        BY <2>1, <2>2
    <2> QED BY <1>1, <2>1, <2>3
<1>4. ASSUME NEW k \in DOMAIN answers' PROVE <<answers'[k], k>> \in expirations'
    <2>1. k \in DOMAIN answers /\ ~(answers[k] <= now) /\ answers'[k] = answers[k]
        BY <1>1
    <2>2. <<answers[k], k>> \in expirations
        BY <2>1 DEF IndexExact
    <2>3. <<answers[k], k>> \notin Due
        BY <2>1 DEF Due
    <2> QED BY <2>1, <2>2, <2>3
<1>5. IndexExact'
    BY <1>3, <1>4 DEF IndexExact
<1> QED
    BY <1>1, <1>2, <1>5

\* A hit: what is served has not expired.
LEMMA GetKeeps ==
    ASSUME TypeOK, IndexExact, NEW k \in Key, CacheGet(k)
    PROVE  /\ IsMap(answers, Key, Expiry)' /\ expirations' \subseteq Expiry \X Key
           /\ IndexExact'
           /\ DOMAIN answers' \subseteq DOMAIN answers
           /\ k \in DOMAIN answers /\ now < answers[k]
<1>1. k \in DOMAIN answers /\ ~(answers[k] <= now)
    BY RetiredExact DEF CacheGet
<1>2. now < answers[k]
    BY <1>1 DEF TypeOK, IsMap, Expiry
<1>3. answers' = Without(answers, {j \in DOMAIN answers : answers[j] <= now}) /\ expirations' = expirations \ Due
    BY RetiredExact DEF CacheGet
<1> QED
    BY <1>1, <1>2, <1>3, RetireKeeps

\* A miss: its own expiry guard finds nothing left, and the key is not cached.
LEMMA MissKeeps ==
    ASSUME TypeOK, IndexExact, NEW k \in Key, CacheMiss(k)
    PROVE  /\ IsMap(answers, Key, Expiry)' /\ expirations' \subseteq Expiry \X Key
           /\ IndexExact'
           /\ DOMAIN answers' \subseteq DOMAIN answers \ {k}
<1>1. Retired \cup {j \in {k} \cap DOMAIN answers : answers[j] <= now}
        = {j \in DOMAIN answers : answers[j] <= now}
    BY RetiredExact
<1>2. answers' = Without(answers, {j \in DOMAIN answers : answers[j] <= now}) /\ expirations' = expirations \ Due
    BY <1>1 DEF CacheMiss
<1> QED
    BY <1>2, RetireKeeps DEF CacheMiss

\* An insertion of a key that is not cached keeps the index exact.
LEMMA InsertKeeps ==
    ASSUME TypeOK, IndexExact, NEW k \in Key, k \notin DOMAIN answers, CacheInsert(k)
    PROVE  /\ IsMap(answers, Key, Expiry)' /\ expirations' \subseteq Expiry \X Key
           /\ IndexExact'
           /\ DOMAIN answers' = DOMAIN answers \cup {k}
<1>1. /\ DOMAIN answers' = DOMAIN answers \cup {k} /\ answers'[k] = now + TTL
      /\ \A j \in DOMAIN answers : answers'[j] = answers[j]
    <2>1. answers' = With(answers, k, now + TTL)
        BY DEF CacheInsert
    <2>2. DOMAIN answers \ {k} = DOMAIN answers
        OBVIOUS
    <2> QED BY <2>1, <2>2 DEF With
<1>2. now + TTL \in Expiry
    BY DnsAssumption DEF TypeOK, Expiry
<1>3. IsMap(answers, Key, Expiry)'
    BY <1>1, <1>2 DEF TypeOK, IsMap
<1>4. expirations' = expirations \cup {<<now + TTL, k>>}
    BY DEF CacheInsert
<1>5. expirations' \subseteq Expiry \X Key
    BY <1>2, <1>4 DEF TypeOK
<1>6. IndexExact'
    BY <1>1, <1>4 DEF IndexExact
<1> QED
    BY <1>1, <1>3, <1>5, <1>6

-----------------------------------------------------------------------------
(* Callers.                                                                *)

\* A new request is unknown to the table, to the workers and to the history.
LEMMA AsksFacts ==
    ASSUME DnsInv, NEW r \in Requests, NEW k \in Key, Asks(r, k)
    PROVE  /\ service = "open" /\ phase[r] = "new" /\ r \notin DOMAIN asked
           /\ DOMAIN asked' = DOMAIN asked \cup {r} /\ asked'[r] = k
           /\ \A q \in DOMAIN asked : asked'[q] = asked[q]
           /\ IsMap(asked, Requests, Key)'
           /\ Len(replies[r]) = 0
           /\ \A j \in DOMAIN inFlight : ~Waits(r, j)
           /\ \A w \in Workers : ~Held(r, w)
<1>1. service = "open" /\ phase[r] = "new" /\ asked' = With(asked, r, k)
    BY DEF Asks
<1>2. r \notin DOMAIN asked /\ Len(replies[r]) = 0
    BY <1>1 DEF DnsInv, PlaceInv, Replied
<1>3. /\ DOMAIN asked' = DOMAIN asked \cup {r} /\ asked'[r] = k
      /\ \A q \in DOMAIN asked : asked'[q] = asked[q]
    <2>1. DOMAIN asked \ {r} = DOMAIN asked
        BY <1>2
    <2> QED BY <1>1, <2>1 DEF With
<1>4. IsMap(asked, Requests, Key)'
    BY <1>3 DEF DnsInv, CacheInv, TypeOK, IsMap
<1>5. (\A j \in DOMAIN inFlight : ~Waits(r, j)) /\ (\A w \in Workers : ~Held(r, w))
    BY <1>2 DEF DnsInv, PlaceInv, TablePlaces, WorkerPlaces
<1> QED
    BY <1>1, <1>2, <1>3, <1>4, <1>5

\* A completion appends one result of its key and touches no other request.
LEMMA ReplyFacts ==
    ASSUME TypeOK, NEW r \in Requests, NEW e \in [from : Key, ok : BOOLEAN],
           Len(replies[r]) = 0, replies' = [replies EXCEPT ![r] = Append(@, e)]
    PROVE  /\ replies' \in [Requests -> Seq([from : Key, ok : BOOLEAN])]
           /\ Len(replies'[r]) = 1
           /\ \A i \in DOMAIN replies'[r] : replies'[r][i].from = e.from
           /\ \A q \in Requests \ {r} : replies'[q] = replies[q]
<1>3. replies[r] \in Seq([from : Key, ok : BOOLEAN])
    BY DEF TypeOK
<1>4. /\ Append(replies[r], e) \in Seq([from : Key, ok : BOOLEAN])
      /\ Len(Append(replies[r], e)) = 1
      /\ \A i \in DOMAIN Append(replies[r], e) : Append(replies[r], e)[i] = e
    BY <1>3
<1>5. replies'[r] = Append(replies[r], e) /\ \A q \in Requests \ {r} : replies'[q] = replies[q]
    BY DEF TypeOK
<1>6. replies' \in [Requests -> Seq([from : Key, ok : BOOLEAN])]
    BY <1>4 DEF TypeOK
<1> QED
    BY <1>4, <1>5, <1>6

\* The shutdown order does not notice a step that leaves channel and threads
\* alone and starts a call only while the service is open.
LEMMA StopFrame ==
    ASSUME StopInv, commands' = commands, service' = service, ExitedWorkers' = ExitedWorkers,
           service = "open" \/ (NoCaller => NoCaller')
    PROVE  StopInv'
<1>1. PICK n \in 0 .. Len(commands) :
        /\ \A i \in 1 .. Len(commands) : commands[i].kind = IF i <= n THEN "resolve" ELSE "shutdown"
        /\ service = "open" => ExitedWorkers = {} /\ n = Len(commands)
        /\ service = "stopping" =>
              /\ NoCaller
              /\ (Len(commands) - n) + Cardinality(ExitedWorkers) = Cardinality(Workers)
              /\ ExitedWorkers # {} => n = 0
    BY DEF StopInv
<1> QED
    BY <1>1 DEF StopInv

\* A name under .invalid is answered at once and enters no table.
LEMMA RejectReservedKeeps ==
    ASSUME DnsInv, NEW r \in Requests, NEW k \in Key, RejectReserved(r, k)
    PROVE  DnsInv'
<1> USE DEF DnsInv, CacheInv, CommandInv, PlaceInv
<1>0. /\ Asks(r, k) /\ phase' = [phase EXCEPT ![r] = "done"]
      /\ Reply(r, k, FALSE)
      /\ UNCHANGED <<now, inFlight, answers, expirations, commands, worker, service>>
    BY DEF RejectReserved
<1>a. /\ service = "open" /\ phase[r] = "new" /\ r \notin DOMAIN asked
      /\ DOMAIN asked' = DOMAIN asked \cup {r} /\ asked'[r] = k
      /\ \A q \in DOMAIN asked : asked'[q] = asked[q]
      /\ IsMap(asked, Requests, Key)'
      /\ Len(replies[r]) = 0
    BY <1>0, AsksFacts
<1>b. /\ replies' \in [Requests -> Seq([from : Key, ok : BOOLEAN])]
      /\ Len(replies'[r]) = 1 /\ (\A i \in DOMAIN replies'[r] : replies'[r][i].from = k)
      /\ \A q \in Requests \ {r} : replies'[q] = replies[q]
    <2> DEFINE e == [from |-> k, ok |-> FALSE]
    <2>1. e \in [from : Key, ok : BOOLEAN] /\ e.from = k
        OBVIOUS
    <2>2. replies' = [replies EXCEPT ![r] = Append(@, e)]
        BY <1>0 DEF Reply
    <2> HIDE DEF e
    <2>3. TypeOK
        OBVIOUS
    <2>4. /\ replies' \in [Requests -> Seq([from : Key, ok : BOOLEAN])]
          /\ Len(replies'[r]) = 1 /\ (\A i \in DOMAIN replies'[r] : replies'[r][i].from = e.from)
          /\ \A q \in Requests \ {r} : replies'[q] = replies[q]
        BY <1>a, <2>1, <2>2, <2>3, ReplyFacts, Zenon
    <2> QED BY <2>1, <2>4, Zenon
<1>1. TypeOK'
    <2>1. phase' \in [Requests -> {"new", "cached", "starting", "waiting", "done"}]
        BY <1>0 DEF TypeOK
    <2> QED BY <1>0, <1>a, <1>b, <2>1 DEF TypeOK
<1>2. (IsFunction(inFlight) /\ IndexExact /\ DOMAIN answers \cap DOMAIN inFlight = {})'
    BY <1>0 DEF IndexExact, IsFunction
<1>3. CommandInv'
    <2>1. \A q \in Requests, j \in Key : Starting(q, j)' <=> Starting(q, j)
        BY <1>0, <1>a DEF Starting, TypeOK, Replied
    <2>2. \A n \in 1 .. Len(commands), j \in Key : Queued(n, j)' <=> Queued(n, j)
        BY <1>0 DEF Queued
    <2>3. \A w \in Workers, j \in Key : Looking(w, j)' <=> Looking(w, j)
        BY <1>0 DEF Looking
    <2> QED BY <1>0, <2>1, <2>2, <2>3 DEF OwnedInFlight, OwnerAlone, OwnerThere, TypeOK, IsMap
<1>4. PlaceInv'
    <2>1. \A q \in Requests, j \in DOMAIN inFlight : Waits(q, j)' <=> Waits(q, j)
        BY <1>0 DEF Waits
    <2>2. \A q \in Requests, w \in Workers : Held(q, w)' <=> Held(q, w)
        BY <1>0 DEF Held
    <2>3. (ListsDistinct)'
        BY <1>0 DEF ListsDistinct
    <2>4. (TablePlaces /\ WorkerPlaces /\ Placed)'
        BY <1>0, <1>a, <2>1, <2>2 DEF TablePlaces, WorkerPlaces, Placed, TypeOK
    <2>5. Replied'
        BY <1>0, <1>a, <1>b DEF Replied, TypeOK
    <2>6. OwnPartitionOnly'
        BY <1>0, <1>a, <1>b DEF OwnPartitionOnly, Replied, TypeOK
    <2> QED BY <2>3, <2>4, <2>5, <2>6
<1>5. StopInv'
    BY <1>0, <1>a, StopFrame DEF ExitedWorkers
<1> QED
    BY <1>1, <1>2, <1>3, <1>4, <1>5

\* A hit holds its caller outside table and workers until it answers.
LEMMA AdmitCachedKeeps ==
    ASSUME DnsInv, NEW r \in Requests, NEW k \in Key, AdmitCached(r, k)
    PROVE  DnsInv'
<1> USE DEF DnsInv, CacheInv, CommandInv, PlaceInv
<1>0. /\ Asks(r, k) /\ CacheGet(k) /\ phase' = [phase EXCEPT ![r] = "cached"]
      /\ UNCHANGED <<now, inFlight, commands, worker, replies, service>>
    BY DEF AdmitCached
<1>a. /\ service = "open" /\ phase[r] = "new" /\ r \notin DOMAIN asked
      /\ DOMAIN asked' = DOMAIN asked \cup {r} /\ asked'[r] = k
      /\ \A q \in DOMAIN asked : asked'[q] = asked[q]
      /\ IsMap(asked, Requests, Key)'
      /\ Len(replies[r]) = 0
    BY <1>0, AsksFacts
<1>b. /\ IsMap(answers, Key, Expiry)' /\ expirations' \subseteq Expiry \X Key
      /\ IndexExact' /\ DOMAIN answers' \subseteq DOMAIN answers
    BY <1>0, GetKeeps
<1>1. TypeOK'
    <2>1. phase' \in [Requests -> {"new", "cached", "starting", "waiting", "done"}]
        BY <1>0 DEF TypeOK
    <2> QED BY <1>0, <1>a, <1>b, <2>1 DEF TypeOK
<1>2. (IsFunction(inFlight) /\ IndexExact /\ DOMAIN answers \cap DOMAIN inFlight = {})'
    BY <1>0, <1>b DEF IsFunction
<1>3. CommandInv'
    <2>1. \A q \in Requests, j \in Key : Starting(q, j)' <=> Starting(q, j)
        BY <1>0, <1>a DEF Starting, TypeOK, Replied
    <2>2. \A n \in 1 .. Len(commands), j \in Key : Queued(n, j)' <=> Queued(n, j)
        BY <1>0 DEF Queued
    <2>3. \A w \in Workers, j \in Key : Looking(w, j)' <=> Looking(w, j)
        BY <1>0 DEF Looking
    <2> QED BY <1>0, <2>1, <2>2, <2>3 DEF OwnedInFlight, OwnerAlone, OwnerThere, TypeOK, IsMap
<1>4. PlaceInv'
    <2>1. \A q \in Requests, j \in DOMAIN inFlight : Waits(q, j)' <=> Waits(q, j)
        BY <1>0 DEF Waits
    <2>2. \A q \in Requests, w \in Workers : Held(q, w)' <=> Held(q, w)
        BY <1>0 DEF Held
    <2>3. ListsDistinct'
        BY <1>0 DEF ListsDistinct
    <2>4. (TablePlaces /\ WorkerPlaces /\ Placed)'
        BY <1>0, <1>a, <2>1, <2>2 DEF TablePlaces, WorkerPlaces, Placed, TypeOK
    <2>5. Replied'
        BY <1>0, <1>a DEF Replied, TypeOK
    <2>6. OwnPartitionOnly'
        BY <1>0, <1>a DEF OwnPartitionOnly, Replied, TypeOK
    <2> QED BY <2>3, <2>4, <2>5, <2>6
<1>5. StopInv'
    BY <1>0, <1>a, StopFrame DEF ExitedWorkers
<1> QED
    BY <1>1, <1>2, <1>3, <1>4, <1>5

\* A caller that coalesces joins a list it is not in.
LEMMA AdmitCoalescedKeeps ==
    ASSUME DnsInv, NEW r \in Requests, NEW k \in Key, AdmitCoalesced(r, k)
    PROVE  DnsInv'
<1> USE DEF DnsInv, CacheInv, CommandInv, PlaceInv
<1>0. /\ Asks(r, k) /\ CacheMiss(k) /\ phase' = [phase EXCEPT ![r] = "waiting"]
      /\ k \in DOMAIN inFlight
      /\ inFlight' = [inFlight EXCEPT ![k] = Append(@, r)]
      /\ UNCHANGED <<now, commands, worker, replies, service>>
    BY DEF AdmitCoalesced
<1>a. /\ service = "open" /\ phase[r] = "new" /\ r \notin DOMAIN asked
      /\ DOMAIN asked' = DOMAIN asked \cup {r} /\ asked'[r] = k
      /\ \A q \in DOMAIN asked : asked'[q] = asked[q]
      /\ IsMap(asked, Requests, Key)'
      /\ Len(replies[r]) = 0
      /\ \A j \in DOMAIN inFlight : ~Waits(r, j)
      /\ \A w \in Workers : ~Held(r, w)
    BY <1>0, AsksFacts
<1>b. /\ IsMap(answers, Key, Expiry)' /\ expirations' \subseteq Expiry \X Key
      /\ IndexExact' /\ DOMAIN answers' \subseteq DOMAIN answers
    BY <1>0, MissKeeps
<1>c. /\ inFlight[k] \in Seq(Requests) /\ DOMAIN inFlight' = DOMAIN inFlight
      /\ inFlight'[k] = Append(inFlight[k], r)
      /\ \A j \in DOMAIN inFlight \ {k} : inFlight'[j] = inFlight[j]
    BY <1>0 DEF TypeOK, IsMap
<1>d. /\ Append(inFlight[k], r) \in Seq(Requests) \ {<<>>}
      /\ Len(Append(inFlight[k], r)) = Len(inFlight[k]) + 1
      /\ Append(inFlight[k], r)[Len(inFlight[k]) + 1] = r
      /\ \A n \in 1 .. Len(inFlight[k]) : Append(inFlight[k], r)[n] = inFlight[k][n]
    BY <1>c
<1>1. TypeOK'
    <2>1. phase' \in [Requests -> {"new", "cached", "starting", "waiting", "done"}]
        BY <1>0 DEF TypeOK
    <2>2. IsMap(inFlight, Key, Seq(Requests) \ {<<>>})'
        BY <1>c, <1>d DEF TypeOK, IsMap
    <2> QED BY <1>0, <1>a, <1>b, <2>1, <2>2 DEF TypeOK
<1>2. (IsFunction(inFlight) /\ IndexExact /\ DOMAIN answers \cap DOMAIN inFlight = {})'
    BY <1>0, <1>b, <1>c DEF IsFunction
<1>3. CommandInv'
    <2>1. \A q \in Requests, j \in Key : Starting(q, j)' <=> Starting(q, j)
        BY <1>0, <1>a DEF Starting, TypeOK, Replied
    <2>2. \A n \in 1 .. Len(commands), j \in Key : Queued(n, j)' <=> Queued(n, j)
        BY <1>0 DEF Queued
    <2>3. \A w \in Workers, j \in Key : Looking(w, j)' <=> Looking(w, j)
        BY <1>0 DEF Looking
    <2>4. Len(commands') = Len(commands) /\ DOMAIN inFlight \subseteq Key
        BY <1>0 DEF TypeOK, IsMap
    <2> QED BY <1>c, <2>1, <2>2, <2>3, <2>4 DEF OwnedInFlight, OwnerAlone, OwnerThere
<1>4. PlaceInv'
    <2>1. \A q \in Requests, j \in DOMAIN inFlight : Waits(q, j)' <=> Waits(q, j) \/ (q = r /\ j = k)
        <3> SUFFICES ASSUME NEW q \in Requests, NEW j \in DOMAIN inFlight
                     PROVE  Waits(q, j)' <=> Waits(q, j) \/ (q = r /\ j = k)
            OBVIOUS
        <3>1. CASE j = k
            BY <1>c, <1>d, <3>1 DEF Waits
        <3>2. CASE j # k
            BY <1>c, <3>2 DEF Waits
        <3> QED BY <3>1, <3>2
    <2>2. \A q \in Requests, w \in Workers : Held(q, w)' <=> Held(q, w)
        BY <1>0 DEF Held
    <2>3. ListsDistinct'
        <3>1. ASSUME NEW j \in DOMAIN inFlight', NEW m \in 1 .. Len(inFlight'[j]), NEW n \in 1 .. Len(inFlight'[j]),
                     inFlight'[j][m] = inFlight'[j][n]
              PROVE  m = n
            <4>1. CASE j = k
                <5>1. \A i \in 1 .. Len(inFlight[k]) : inFlight[k][i] # r
                    BY <1>a, <1>0 DEF Waits
                <5> QED BY <1>0, <1>c, <1>d, <3>1, <4>1, <5>1 DEF ListsDistinct
            <4>2. CASE j # k
                BY <1>c, <3>1, <4>2 DEF ListsDistinct
            <4> QED BY <4>1, <4>2
        <3> QED BY <1>0, <3>1 DEF ListsDistinct
    <2>4. TablePlaces'
        BY <1>0, <1>a, <1>c, <2>1 DEF TablePlaces, TypeOK
    <2>5. WorkerPlaces'
        BY <1>0, <1>a, <1>c, <2>1, <2>2 DEF WorkerPlaces, TypeOK
    <2>6. Placed'
        BY <1>0, <1>a, <1>c, <2>1, <2>2 DEF Placed, TypeOK
    <2>7. Replied'
        BY <1>0, <1>a DEF Replied, TypeOK
    <2>8. OwnPartitionOnly'
        BY <1>0, <1>a DEF OwnPartitionOnly, Replied, TypeOK
    <2> QED BY <2>3, <2>4, <2>5, <2>6, <2>7, <2>8
<1>5. StopInv'
    BY <1>0, <1>a, StopFrame DEF ExitedWorkers
<1> QED
    BY <1>1, <1>2, <1>3, <1>4, <1>5

\* A caller that starts a lookup is its key's first and only owner.
LEMMA AdmitStartKeeps ==
    ASSUME DnsInv, NEW r \in Requests, NEW k \in Key, AdmitStart(r, k)
    PROVE  DnsInv'
<1> USE DEF DnsInv, CacheInv, CommandInv, PlaceInv
<1>0. /\ Asks(r, k) /\ CacheMiss(k) /\ phase' = [phase EXCEPT ![r] = "starting"]
      /\ k \notin DOMAIN inFlight
      /\ inFlight' = With(inFlight, k, <<r>>)
      /\ UNCHANGED <<now, commands, worker, replies, service>>
    BY DEF AdmitStart
<1>a. /\ service = "open" /\ phase[r] = "new" /\ r \notin DOMAIN asked
      /\ DOMAIN asked' = DOMAIN asked \cup {r} /\ asked'[r] = k
      /\ \A q \in DOMAIN asked : asked'[q] = asked[q]
      /\ IsMap(asked, Requests, Key)'
      /\ Len(replies[r]) = 0
      /\ \A j \in DOMAIN inFlight : ~Waits(r, j)
      /\ \A w \in Workers : ~Held(r, w)
    BY <1>0, AsksFacts
<1>b. /\ IsMap(answers, Key, Expiry)' /\ expirations' \subseteq Expiry \X Key
      /\ IndexExact' /\ DOMAIN answers' \subseteq DOMAIN answers \ {k}
    BY <1>0, MissKeeps
<1>c. /\ DOMAIN inFlight' = DOMAIN inFlight \cup {k} /\ inFlight'[k] = <<r>>
      /\ \A j \in DOMAIN inFlight : inFlight'[j] = inFlight[j]
      /\ IsFunction(inFlight')
    BY <1>0 DEF With, IsFunction
<1>d. <<r>> \in Seq(Requests) \ {<<>>} /\ Len(<<r>>) = 1 /\ <<r>>[1] = r
    OBVIOUS
<1>1. TypeOK'
    <2>1. phase' \in [Requests -> {"new", "cached", "starting", "waiting", "done"}]
        BY <1>0 DEF TypeOK
    <2>2. IsMap(inFlight, Key, Seq(Requests) \ {<<>>})'
        BY <1>c, <1>d DEF TypeOK, IsMap
    <2> QED BY <1>0, <1>a, <1>b, <2>1, <2>2 DEF TypeOK
<1>2. (IsFunction(inFlight) /\ IndexExact /\ DOMAIN answers \cap DOMAIN inFlight = {})'
    BY <1>b, <1>c
<1>3. CommandInv'
    <2>1. \A q \in Requests, j \in Key : Starting(q, j)' <=> Starting(q, j) \/ (q = r /\ j = k)
        BY <1>0, <1>a DEF Starting, TypeOK, Replied
    <2>2. \A n \in 1 .. Len(commands), j \in Key : Queued(n, j)' <=> Queued(n, j)
        BY <1>0 DEF Queued
    <2>3. \A w \in Workers, j \in Key : Looking(w, j)' <=> Looking(w, j)
        BY <1>0 DEF Looking
    <2>4. Len(commands') = Len(commands) /\ DOMAIN inFlight \subseteq Key
        BY <1>0 DEF TypeOK, IsMap
    <2>5. OwnedInFlight' /\ OwnerThere'
        BY <1>c, <2>1, <2>2, <2>3, <2>4 DEF OwnedInFlight, OwnerThere
    <2>6. OwnerAlone'
        BY <1>0, <2>1, <2>2, <2>3, <2>4 DEF OwnedInFlight, OwnerAlone
    <2> QED BY <2>5, <2>6
<1>4. PlaceInv'
    <2>1. \A q \in Requests, j \in DOMAIN inFlight' :
              Waits(q, j)' <=> (j \in DOMAIN inFlight /\ Waits(q, j)) \/ (q = r /\ j = k)
        <3> SUFFICES ASSUME NEW q \in Requests, NEW j \in DOMAIN inFlight'
                     PROVE  Waits(q, j)' <=> (j \in DOMAIN inFlight /\ Waits(q, j)) \/ (q = r /\ j = k)
            OBVIOUS
        <3>1. CASE j = k
            BY <1>0, <1>c, <1>d, <3>1 DEF Waits
        <3>2. CASE j # k
            BY <1>c, <3>2 DEF Waits
        <3> QED BY <3>1, <3>2
    <2>2. \A q \in Requests, w \in Workers : Held(q, w)' <=> Held(q, w)
        BY <1>0 DEF Held
    <2>3. ListsDistinct'
        <3>1. ASSUME NEW j \in DOMAIN inFlight', NEW m \in 1 .. Len(inFlight'[j]), NEW n \in 1 .. Len(inFlight'[j]),
                     inFlight'[j][m] = inFlight'[j][n]
              PROVE  m = n
            <4>1. CASE j = k
                <5>1. Len(inFlight'[j]) = 1
                    BY <1>c, <1>d, <4>1
                <5> QED BY <5>1
            <4>2. CASE j # k
                BY <1>c, <3>1, <4>2 DEF ListsDistinct
            <4> QED BY <4>1, <4>2
        <3> QED BY <1>0, <3>1 DEF ListsDistinct
    <2>4. TablePlaces'
        <3> SUFFICES ASSUME NEW q \in Requests, NEW j \in DOMAIN inFlight', Waits(q, j)'
                     PROVE  q \in DOMAIN asked' /\ asked'[q] = j /\ phase'[q] \in {"starting", "waiting"}
            BY DEF TablePlaces
        <3>1. CASE q = r /\ j = k
            BY <1>0, <1>a, <3>1 DEF TypeOK
        <3>2. CASE j \in DOMAIN inFlight /\ Waits(q, j)
            BY <1>0, <1>a, <3>2 DEF TablePlaces, TypeOK
        <3> QED BY <2>1, <3>1, <3>2
    <2>5. WorkerPlaces'
        BY <1>0, <1>a, <1>c, <2>1, <2>2 DEF WorkerPlaces, TypeOK
    <2>6. Placed'
        BY <1>0, <1>a, <1>c, <2>1, <2>2 DEF Placed, TypeOK
    <2>7. Replied'
        BY <1>0, <1>a DEF Replied, TypeOK
    <2>8. OwnPartitionOnly'
        BY <1>0, <1>a DEF OwnPartitionOnly, Replied, TypeOK
    <2> QED BY <2>3, <2>4, <2>5, <2>6, <2>7, <2>8
<1>5. StopInv'
    BY <1>0, <1>a, StopFrame DEF ExitedWorkers
<1> QED
    BY <1>1, <1>2, <1>3, <1>4, <1>5

\* The completion of a hit runs once, on its caller.
LEMMA AnswerCachedKeeps ==
    ASSUME DnsInv, NEW r \in Requests, AnswerCached(r)
    PROVE  DnsInv'
<1> USE DEF DnsInv, CacheInv, CommandInv, PlaceInv
<1>0. /\ phase[r] = "cached" /\ phase' = [phase EXCEPT ![r] = "done"]
      /\ Reply(r, asked[r], TRUE)
      /\ UNCHANGED <<now, asked, inFlight, answers, expirations, commands, worker, service>>
    BY DEF AnswerCached
<1>a. r \in DOMAIN asked /\ asked[r] \in Key /\ Len(replies[r]) = 0
    BY <1>0 DEF Replied, TypeOK, IsMap
<1>b. /\ replies' \in [Requests -> Seq([from : Key, ok : BOOLEAN])]
      /\ Len(replies'[r]) = 1 /\ (\A i \in DOMAIN replies'[r] : replies'[r][i].from = asked[r])
      /\ \A q \in Requests \ {r} : replies'[q] = replies[q]
    <2> DEFINE e == [from |-> asked[r], ok |-> TRUE]
    <2>1. e \in [from : Key, ok : BOOLEAN] /\ e.from = asked[r]
        BY <1>a
    <2>2. replies' = [replies EXCEPT ![r] = Append(@, e)]
        BY <1>0 DEF Reply
    <2> HIDE DEF e
    <2>3. TypeOK
        OBVIOUS
    <2>4. /\ replies' \in [Requests -> Seq([from : Key, ok : BOOLEAN])]
          /\ Len(replies'[r]) = 1 /\ (\A i \in DOMAIN replies'[r] : replies'[r][i].from = e.from)
          /\ \A q \in Requests \ {r} : replies'[q] = replies[q]
        BY <1>a, <2>1, <2>2, <2>3, ReplyFacts, Zenon
    <2> QED BY <2>1, <2>4, Zenon
<1>1. TypeOK'
    <2>1. phase' \in [Requests -> {"new", "cached", "starting", "waiting", "done"}]
        BY <1>0 DEF TypeOK
    <2> QED BY <1>0, <1>b, <2>1 DEF TypeOK
<1>2. (IsFunction(inFlight) /\ IndexExact /\ DOMAIN answers \cap DOMAIN inFlight = {})'
    BY <1>0 DEF IsFunction, IndexExact
<1>3. CommandInv'
    <2>1. \A q \in Requests, j \in Key : Starting(q, j)' <=> Starting(q, j)
        BY <1>0 DEF Starting, TypeOK
    <2>2. \A n \in 1 .. Len(commands), j \in Key : Queued(n, j)' <=> Queued(n, j)
        BY <1>0 DEF Queued
    <2>3. \A w \in Workers, j \in Key : Looking(w, j)' <=> Looking(w, j)
        BY <1>0 DEF Looking
    <2> QED BY <1>0, <2>1, <2>2, <2>3 DEF OwnedInFlight, OwnerAlone, OwnerThere, TypeOK, IsMap
<1>4. PlaceInv'
    <2>1. \A q \in Requests, j \in DOMAIN inFlight : Waits(q, j)' <=> Waits(q, j)
        BY <1>0 DEF Waits
    <2>2. \A q \in Requests, w \in Workers : Held(q, w)' <=> Held(q, w)
        BY <1>0 DEF Held
    <2>3. ListsDistinct'
        BY <1>0 DEF ListsDistinct
    <2>4. (TablePlaces /\ WorkerPlaces /\ Placed)'
        BY <1>0, <1>a, <2>1, <2>2 DEF TablePlaces, WorkerPlaces, Placed, TypeOK
    <2>5. Replied'
        BY <1>0, <1>a, <1>b DEF Replied, TypeOK
    <2>6. OwnPartitionOnly'
        BY <1>0, <1>a, <1>b DEF OwnPartitionOnly, TypeOK
    <2> QED BY <2>3, <2>4, <2>5, <2>6
<1>5. StopInv'
    BY <1>0, StopFrame DEF ExitedWorkers, NoCaller, TypeOK
<1> QED
    BY <1>1, <1>2, <1>3, <1>4, <1>5

\* Sending moves the one command of the key from its caller to the channel.
LEMMA SendCommandKeeps ==
    ASSUME DnsInv, NEW r \in Requests, SendCommand(r)
    PROVE  DnsInv'
<1> USE DEF DnsInv, CacheInv, CommandInv, PlaceInv
<1> DEFINE k == asked[r]
<1>0. /\ phase[r] = "starting" /\ phase' = [phase EXCEPT ![r] = "waiting"]
      /\ commands' = Append(commands, Resolve(k))
      /\ UNCHANGED <<now, asked, inFlight, answers, expirations, worker, replies, service>>
    BY DEF SendCommand
<1>a. r \in DOMAIN asked /\ k \in Key /\ Starting(r, k)
    BY <1>0 DEF Replied, TypeOK, IsMap, Starting
<1>b. commands \in Seq({Shutdown} \cup {Resolve(j) : j \in Key})
    BY DEF TypeOK
<1>c. /\ commands' \in Seq({Shutdown} \cup {Resolve(j) : j \in Key})
      /\ Len(commands') = Len(commands) + 1 /\ Len(commands) \in Nat
      /\ commands'[Len(commands) + 1] = Resolve(k)
      /\ \A n \in 1 .. Len(commands) : commands'[n] = commands[n]
    BY <1>0, <1>a, <1>b
<1>d. service = "open"
    BY <1>0 DEF StopInv, NoCaller, TypeOK
<1>1. TypeOK'
    <2>1. phase' \in [Requests -> {"new", "cached", "starting", "waiting", "done"}]
        BY <1>0 DEF TypeOK
    <2> QED BY <1>0, <1>c, <2>1 DEF TypeOK
<1>2. (IsFunction(inFlight) /\ IndexExact /\ DOMAIN answers \cap DOMAIN inFlight = {})'
    BY <1>0 DEF IsFunction, IndexExact
<1>3. CommandInv'
    <2>1. \A q \in Requests, j \in Key : Starting(q, j)' <=> Starting(q, j) /\ q # r
        BY <1>0 DEF Starting, TypeOK
    <2>2. \A n \in 1 .. Len(commands'), j \in Key :
              Queued(n, j)' <=> (n \in 1 .. Len(commands) /\ Queued(n, j)) \/ (n = Len(commands) + 1 /\ j = k)
        <3> SUFFICES ASSUME NEW n \in 1 .. Len(commands'), NEW j \in Key
                     PROVE  Queued(n, j)' <=> (n \in 1 .. Len(commands) /\ Queued(n, j))
                                                \/ (n = Len(commands) + 1 /\ j = k)
            OBVIOUS
        <3>1. CASE n = Len(commands) + 1
            BY <1>c, <3>1 DEF Queued, Resolve
        <3>2. CASE n \in 1 .. Len(commands)
            BY <1>c, <3>2 DEF Queued
        <3> QED BY <1>c, <3>1, <3>2
    <2>3. \A w \in Workers, j \in Key : Looking(w, j)' <=> Looking(w, j)
        BY <1>0 DEF Looking
    <2>4. DOMAIN inFlight \subseteq Key /\ DOMAIN inFlight' = DOMAIN inFlight
        BY <1>0 DEF TypeOK, IsMap
    <2>5. k \in DOMAIN inFlight
        BY <1>a DEF OwnedInFlight
    <2>6. OwnedInFlight'
        BY <2>1, <2>2, <2>3, <2>4, <2>5 DEF OwnedInFlight
    <2>7. OwnerAlone'
        <3>1. \A q \in Requests : Starting(q, k) => q = r
            BY <1>a DEF OwnerAlone
        <3>2. \A n \in 1 .. Len(commands) : ~Queued(n, k)
            BY <1>a DEF OwnerAlone
        <3>3. \A w \in Workers : ~Looking(w, k)
            BY <1>a DEF OwnerAlone
        <3> HIDE DEF k
        <3> QED BY <1>c, <2>1, <2>2, <2>3, <3>1, <3>2, <3>3 DEF OwnerAlone
    <2>8. OwnerThere'
        <3> SUFFICES ASSUME NEW j \in DOMAIN inFlight'
                     PROVE  \/ \E q \in Requests : Starting(q, j)'
                            \/ \E n \in 1 .. Len(commands') : Queued(n, j)'
                            \/ \E w \in Workers : Looking(w, j)'
            BY DEF OwnerThere
        <3>1. CASE j = k
            <4>1. Len(commands) + 1 \in 1 .. Len(commands')
                BY <1>c
            <4> QED BY <1>a, <2>2, <3>1, <4>1
        <3>2. CASE j # k
            <4>1. \A q \in Requests : Starting(q, j) => q # r
                BY <3>2 DEF Starting
            <4>2. 1 .. Len(commands) \subseteq 1 .. Len(commands')
                BY <1>c
            <4>3. j \in Key /\ j \in DOMAIN inFlight
                BY <2>4
            <4> HIDE DEF k
            <4> QED BY <2>1, <2>2, <2>3, <4>1, <4>2, <4>3 DEF OwnerThere
        <3> QED BY <3>1, <3>2
    <2> QED BY <2>6, <2>7, <2>8
<1>4. PlaceInv'
    <2>1. \A q \in Requests, j \in DOMAIN inFlight : Waits(q, j)' <=> Waits(q, j)
        BY <1>0 DEF Waits
    <2>2. \A q \in Requests, w \in Workers : Held(q, w)' <=> Held(q, w)
        BY <1>0 DEF Held
    <2>3. ListsDistinct'
        BY <1>0 DEF ListsDistinct
    <2>4. (TablePlaces /\ WorkerPlaces /\ Placed)'
        BY <1>0, <2>1, <2>2 DEF TablePlaces, WorkerPlaces, Placed, TypeOK
    <2>5. Replied' /\ OwnPartitionOnly'
        BY <1>0 DEF Replied, OwnPartitionOnly, TypeOK
    <2> QED BY <2>3, <2>4, <2>5
<1>5. StopInv'
    <2>1. /\ \A i \in 1 .. Len(commands) : commands[i].kind = "resolve"
          /\ ExitedWorkers = {}
        BY <1>d DEF StopInv
    <2>2. \A i \in 1 .. Len(commands') : commands'[i].kind = "resolve"
        BY <1>c, <2>1 DEF Resolve
    <2>3. ExitedWorkers' = {} /\ service' = "open"
        BY <1>0, <1>d, <2>1 DEF ExitedWorkers
    <2>4. Len(commands') \in 0 .. Len(commands')
        BY <1>c
    <2> QED BY <2>2, <2>3, <2>4 DEF StopInv
<1> QED
    BY <1>1, <1>2, <1>3, <1>4, <1>5

-----------------------------------------------------------------------------
(* The worker pool.                                                        *)

\* What a worker does is told by its place.
LEMMA WorkerFacts ==
    ASSUME TypeOK, NEW w \in Workers
    PROVE  /\ worker[w].at \in {"idle", "exited", "lookup", "complete"}
           /\ worker[w] = Idle => worker[w].at = "idle"
           /\ worker[w] = Exited <=> worker[w].at = "exited"
           /\ worker[w].at = "lookup" => worker[w].key \in Key
           /\ worker[w].at = "complete" =>
                 /\ worker[w].key \in Key /\ worker[w].ok \in BOOLEAN /\ worker[w].rest \in Seq(Requests)
                 /\ worker[w] = [at |-> "complete", key |-> worker[w].key, ok |-> worker[w].ok,
                                 rest |-> worker[w].rest]
BY DEF TypeOK, WorkerState, Idle, Exited

\* A received command moves from the head of the channel to the worker; a
\* shutdown is received only when no lookup is queued.
LEMMA ReceiveKeeps ==
    ASSUME DnsInv, NEW w \in Workers, Receive(w)
    PROVE  DnsInv'
<1> USE DEF DnsInv, CacheInv, CommandInv, PlaceInv
<1> DEFINE c == Head(commands)
<1>0. /\ worker[w] = Idle /\ commands # <<>> /\ commands' = Tail(commands)
      /\ worker' = [worker EXCEPT ![w] = IF c.kind = "shutdown" THEN Exited
                                         ELSE [at |-> "lookup", key |-> c.key]]
      /\ UNCHANGED <<now, phase, asked, inFlight, answers, expirations, replies, service>>
    BY DEF Receive
<1>b. commands \in Seq({Shutdown} \cup {Resolve(j) : j \in Key})
    BY DEF TypeOK
<1>c. /\ Len(commands) \in Nat \ {0} /\ c = commands[1]
      /\ c \in {Shutdown} \cup {Resolve(j) : j \in Key}
      /\ commands' \in Seq({Shutdown} \cup {Resolve(j) : j \in Key})
      /\ Len(commands') = Len(commands) - 1
      /\ \A n \in 1 .. Len(commands') : commands'[n] = commands[n + 1]
    BY <1>0, <1>b
<1>d. worker[w].at = "idle"
    BY <1>0, WorkerFacts
<1>e. (c = Shutdown /\ c.kind = "shutdown") \/ (c.kind = "resolve" /\ c.key \in Key /\ c = Resolve(c.key))
    BY <1>c DEF Shutdown, Resolve
<1>f. /\ \A v \in Workers \ {w} : worker'[v] = worker[v]
      /\ c.kind = "shutdown" => worker'[w] = Exited
      /\ c.kind = "resolve" => worker'[w] = [at |-> "lookup", key |-> c.key]
    BY <1>0 DEF TypeOK
<1> HIDE DEF c
<1>1. TypeOK'
    <2>1. worker' \in [Workers -> WorkerState]
        <3>1. worker \in [Workers -> WorkerState] /\ Exited \in WorkerState
            BY DEF TypeOK, WorkerState
        <3>2. c.kind = "resolve" => [at |-> "lookup", key |-> c.key] \in WorkerState
            BY <1>e DEF WorkerState
        <3> QED BY <1>0, <1>e, <3>1, <3>2
    <2> QED BY <1>0, <1>c, <2>1 DEF TypeOK
<1>2. (IsFunction(inFlight) /\ IndexExact /\ DOMAIN answers \cap DOMAIN inFlight = {})'
    BY <1>0 DEF IsFunction, IndexExact
<1>3. CommandInv'
    <2>1. \A q \in Requests, j \in Key : Starting(q, j)' <=> Starting(q, j)
        BY <1>0 DEF Starting
    <2>2. \A n \in 1 .. Len(commands'), j \in Key : n + 1 \in 1 .. Len(commands) /\ (Queued(n, j)' <=> Queued(n + 1, j))
        BY <1>c DEF Queued
    <2>3. \A v \in Workers, j \in Key : Looking(v, j)' <=> Looking(v, j) \/ (v = w /\ Queued(1, j))
        <3> SUFFICES ASSUME NEW v \in Workers, NEW j \in Key
                     PROVE  Looking(v, j)' <=> Looking(v, j) \/ (v = w /\ Queued(1, j))
            OBVIOUS
        <3>1. CASE v # w
            BY <1>f, <3>1 DEF Looking
        <3>2. CASE v = w /\ c.kind = "shutdown"
            BY <1>c, <1>d, <1>f, <3>2 DEF Looking, Queued, Resolve, Exited
        <3>3. CASE v = w /\ c.kind = "resolve"
            BY <1>c, <1>d, <1>e, <1>f, <3>3 DEF Looking, Queued, Resolve
        <3> QED BY <1>e, <3>1, <3>2, <3>3
    <2>4. DOMAIN inFlight \subseteq Key /\ DOMAIN inFlight' = DOMAIN inFlight /\ 1 \in 1 .. Len(commands)
        BY <1>0, <1>c DEF TypeOK, IsMap
    <2>5. OwnedInFlight'
        BY <2>1, <2>2, <2>3, <2>4 DEF OwnedInFlight
    <2>6. OwnerAlone'
        BY <1>c, <2>1, <2>2, <2>3, <2>4 DEF OwnerAlone
    <2>7. OwnerThere'
        <3> SUFFICES ASSUME NEW j \in DOMAIN inFlight'
                     PROVE  \/ \E q \in Requests : Starting(q, j)'
                            \/ \E n \in 1 .. Len(commands') : Queued(n, j)'
                            \/ \E v \in Workers : Looking(v, j)'
            BY DEF OwnerThere
        <3>1. j \in Key /\ j \in DOMAIN inFlight
            BY <2>4
        <3>2. CASE \E n \in 1 .. Len(commands) : Queued(n, j)
            <4>1. PICK n \in 1 .. Len(commands) : Queued(n, j)
                BY <3>2
            <4>2. CASE n = 1
                BY <2>3, <3>1, <4>1, <4>2
            <4>3. CASE n # 1
                <5>1. n - 1 \in 1 .. Len(commands') /\ (n - 1) + 1 = n
                    BY <1>c, <4>3
                <5> QED BY <2>2, <3>1, <4>1, <5>1
            <4> QED BY <4>2, <4>3
        <3> QED BY <2>1, <2>3, <3>1, <3>2 DEF OwnerThere
    <2> QED BY <2>5, <2>6, <2>7
<1>4. PlaceInv'
    <2>1. \A q \in Requests, j \in DOMAIN inFlight : Waits(q, j)' <=> Waits(q, j)
        BY <1>0 DEF Waits
    <2>a. worker'[w].at # "complete"
        BY <1>e, <1>f DEF Exited
    <2>2. \A q \in Requests, v \in Workers : Held(q, v)' <=> Held(q, v)
        BY <1>d, <1>f, <2>a DEF Held
    <2>b. \A q \in Requests, v \in Workers : Held(q, v) => worker'[v].key = worker[v].key
        BY <1>d, <1>f DEF Held
    <2>3. ListsDistinct'
        BY <1>0, <1>f, <2>a DEF ListsDistinct
    <2>4. (TablePlaces /\ Placed)'
        BY <1>0, <2>1, <2>2 DEF TablePlaces, Placed
    <2>5. WorkerPlaces'
        BY <1>0, <2>1, <2>2, <2>b DEF WorkerPlaces
    <2>6. Replied' /\ OwnPartitionOnly'
        BY <1>0 DEF Replied, OwnPartitionOnly
    <2> QED BY <2>3, <2>4, <2>5, <2>6
<1>5. StopInv'
    <2>1. PICK n \in 0 .. Len(commands) :
            /\ \A i \in 1 .. Len(commands) : commands[i].kind = IF i <= n THEN "resolve" ELSE "shutdown"
            /\ service = "open" => ExitedWorkers = {} /\ n = Len(commands)
            /\ service = "stopping" =>
                  /\ NoCaller
                  /\ (Len(commands) - n) + Cardinality(ExitedWorkers) = Cardinality(Workers)
                  /\ ExitedWorkers # {} => n = 0
        BY DEF StopInv
    <2>2. NoCaller' <=> NoCaller
        BY <1>0 DEF NoCaller
    <2>3. CASE c.kind = "resolve"
        <3>1. n >= 1
            BY <1>c, <2>1, <2>3
        <3>2. ExitedWorkers' = ExitedWorkers
            BY <1>d, <1>f, <2>3 DEF ExitedWorkers, Exited
        <3>3. n - 1 \in 0 .. Len(commands')
            BY <1>c, <3>1
        <3>4. \A i \in 1 .. Len(commands') : commands'[i].kind = IF i <= n - 1 THEN "resolve" ELSE "shutdown"
            BY <1>c, <2>1, <3>1
        <3>5. service = "stopping" => (Len(commands') - (n - 1)) + Cardinality(ExitedWorkers) = Cardinality(Workers)
            BY <1>c, <2>1
        <3>6. ExitedWorkers # {} => service = "open"
            BY <2>1, <3>1 DEF TypeOK
        <3>7. ExitedWorkers = {}
            BY <2>1, <3>6
        <3>8. service = "open" => n - 1 = Len(commands')
            BY <1>c, <2>1
        <3> QED BY <1>0, <2>1, <2>2, <3>2, <3>3, <3>4, <3>5, <3>7, <3>8 DEF StopInv
    <2>4. CASE c.kind = "shutdown"
        <3>1. n = 0 /\ service = "stopping"
            BY <1>c, <2>1, <2>4 DEF TypeOK
        <3>2. ExitedWorkers' = ExitedWorkers \cup {w} /\ w \notin ExitedWorkers
            BY <1>d, <1>f, <2>4 DEF ExitedWorkers, Exited
        <3>3. IsFiniteSet(ExitedWorkers)
            BY DnsAssumption, FS_Subset DEF ExitedWorkers
        <3>4. Cardinality(ExitedWorkers') = Cardinality(ExitedWorkers) + 1
            BY <3>2, <3>3, FS_AddElement
        <3>5. Cardinality(ExitedWorkers) \in Nat /\ Cardinality(Workers) \in Nat
            BY <3>3, DnsAssumption, FS_CardinalityType
        <3>6. (Len(commands') - 0) + Cardinality(ExitedWorkers') = Cardinality(Workers)
            BY <1>c, <2>1, <3>1, <3>4, <3>5
        <3>7. \A i \in 1 .. Len(commands') : commands'[i].kind = IF i <= 0 THEN "resolve" ELSE "shutdown"
            BY <1>c, <2>1, <3>1
        <3>8. 0 \in 0 .. Len(commands')
            BY <1>c
        <3> QED BY <1>0, <2>1, <2>2, <3>1, <3>6, <3>7, <3>8 DEF StopInv
    <2> QED BY <1>e, <2>3, <2>4
<1> QED
    BY <1>1, <1>2, <1>3, <1>4, <1>5

\* Publication ends the command of the key and moves its whole list, in one
\* step, from the table to the worker.
LEMMA PublishKeeps ==
    ASSUME DnsInv, NEW w \in Workers, Publish(w)
    PROVE  DnsInv'
<1> USE DEF DnsInv, CacheInv, CommandInv, PlaceInv
<1> DEFINE k == worker[w].key
<1>a. worker[w].at = "lookup" /\ k \in Key /\ Looking(w, k)
    BY WorkerFacts DEF Publish, Looking
<1>b. k \in DOMAIN inFlight /\ k \notin DOMAIN answers /\ inFlight[k] \in Seq(Requests)
    BY <1>a DEF OwnedInFlight, TypeOK, IsMap
<1>0. PICK ok \in BOOLEAN :
        /\ IF ok THEN CacheInsert(k) ELSE UNCHANGED <<answers, expirations>>
        /\ inFlight' = Without(inFlight, {k})
        /\ worker' = [worker EXCEPT ![w] =
              [at |-> "complete", key |-> k, ok |-> ok, rest |-> inFlight[k]]]
    BY <1>b DEF Publish, SystemDnsLookup
<1>c. UNCHANGED <<now, phase, asked, commands, replies, service>>
    BY DEF Publish
<1> HIDE DEF k
<1>d. /\ DOMAIN inFlight' = DOMAIN inFlight \ {k}
      /\ \A j \in DOMAIN inFlight \ {k} : inFlight'[j] = inFlight[j]
      /\ IsFunction(inFlight')
    BY <1>0, WithoutFacts
<1>e. /\ IsMap(answers, Key, Expiry)' /\ expirations' \subseteq Expiry \X Key
      /\ IndexExact' /\ DOMAIN answers' \subseteq DOMAIN answers \cup {k}
    <2>1. CASE ok
        BY <1>0, <1>a, <1>b, <2>1, InsertKeeps
    <2>2. CASE ~ok
        BY <1>0, <2>2 DEF TypeOK, IsMap, IndexExact
    <2> QED BY <2>1, <2>2
<1>f. /\ \A v \in Workers \ {w} : worker'[v] = worker[v]
      /\ worker'[w] = [at |-> "complete", key |-> k, ok |-> ok, rest |-> inFlight[k]]
    BY <1>0 DEF TypeOK
<1>g. worker'[w].at = "complete" /\ worker'[w].key = k /\ worker'[w].rest = inFlight[k]
    BY <1>f
<1>1. TypeOK'
    <2>1. worker' \in [Workers -> WorkerState]
        <3>1. worker \in [Workers -> WorkerState]
            BY DEF TypeOK
        <3>2. [at |-> "complete", key |-> k, ok |-> ok, rest |-> inFlight[k]] \in WorkerState
            BY <1>a, <1>b DEF WorkerState
        <3> QED BY <1>0, <3>1, <3>2
    <2>2. IsMap(inFlight, Key, Seq(Requests) \ {<<>>})'
        BY <1>d DEF TypeOK, IsMap
    <2> QED BY <1>c, <1>e, <2>1, <2>2 DEF TypeOK
<1>2. (IsFunction(inFlight) /\ IndexExact /\ DOMAIN answers \cap DOMAIN inFlight = {})'
    BY <1>d, <1>e
<1>3. CommandInv'
    <2>1. \A q \in Requests, j \in Key : Starting(q, j)' <=> Starting(q, j)
        BY <1>c DEF Starting
    <2>2. \A n \in 1 .. Len(commands), j \in Key : Queued(n, j)' <=> Queued(n, j)
        BY <1>c DEF Queued
    <2>3. \A v \in Workers, j \in Key : Looking(v, j)' <=> Looking(v, j) /\ v # w
        BY <1>f, <1>g DEF Looking
    <2>4. Len(commands') = Len(commands) /\ DOMAIN inFlight \subseteq Key
        BY <1>c DEF TypeOK, IsMap
    <2>5. \A q \in Requests : ~Starting(q, k)
        BY <1>a DEF OwnerAlone
    <2>6. \A n \in 1 .. Len(commands) : ~Queued(n, k)
        BY <1>a DEF OwnerAlone
    <2>7. \A v \in Workers : Looking(v, k) => v = w
        BY <1>a DEF OwnerAlone
    <2>8. \A j \in Key : Looking(w, j) => j = k
        BY DEF Looking, k
    <2>9. OwnedInFlight' /\ OwnerAlone'
        BY <1>d, <2>1, <2>2, <2>3, <2>4, <2>5, <2>6, <2>7 DEF OwnedInFlight, OwnerAlone
    <2>10. OwnerThere'
        BY <1>d, <2>1, <2>2, <2>3, <2>4, <2>8 DEF OwnerThere
    <2> QED BY <2>9, <2>10
<1>4. PlaceInv'
    <2>1. \A q \in Requests, j \in DOMAIN inFlight' : Waits(q, j)' <=> Waits(q, j)
        BY <1>d DEF Waits
    <2>2. \A q \in Requests, v \in Workers : Held(q, v)' <=> Held(q, v) \/ (v = w /\ Waits(q, k))
        <3> SUFFICES ASSUME NEW q \in Requests, NEW v \in Workers
                     PROVE  Held(q, v)' <=> Held(q, v) \/ (v = w /\ Waits(q, k))
            OBVIOUS
        <3>1. CASE v = w
            BY <1>a, <1>g, <3>1 DEF Held, Waits
        <3>2. CASE v # w
            BY <1>f, <3>2 DEF Held
        <3> QED BY <3>1, <3>2
    <2>3. ListsDistinct'
        BY <1>b, <1>d, <1>f, <1>g DEF ListsDistinct
    <2>4. TablePlaces'
        BY <1>c, <1>d, <2>1 DEF TablePlaces
    <2>5. \A q \in Requests : Waits(q, k) => /\ q \in DOMAIN asked /\ asked[q] = k /\ phase[q] = "waiting"
                                             /\ \A j \in DOMAIN inFlight : Waits(q, j) => j = k
                                             /\ \A v \in Workers : ~Held(q, v)
        <3>1. \A q \in Requests : ~Starting(q, k)
            BY <1>a DEF OwnerAlone
        <3> QED BY <1>b, <3>1 DEF TablePlaces, WorkerPlaces, Starting
    <2>6. WorkerPlaces'
        <3> SUFFICES ASSUME NEW q \in Requests, NEW v \in Workers, Held(q, v)'
                     PROVE  /\ q \in DOMAIN asked /\ asked[q] = worker'[v].key
                            /\ phase[q] = "waiting"
                            /\ \A j \in DOMAIN inFlight' : ~Waits(q, j)'
                            /\ \A u \in Workers : Held(q, u)' => u = v
            BY <1>c DEF WorkerPlaces
        <3>1. CASE v = w /\ Waits(q, k)
            BY <1>d, <1>g, <2>1, <2>2, <2>5, <3>1
        <3>2. CASE Held(q, v)
            <4>1. v # w /\ ~Waits(q, k)
                BY <1>a, <1>b, <3>2 DEF Held, WorkerPlaces
            <4> QED BY <1>d, <1>f, <2>1, <2>2, <3>2, <4>1 DEF WorkerPlaces
        <3> QED BY <2>2, <3>1, <3>2
    <2>7. Placed'
        <3>1. \A q \in Requests : phase[q] = "starting" => ~Waits(q, k)
            BY <1>b, <2>5
        <3> QED BY <1>c, <1>d, <2>1, <2>2, <3>1 DEF Placed
    <2>8. Replied' /\ OwnPartitionOnly'
        BY <1>c DEF Replied, OwnPartitionOnly
    <2> QED BY <2>3, <2>4, <2>6, <2>7, <2>8
<1>5. StopInv'
    <2>1. ExitedWorkers' = ExitedWorkers
        BY <1>a, <1>f, <1>g DEF ExitedWorkers, Exited
    <2> QED BY <1>c, <2>1, StopFrame DEF NoCaller
<1> QED
    BY <1>1, <1>2, <1>3, <1>4, <1>5

\* Replacing the list of a completing worker keeps the rest of it.
LEMMA RestReplaced ==
    ASSUME NEW x \in [at : {"complete"}, key : Key, ok : BOOLEAN, rest : Seq(Requests)], NEW new
    PROVE  [x EXCEPT !.rest = new] = [at |-> "complete", key |-> x.key, ok |-> x.ok, rest |-> new]
OBVIOUS

\* A completion is taken off the list in the step that calls it, and no other
\* list has it.
LEMMA CompleteKeeps ==
    ASSUME DnsInv, NEW w \in Workers, Complete(w)
    PROVE  DnsInv'
<1> USE DEF DnsInv, CacheInv, CommandInv, PlaceInv
<1> DEFINE rest == worker[w].rest
           r == Head(rest)
           k == worker[w].key
<1>a. /\ worker[w].at = "complete" /\ k \in Key /\ worker[w].ok \in BOOLEAN
      /\ rest \in Seq(Requests) /\ rest # <<>>
    BY WorkerFacts DEF Complete
<1>b. /\ Len(rest) \in Nat \ {0} /\ r = rest[1] /\ r \in Requests
      /\ Tail(rest) \in Seq(Requests) /\ Len(Tail(rest)) = Len(rest) - 1
      /\ \A n \in 1 .. Len(Tail(rest)) : Tail(rest)[n] = rest[n + 1]
    BY <1>a
<1>0. /\ Reply(r, k, worker[w].ok)
      /\ phase' = [phase EXCEPT ![r] = IF @ = "waiting" THEN "done" ELSE @]
      /\ worker' = [worker EXCEPT ![w].rest = Tail(@)]
      /\ UNCHANGED <<now, asked, inFlight, answers, expirations, commands, service>>
    BY DEF Complete
<1>c. /\ \A v \in Workers \ {w} : worker'[v] = worker[v]
      /\ worker'[w].at = "complete" /\ worker'[w].key = k /\ worker'[w].rest = Tail(rest)
      /\ worker'[w] = [at |-> "complete", key |-> k, ok |-> worker[w].ok, rest |-> Tail(rest)]
    <2>1. worker[w] \in [at : {"complete"}, key : Key, ok : BOOLEAN, rest : Seq(Requests)]
        BY <1>a DEF TypeOK, WorkerState, Idle, Exited
    <2>2. worker'[w] = [worker[w] EXCEPT !.rest = Tail(rest)] /\ \A v \in Workers \ {w} : worker'[v] = worker[v]
        BY <1>0 DEF TypeOK
    <2>3. [worker[w] EXCEPT !.rest = Tail(rest)]
            = [at |-> "complete", key |-> k, ok |-> worker[w].ok, rest |-> Tail(rest)]
        BY <2>1, RestReplaced, Zenon
    <2>4. worker'[w] = [at |-> "complete", key |-> k, ok |-> worker[w].ok, rest |-> Tail(rest)]
        BY <2>2, <2>3
    <2>5. worker'[w].at = "complete" /\ worker'[w].key = k /\ worker'[w].rest = Tail(rest)
        BY <2>4
    <2> QED BY <2>2, <2>4, <2>5
<1>w. worker' \in [Workers -> WorkerState]
    <2>1. worker \in [Workers -> WorkerState]
        BY DEF TypeOK
    <2>2. [at |-> "complete", key |-> k, ok |-> worker[w].ok, rest |-> Tail(rest)] \in WorkerState
        BY <1>a, <1>b DEF WorkerState
    <2>3. worker' = [worker EXCEPT ![w] = worker'[w]]
        BY <1>0, <1>c, <2>1
    <2> QED BY <1>c, <2>1, <2>2, <2>3
<1>d. Held(r, w)
    BY <1>a, <1>b DEF Held
<1>e. r \in DOMAIN asked /\ asked[r] = k /\ phase[r] = "waiting" /\ Len(replies[r]) = 0
    BY <1>b, <1>d DEF WorkerPlaces, Replied
<1>f. /\ replies' \in [Requests -> Seq([from : Key, ok : BOOLEAN])]
      /\ Len(replies'[r]) = 1 /\ (\A i \in DOMAIN replies'[r] : replies'[r][i].from = k)
      /\ \A q \in Requests \ {r} : replies'[q] = replies[q]
    <2> DEFINE e == [from |-> k, ok |-> worker[w].ok]
    <2>1. e \in [from : Key, ok : BOOLEAN] /\ e.from = k
        BY <1>a
    <2>2. replies' = [replies EXCEPT ![r] = Append(@, e)]
        BY <1>0 DEF Reply
    <2> HIDE DEF e
    <2>3. TypeOK
        OBVIOUS
    <2>4. /\ replies' \in [Requests -> Seq([from : Key, ok : BOOLEAN])]
          /\ Len(replies'[r]) = 1 /\ (\A i \in DOMAIN replies'[r] : replies'[r][i].from = e.from)
          /\ \A q \in Requests \ {r} : replies'[q] = replies[q]
        BY <1>b, <1>e, <2>1, <2>2, <2>3, ReplyFacts, Zenon
    <2> QED BY <2>1, <2>4, Zenon
<1>g. phase' = [phase EXCEPT ![r] = "done"]
    BY <1>0, <1>e DEF TypeOK
<1> HIDE DEF r, k, rest
<1>1. TypeOK'
    <2>1. phase' \in [Requests -> {"new", "cached", "starting", "waiting", "done"}]
        BY <1>g DEF TypeOK
    <2> QED BY <1>0, <1>w, <1>f, <2>1 DEF TypeOK
<1>2. (IsFunction(inFlight) /\ IndexExact /\ DOMAIN answers \cap DOMAIN inFlight = {})'
    BY <1>0 DEF IsFunction, IndexExact
<1>3. CommandInv'
    <2>1. \A q \in Requests, j \in Key : Starting(q, j)' <=> Starting(q, j)
        BY <1>0, <1>e, <1>g DEF Starting, TypeOK
    <2>2. \A n \in 1 .. Len(commands), j \in Key : Queued(n, j)' <=> Queued(n, j)
        BY <1>0 DEF Queued
    <2>3. \A v \in Workers, j \in Key : Looking(v, j)' <=> Looking(v, j)
        BY <1>a, <1>c DEF Looking
    <2>4. Len(commands') = Len(commands) /\ DOMAIN inFlight \subseteq Key /\ DOMAIN inFlight' = DOMAIN inFlight
        BY <1>0 DEF TypeOK, IsMap
    <2> QED BY <2>1, <2>2, <2>3, <2>4 DEF OwnedInFlight, OwnerAlone, OwnerThere
<1>4. PlaceInv'
    <2>1. \A q \in Requests, j \in DOMAIN inFlight : Waits(q, j)' <=> Waits(q, j)
        BY <1>0 DEF Waits
    <2>a. \A n \in 1 .. Len(rest), m \in 1 .. Len(rest) : rest[m] = rest[n] => m = n
        BY <1>a DEF ListsDistinct, rest
    <2>2. \A q \in Requests, v \in Workers : Held(q, v)' <=> Held(q, v) /\ ~(v = w /\ q = r)
        <3> SUFFICES ASSUME NEW q \in Requests, NEW v \in Workers
                     PROVE  Held(q, v)' <=> Held(q, v) /\ ~(v = w /\ q = r)
            OBVIOUS
        <3>1. CASE v # w
            BY <1>c, <3>1 DEF Held
        <3>2. CASE v = w
            <4>1. Held(q, w)' <=> \E n \in 1 .. Len(Tail(rest)) : Tail(rest)[n] = q
                BY <1>c DEF Held
            <4>2. Held(q, w) <=> \E n \in 1 .. Len(rest) : rest[n] = q
                BY <1>a DEF Held, rest
            <4>3. ASSUME NEW n \in 1 .. Len(Tail(rest)) PROVE n + 1 \in 1 .. Len(rest) /\ rest[n + 1] # r
                BY <1>b, <2>a
            <4>4. ASSUME NEW n \in 1 .. Len(rest), rest[n] # r
                  PROVE  n - 1 \in 1 .. Len(Tail(rest)) /\ Tail(rest)[n - 1] = rest[n]
                BY <1>b, <4>4
            <4> QED BY <1>b, <3>2, <4>1, <4>2, <4>3, <4>4
        <3> QED BY <3>1, <3>2
    <2>3. ListsDistinct'
        <3>1. ASSUME NEW m \in 1 .. Len(Tail(rest)), NEW n \in 1 .. Len(Tail(rest)), Tail(rest)[m] = Tail(rest)[n]
              PROVE  m = n
            BY <1>b, <2>a, <3>1
        <3>2. ASSUME NEW v \in Workers, worker'[v].at = "complete",
                     NEW m \in 1 .. Len(worker'[v].rest), NEW n \in 1 .. Len(worker'[v].rest),
                     worker'[v].rest[m] = worker'[v].rest[n]
              PROVE  m = n
            <4>1. CASE v = w
                BY <1>c, <3>1, <3>2, <4>1
            <4>2. CASE v # w
                BY <1>c, <3>2, <4>2 DEF ListsDistinct
            <4> QED BY <4>1, <4>2
        <3>3. \A j \in DOMAIN inFlight' : \A m, n \in 1 .. Len(inFlight'[j]) :
                  inFlight'[j][m] = inFlight'[j][n] => m = n
            BY <1>0 DEF ListsDistinct
        <3> QED BY <3>2, <3>3 DEF ListsDistinct
    <2>4. \A v \in Workers : Held(r, v) => v = w
        BY <1>b, <1>d DEF WorkerPlaces
    <2>5. \A j \in DOMAIN inFlight : ~Waits(r, j)
        BY <1>b, <1>d DEF WorkerPlaces
    <2>6. \A v \in Workers : worker[v].at = "complete" => worker'[v].key = worker[v].key
        BY <1>c DEF k
    <2>7. TablePlaces'
        BY <1>0, <1>g, <2>1, <2>5 DEF TablePlaces, TypeOK
    <2>8. WorkerPlaces'
        <3> SUFFICES ASSUME NEW q \in Requests, NEW v \in Workers, Held(q, v)'
                     PROVE  /\ q \in DOMAIN asked /\ asked[q] = worker'[v].key
                            /\ phase'[q] = "waiting"
                            /\ \A j \in DOMAIN inFlight : ~Waits(q, j)'
                            /\ \A u \in Workers : Held(q, u)' => u = v
            BY <1>0 DEF WorkerPlaces
        <3>1. Held(q, v) /\ q # r
            BY <2>2, <2>4
        <3>2. worker[v].at = "complete"
            BY <3>1 DEF Held
        <3>3. phase'[q] = phase[q]
            BY <1>g, <3>1 DEF TypeOK
        <3> QED BY <2>1, <2>2, <2>6, <3>1, <3>2, <3>3 DEF WorkerPlaces
    <2>9. Placed'
        BY <1>0, <1>g, <2>1, <2>2 DEF Placed, TypeOK
    <2>10. Replied'
        <3> SUFFICES ASSUME NEW q \in Requests
                     PROVE  /\ phase'[q] # "new" <=> q \in DOMAIN asked
                            /\ Len(replies'[q]) = IF phase'[q] = "done" THEN 1 ELSE 0
            BY <1>0 DEF Replied
        <3>1. CASE q = r
            BY <1>e, <1>f, <1>g, <3>1 DEF TypeOK
        <3>2. CASE q # r
            BY <1>f, <1>g, <3>2 DEF Replied, TypeOK
        <3> QED BY <3>1, <3>2
    <2>11. OwnPartitionOnly'
        BY <1>0, <1>e, <1>f DEF OwnPartitionOnly
    <2> QED BY <2>3, <2>7, <2>8, <2>9, <2>10, <2>11
<1>5. StopInv'
    <2>1. ExitedWorkers' = ExitedWorkers
        BY <1>a, <1>c DEF ExitedWorkers, Exited
    <2> QED BY <1>0, <1>g, <2>1, StopFrame DEF NoCaller, TypeOK
<1> QED
    BY <1>1, <1>2, <1>3, <1>4, <1>5

\* A worker whose list is empty is free again.
LEMMA CompleteDoneKeeps ==
    ASSUME DnsInv, NEW w \in Workers, CompleteDone(w)
    PROVE  DnsInv'
<1> USE DEF DnsInv, CacheInv, CommandInv, PlaceInv
<1>0. /\ worker[w].at = "complete" /\ worker[w].rest = <<>>
      /\ worker' = [worker EXCEPT ![w] = Idle]
      /\ UNCHANGED <<now, phase, asked, inFlight, answers, expirations, commands, replies, service>>
    BY DEF CompleteDone
<1>a. /\ \A v \in Workers \ {w} : worker'[v] = worker[v]
      /\ worker'[w].at = "idle" /\ worker'[w] # Exited
    BY <1>0 DEF TypeOK, Idle, Exited
<1>1. TypeOK'
    <2>1. worker' \in [Workers -> WorkerState]
        BY <1>0 DEF TypeOK, WorkerState
    <2> QED BY <1>0, <2>1 DEF TypeOK
<1>2. (IsFunction(inFlight) /\ IndexExact /\ DOMAIN answers \cap DOMAIN inFlight = {})'
    BY <1>0 DEF IsFunction, IndexExact
<1>3. CommandInv'
    <2>1. \A q \in Requests, j \in Key : Starting(q, j)' <=> Starting(q, j)
        BY <1>0 DEF Starting
    <2>2. \A n \in 1 .. Len(commands), j \in Key : Queued(n, j)' <=> Queued(n, j)
        BY <1>0 DEF Queued
    <2>3. \A v \in Workers, j \in Key : Looking(v, j)' <=> Looking(v, j)
        BY <1>0, <1>a DEF Looking
    <2>4. Len(commands') = Len(commands) /\ DOMAIN inFlight \subseteq Key /\ DOMAIN inFlight' = DOMAIN inFlight
        BY <1>0 DEF TypeOK, IsMap
    <2> QED BY <2>1, <2>2, <2>3, <2>4 DEF OwnedInFlight, OwnerAlone, OwnerThere
<1>4. PlaceInv'
    <2>1. \A q \in Requests, j \in DOMAIN inFlight : Waits(q, j)' <=> Waits(q, j)
        BY <1>0 DEF Waits
    <2>2. \A q \in Requests, v \in Workers : Held(q, v)' <=> Held(q, v)
        <3>1. \A q \in Requests : ~Held(q, w) /\ ~Held(q, w)'
            BY <1>0, <1>a DEF Held
        <3>2. \A q \in Requests, v \in Workers \ {w} : Held(q, v)' <=> Held(q, v)
            BY <1>a DEF Held
        <3> QED BY <3>1, <3>2
    <2>3. \A q \in Requests, v \in Workers : Held(q, v)' => worker'[v].key = worker[v].key
        BY <1>a DEF Held
    <2>4. ListsDistinct'
        BY <1>0, <1>a DEF ListsDistinct
    <2>5. (TablePlaces /\ Placed)'
        BY <1>0, <2>1, <2>2 DEF TablePlaces, Placed
    <2>6. WorkerPlaces'
        BY <1>0, <2>1, <2>2, <2>3 DEF WorkerPlaces
    <2>7. Replied' /\ OwnPartitionOnly'
        BY <1>0 DEF Replied, OwnPartitionOnly
    <2> QED BY <2>4, <2>5, <2>6, <2>7
<1>5. StopInv'
    <2>1. ExitedWorkers' = ExitedWorkers
        BY <1>0, <1>a DEF ExitedWorkers, Exited
    <2> QED BY <1>0, <2>1, StopFrame DEF NoCaller
<1> QED
    BY <1>1, <1>2, <1>3, <1>4, <1>5

\* The shutdown puts one command per thread behind every lookup.
LEMMA StopWorkersKeeps ==
    ASSUME DnsInv, StopWorkers
    PROVE  DnsInv'
<1> USE DEF DnsInv, CacheInv, CommandInv, PlaceInv
<1> DEFINE N == Cardinality(Workers)
<1>0. /\ service = "open" /\ NoCaller /\ service' = "stopping"
      /\ commands' = commands \o Shutdowns
      /\ UNCHANGED <<now, phase, asked, inFlight, answers, expirations, worker, replies>>
    BY DEF StopWorkers
<1>a. N \in Nat
    BY DnsAssumption, FS_CardinalityType
<1>b. commands \in Seq({Shutdown} \cup {Resolve(j) : j \in Key})
    BY DEF TypeOK
<1>c. /\ Shutdowns \in Seq({Shutdown} \cup {Resolve(j) : j \in Key}) /\ Len(Shutdowns) = N
      /\ \A i \in 1 .. N : Shutdowns[i] = Shutdown
    BY <1>a DEF Shutdowns
<1> HIDE DEF N
<1>d. /\ commands' \in Seq({Shutdown} \cup {Resolve(j) : j \in Key})
      /\ Len(commands') = Len(commands) + N /\ Len(commands) \in Nat
      /\ \A i \in 1 .. Len(commands) : commands'[i] = commands[i]
      /\ \A i \in Len(commands) + 1 .. Len(commands) + N : commands'[i] = Shutdown
    <2>1. commands' \in Seq({Shutdown} \cup {Resolve(j) : j \in Key})
        BY <1>0, <1>b, <1>c
    <2>2. Len(commands') = Len(commands) + N /\ Len(commands) \in Nat
        <3>1. Len(commands \o Shutdowns) = Len(commands) + Len(Shutdowns) /\ Len(commands) \in Nat
            BY <1>b, <1>c
        <3> QED BY <1>0, <1>c, <3>1
    <2>3. \A i \in 1 .. Len(commands) : commands'[i] = commands[i]
        BY <1>0, <1>b, <1>c
    <2>4. ASSUME NEW i \in Len(commands) + 1 .. Len(commands) + N PROVE commands'[i] = Shutdown
        <3>1. i - Len(commands) \in 1 .. N
            BY <1>a, <2>2
        <3>2. commands'[i] = Shutdowns[i - Len(commands)]
            BY <1>0, <1>a, <1>b, <1>c, <2>2
        <3> QED BY <1>c, <3>1, <3>2
    <2> QED BY <2>1, <2>2, <2>3, <2>4
<1>1. TypeOK'
    BY <1>0, <1>d DEF TypeOK
<1>2. (IsFunction(inFlight) /\ IndexExact /\ DOMAIN answers \cap DOMAIN inFlight = {})'
    BY <1>0 DEF IsFunction, IndexExact
<1>3. CommandInv'
    <2>1. \A q \in Requests, j \in Key : Starting(q, j)' <=> Starting(q, j)
        BY <1>0 DEF Starting
    <2>2. \A n \in 1 .. Len(commands'), j \in Key : Queued(n, j)' <=> n \in 1 .. Len(commands) /\ Queued(n, j)
        <3> SUFFICES ASSUME NEW n \in 1 .. Len(commands'), NEW j \in Key
                     PROVE  Queued(n, j)' <=> n \in 1 .. Len(commands) /\ Queued(n, j)
            OBVIOUS
        <3>1. CASE n \in 1 .. Len(commands)
            BY <1>d, <3>1 DEF Queued
        <3>2. CASE n \notin 1 .. Len(commands)
            <4>1. commands'[n] = Shutdown
                BY <1>a, <1>d, <3>2
            <4> QED BY <3>2, <4>1 DEF Queued, Resolve, Shutdown
        <3> QED BY <3>1, <3>2
    <2>3. \A v \in Workers, j \in Key : Looking(v, j)' <=> Looking(v, j)
        BY <1>0 DEF Looking
    <2>4. /\ 1 .. Len(commands) \subseteq 1 .. Len(commands')
          /\ DOMAIN inFlight \subseteq Key /\ DOMAIN inFlight' = DOMAIN inFlight
        BY <1>0, <1>a, <1>d DEF TypeOK, IsMap
    <2> QED BY <2>1, <2>2, <2>3, <2>4 DEF OwnedInFlight, OwnerAlone, OwnerThere
<1>4. PlaceInv'
    <2>1. \A q \in Requests, j \in DOMAIN inFlight : Waits(q, j)' <=> Waits(q, j)
        BY <1>0 DEF Waits
    <2>2. \A q \in Requests, v \in Workers : Held(q, v)' <=> Held(q, v)
        BY <1>0 DEF Held
    <2>3. ListsDistinct'
        BY <1>0 DEF ListsDistinct
    <2>4. (TablePlaces /\ WorkerPlaces /\ Placed)'
        BY <1>0, <2>1, <2>2 DEF TablePlaces, WorkerPlaces, Placed
    <2>5. Replied' /\ OwnPartitionOnly'
        BY <1>0 DEF Replied, OwnPartitionOnly
    <2> QED BY <2>3, <2>4, <2>5
<1>5. StopInv'
    <2>1. /\ \A i \in 1 .. Len(commands) : commands[i].kind = "resolve"
          /\ ExitedWorkers = {}
        BY <1>0, <1>d DEF StopInv
    <2>2. \A i \in 1 .. Len(commands') :
              commands'[i].kind = IF i <= Len(commands) THEN "resolve" ELSE "shutdown"
        <3> SUFFICES ASSUME NEW i \in 1 .. Len(commands')
                     PROVE  commands'[i].kind = IF i <= Len(commands) THEN "resolve" ELSE "shutdown"
            OBVIOUS
        <3>1. CASE i <= Len(commands)
            BY <1>d, <2>1, <3>1
        <3>2. CASE ~(i <= Len(commands))
            <4>1. commands'[i] = Shutdown
                BY <1>a, <1>d, <3>2
            <4> QED BY <3>2, <4>1 DEF Shutdown
        <3> QED BY <3>1, <3>2
    <2>3. ExitedWorkers' = {} /\ NoCaller'
        BY <1>0, <2>1 DEF ExitedWorkers, NoCaller
    <2>4. Cardinality(ExitedWorkers') = 0
        BY <2>3, FS_EmptySet
    <2>5. (Len(commands') - Len(commands)) + Cardinality(ExitedWorkers') = Cardinality(Workers)
        BY <1>a, <1>d, <2>4 DEF N
    <2>6. Len(commands) \in 0 .. Len(commands')
        BY <1>a, <1>d
    <2> QED BY <1>0, <2>2, <2>3, <2>5, <2>6 DEF StopInv
<1> QED
    BY <1>1, <1>2, <1>3, <1>4, <1>5

\* Nothing but the clock changes when time passes, or nothing at all.
LEMMA TickKeeps ==
    ASSUME DnsInv, Tick \/ UNCHANGED vars
    PROVE  DnsInv'
<1> USE DEF DnsInv, CacheInv, CommandInv, PlaceInv
<1>0. UNCHANGED <<phase, asked, inFlight, answers, expirations, commands, worker, replies, service>>
    BY DEF Tick, vars
<1>1. TypeOK'
    <2>1. now' \in 0 .. MaxTime
        BY DnsAssumption DEF Tick, vars, TypeOK
    <2> QED BY <1>0, <2>1 DEF TypeOK
<1>2. (IsFunction(inFlight) /\ IndexExact /\ DOMAIN answers \cap DOMAIN inFlight = {})'
    BY <1>0 DEF IsFunction, IndexExact
<1>3. CommandInv'
    BY <1>0 DEF OwnedInFlight, OwnerAlone, OwnerThere, Starting, Queued, Looking
<1>4. PlaceInv'
    <2>1. \A q \in Requests, j \in DOMAIN inFlight : Waits(q, j)' <=> Waits(q, j)
        BY <1>0 DEF Waits
    <2>2. \A q \in Requests, v \in Workers : Held(q, v)' <=> Held(q, v)
        BY <1>0 DEF Held
    <2>3. (ListsDistinct /\ Replied /\ OwnPartitionOnly)'
        BY <1>0 DEF ListsDistinct, Replied, OwnPartitionOnly
    <2> QED BY <1>0, <2>1, <2>2, <2>3 DEF TablePlaces, WorkerPlaces, Placed
<1>5. StopInv'
    BY <1>0, StopFrame DEF ExitedWorkers, NoCaller
<1> QED
    BY <1>1, <1>2, <1>3, <1>4, <1>5

-----------------------------------------------------------------------------
(* The theorems.                                                           *)

\* A service without requests satisfies the invariant.
LEMMA DnsInit == Init => DnsInv
<1> SUFFICES ASSUME Init PROVE DnsInv
    OBVIOUS
<1> USE DEF Init
<1>0. DOMAIN asked = {} /\ DOMAIN inFlight = {} /\ DOMAIN answers = {} /\ Len(commands) = 0
    OBVIOUS
<1>a. \A w \in Workers : worker[w] = Idle /\ worker[w].at = "idle"
    BY DEF PoolStarted, Idle
<1>1. TypeOK
    <2>1. now \in 0 .. MaxTime /\ worker \in [Workers -> WorkerState]
        BY DnsAssumption DEF PoolStarted, WorkerState
    <2>2. commands \in Seq({Shutdown} \cup {Resolve(k) : k \in Key})
        OBVIOUS
    <2>3. replies \in [Requests -> Seq([from : Key, ok : BOOLEAN])]
        OBVIOUS
    <2> QED BY <1>0, <2>1, <2>2, <2>3 DEF TypeOK, IsMap
<1>2. IsFunction(inFlight) /\ IndexExact /\ DOMAIN answers \cap DOMAIN inFlight = {}
    BY <1>0 DEF IsFunction, IndexExact
<1>3. CommandInv
    BY <1>0, <1>a DEF CommandInv, OwnedInFlight, OwnerAlone, OwnerThere, Starting, Looking
<1>4. PlaceInv
    BY <1>0, <1>a DEF PlaceInv, ListsDistinct, TablePlaces, WorkerPlaces, Placed, Replied, OwnPartitionOnly, Held
<1>5. StopInv
    <2>1. ExitedWorkers = {}
        BY <1>a DEF ExitedWorkers, Exited
    <2> QED BY <1>0, <2>1 DEF StopInv
<1> QED
    BY <1>1, <1>2, <1>3, <1>4, <1>5 DEF DnsInv, CacheInv

\* Every step of callers, workers and the service keeps it.
LEMMA DnsStep == DnsInv /\ [Next]_vars => DnsInv'
<1> SUFFICES ASSUME DnsInv, [Next]_vars PROVE DnsInv'
    OBVIOUS
<1>1. ASSUME NEW r \in Requests, Caller(r) PROVE DnsInv'
    BY <1>1, RejectReservedKeeps, AdmitCachedKeeps, AdmitCoalescedKeeps, AdmitStartKeeps, AnswerCachedKeeps,
       SendCommandKeeps DEF Caller
<1>2. ASSUME NEW w \in Workers, Worker(w) PROVE DnsInv'
    BY <1>2, ReceiveKeeps, PublishKeeps, CompleteKeeps, CompleteDoneKeeps DEF Worker
<1>3. CASE StopWorkers
    BY <1>3, StopWorkersKeeps
<1>4. CASE Tick \/ UNCHANGED vars
    BY <1>4, TickKeeps
<1> QED
    BY <1>1, <1>2, <1>3, <1>4 DEF Next

\* The invariant holds in every reachable state of the resolver.
THEOREM DnsInvariant == Spec => []DnsInv
BY DnsInit, DnsStep, PTL DEF Spec

\* A request is in exactly one place: from a unique position of a unique list
\* follow the cardinalities of the table's and the workers' share.
LEMMA PlacesCounted == DnsInv => ConsumedOnce
<1> SUFFICES ASSUME DnsInv, NEW r \in Requests
             PROVE  Cardinality(InTable(r)) + Cardinality(WithWorker(r)) + Len(replies[r])
                        + (IF phase[r] = "cached" THEN 1 ELSE 0)
                      = IF phase[r] = "new" THEN 0 ELSE 1
    BY DEF ConsumedOnce
<1> USE DEF DnsInv, CacheInv, PlaceInv
<1>1. InTable(r) = {k \in DOMAIN inFlight : Waits(r, k)}
    BY DEF InTable, ToSet, Waits, TypeOK, IsMap
<1>2. WithWorker(r) = {w \in Workers : Held(r, w)}
    <2>1. \A w \in Workers : worker[w].at = "complete" => worker[w].rest \in Seq(Requests)
        BY WorkerFacts
    <2> QED BY <2>1 DEF WithWorker, ToSet, Held
<1>3. InTable(r) # {} => InTable(r) = {asked[r]} /\ WithWorker(r) = {}
                         /\ phase[r] \in {"starting", "waiting"}
    BY <1>1, <1>2 DEF TablePlaces, WorkerPlaces
<1>4. WithWorker(r) # {} => (\E w : WithWorker(r) = {w}) /\ InTable(r) = {} /\ phase[r] = "waiting"
    <2> SUFFICES ASSUME NEW w \in Workers, Held(r, w)
                 PROVE  WithWorker(r) = {w} /\ InTable(r) = {} /\ phase[r] = "waiting"
        BY <1>2
    <2> QED BY <1>1, <1>2 DEF WorkerPlaces
<1>5. phase[r] \in {"starting", "waiting"} => InTable(r) # {} \/ WithWorker(r) # {}
    BY <1>1, <1>2 DEF Placed
<1>6. Cardinality({}) = 0 /\ \A x : Cardinality({x}) = 1
    BY FS_EmptySet, FS_Singleton
<1>7. phase[r] \in {"new", "cached", "starting", "waiting", "done"}
    BY DEF TypeOK
<1>8. Len(replies[r]) = IF phase[r] = "done" THEN 1 ELSE 0
    BY DEF Replied
<1>9. CASE phase[r] \in {"starting", "waiting"}
    <2>1. CASE InTable(r) # {}
        <3>1. Cardinality(InTable(r)) = 1 /\ Cardinality(WithWorker(r)) = 0
            BY <1>3, <1>6, <2>1
        <3> QED BY <1>8, <1>9, <3>1
    <2>2. CASE WithWorker(r) # {}
        <3>1. Cardinality(InTable(r)) = 0 /\ Cardinality(WithWorker(r)) = 1
            BY <1>4, <1>6, <2>2
        <3> QED BY <1>8, <1>9, <3>1
    <2> QED BY <1>5, <1>9, <2>1, <2>2
<1>10. CASE phase[r] \in {"new", "cached", "done"}
    <2>1. Cardinality(InTable(r)) = 0 /\ Cardinality(WithWorker(r)) = 0
        BY <1>3, <1>4, <1>6, <1>10
    <2> QED BY <1>8, <1>10, <2>1
<1> QED
    BY <1>7, <1>9, <1>10

\* "The callback is consumed exactly once", by an answer of its own partition
\* and target, and the expiry index of the cache names every answer once
\* (state.rs: admit and finish; worker_pool.rs: publish_lookup_result;
\* positive_cache.rs).
THEOREM AnsweredExactlyHolds == Spec => []AnsweredExactly
<1>1. DnsInv => AnsweredExactly
    BY PlacesCounted DEF AnsweredExactly, DnsInv, CacheInv, PlaceInv
<1> QED
    BY <1>1, DnsInvariant, PTL

\* A key is in flight exactly while one command for it exists: "a Start result
\* means this call owns the only worker command for the key".
THEOREM OneCommandPerKeyHolds == Spec => []OneCommandPerKey
<1>1. DnsInv => OneCommandPerKey
    <2> SUFFICES ASSUME DnsInv, NEW k \in Key
                 PROVE  Cardinality(Owners(k)) = IF k \in DOMAIN inFlight THEN 1 ELSE 0
        BY DEF OneCommandPerKey
    <2> USE DEF DnsInv, CacheInv, CommandInv
    <2>1. DOMAIN commands = 1 .. Len(commands)
        BY DEF TypeOK
    <2>2. Owners(k) = {<<"caller", r>> : r \in {q \in Requests : Starting(q, k)}}
              \cup {<<"queued", i>> : i \in {j \in 1 .. Len(commands) : Queued(j, k)}}
              \cup {<<"worker", w>> : w \in {v \in Workers : Looking(v, k)}}
        BY <2>1 DEF Owners, Starting, Queued, Looking
    <2>3. CASE k \notin DOMAIN inFlight
        <3>1. Owners(k) = {}
            BY <2>2, <2>3 DEF OwnedInFlight
        <3> QED BY <2>3, <3>1, FS_EmptySet
    <2>4. CASE k \in DOMAIN inFlight
        <3>1. CASE \E r \in Requests : Starting(r, k)
            <4>1. PICK r \in Requests : Starting(r, k)
                BY <3>1
            <4>2. Owners(k) = {<<"caller", r>>}
                BY <2>2, <4>1 DEF OwnerAlone
            <4> QED BY <2>4, <4>2, FS_Singleton
        <3>2. CASE \E n \in 1 .. Len(commands) : Queued(n, k)
            <4>1. PICK n \in 1 .. Len(commands) : Queued(n, k)
                BY <3>2
            <4>2. Owners(k) = {<<"queued", n>>}
                BY <2>2, <4>1 DEF OwnerAlone
            <4> QED BY <2>4, <4>2, FS_Singleton
        <3>3. CASE \E w \in Workers : Looking(w, k)
            <4>1. PICK w \in Workers : Looking(w, k)
                BY <3>3
            <4>2. Owners(k) = {<<"worker", w>>}
                BY <2>2, <4>1 DEF OwnerAlone
            <4> QED BY <2>4, <4>2, FS_Singleton
        <3> QED BY <2>4, <3>1, <3>2, <3>3 DEF OwnerThere
    <2> QED BY <2>3, <2>4
<1> QED
    BY <1>1, DnsInvariant, PTL

\* When every thread of the pool has returned, no lookup is queued or in
\* flight and every call has been answered (worker_pool.rs: stop_workers,
\* run_worker).
THEOREM ShutdownStrandsNobodyHolds == Spec => []ShutdownStrandsNobody
<1>1. DnsInv => ShutdownStrandsNobody
    <2> SUFFICES ASSUME DnsInv, \A w \in Workers : worker[w] = Exited
                 PROVE  /\ commands = <<>> /\ inFlight = <<>>
                        /\ \A r \in Requests : phase[r] \in {"new", "done"}
        BY DEF ShutdownStrandsNobody
    <2> USE DEF DnsInv, CacheInv, CommandInv, PlaceInv
    <2>1. ExitedWorkers = Workers /\ Workers # {}
        BY DnsAssumption DEF ExitedWorkers
    <2>2. Cardinality(Workers) \in Nat
        BY DnsAssumption, FS_CardinalityType
    <2>3. Len(commands) \in Nat
        BY DEF TypeOK
    <2>4. Len(commands) = 0 /\ NoCaller
        BY <2>1, <2>2, <2>3 DEF StopInv, TypeOK
    <2>5. \A w \in Workers : worker[w].at = "exited"
        BY DEF Exited
    <2>6. DOMAIN inFlight = {}
        <3>1. \A k \in DOMAIN inFlight : \E r \in Requests : phase[r] = "starting"
            BY <2>4, <2>5 DEF OwnerThere, Looking, Starting
        <3> QED BY <2>4, <3>1 DEF NoCaller
    <2>7. commands = <<>>
        BY <2>4 DEF TypeOK
    <2>8. inFlight = <<>>
        BY <2>6 DEF IsFunction
    <2>9. \A r \in Requests : phase[r] \in {"new", "done"}
        BY <2>4, <2>5, <2>6 DEF NoCaller, Placed, Held, TypeOK
    <2> QED BY <2>7, <2>8, <2>9
<1> QED
    BY <1>1, DnsInvariant, PTL

\* A cached answer is served only before it expires, and never while a lookup
\* for the same key is in flight (positive_cache.rs: get and
\* retire_expired).
THEOREM HitIsFreshHolds == Spec => HitIsFresh
<1> DEFINE Fresh == \A r \in Requests : phase[r] = "new" /\ phase'[r] = "cached" =>
                        LET k == asked'[r]
                        IN  k \in DOMAIN answers /\ now < answers[k] /\ k \notin DOMAIN inFlight
<1>1. DnsInv /\ [Next]_vars => [Fresh]_vars
    <2> SUFFICES ASSUME DnsInv, Next, NEW r \in Requests, phase[r] = "new", phase'[r] = "cached"
                 PROVE  /\ asked'[r] \in DOMAIN answers /\ now < answers[asked'[r]]
                        /\ asked'[r] \notin DOMAIN inFlight
        OBVIOUS
    <2>0. phase \in [Requests -> {"new", "cached", "starting", "waiting", "done"}]
        BY DEF DnsInv, CacheInv, TypeOK
    <2>1. \E q \in Requests, k \in Key : AdmitCached(q, k) /\ q = r
        <3>1. ASSUME NEW w \in Workers, Complete(w) PROVE FALSE
            <4>1. PICK q : phase' = [phase EXCEPT ![q] = IF @ = "waiting" THEN "done" ELSE @]
                BY <3>1 DEF Complete
            <4> QED BY <2>0, <4>1
        <3>2. ASSUME NEW w \in Workers, Worker(w) PROVE FALSE
            BY <3>1, <3>2 DEF Worker, Receive, Publish, CompleteDone
        <3>3. ~StopWorkers /\ ~Tick
            BY DEF StopWorkers, Tick
        <3>4. PICK q \in Requests : Caller(q)
            BY <3>2, <3>3 DEF Next
        <3>5. ~AnswerCached(q) /\ ~SendCommand(q)
            BY <2>0 DEF AnswerCached, SendCommand
        <3>6. ASSUME NEW k \in Key, RejectReserved(q, k) \/ AdmitCoalesced(q, k) \/ AdmitStart(q, k) PROVE FALSE
            BY <2>0, <3>6 DEF RejectReserved, AdmitCoalesced, AdmitStart
        <3>7. PICK k \in Key : AdmitCached(q, k)
            BY <3>4, <3>5, <3>6 DEF Caller
        <3>8. q = r
            BY <2>0, <3>7 DEF AdmitCached
        <3> QED BY <3>7, <3>8
    <2>2. PICK k \in Key : AdmitCached(r, k)
        BY <2>1
    <2>3. Asks(r, k) /\ CacheGet(k)
        BY <2>2 DEF AdmitCached
    <2>4. asked'[r] = k
        BY <2>3, AsksFacts
    <2>5. k \in DOMAIN answers /\ now < answers[k]
        BY <2>3, GetKeeps DEF DnsInv, CacheInv
    <2>6. k \notin DOMAIN inFlight
        BY <2>5 DEF DnsInv, CacheInv
    <2> QED BY <2>4, <2>5, <2>6
<1> QED
    BY <1>1, DnsInvariant, PTL DEF Spec, HitIsFresh
=============================================================================
