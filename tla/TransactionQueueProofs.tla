------------------------ MODULE TransactionQueueProofs ------------------------
(***************************************************************************)
(* Proofs about TransactionQueue, for every set of transactions, spread    *)
(* over any connections, with any modes and scopes, and any number of      *)
(* closings, retirements and teardowns; and, in the second part, about     *)
(* MessagePorts, for any pages, workers, channels, calls and deaths.  The  *)
(* two share no constant and no variable, only OrderedRemoval.             *)
(***************************************************************************)
EXTENDS TransactionQueue, MessagePorts, FiniteSetTheorems, WellFoundedInduction, TLAPS

------------------------------------------------------------------------------
(* The inductive invariant.                                                *)

Messages ==
    [op : Ops, request : Requests]
        \cup [op : {"retire"}, connection : Connections, forced : BOOLEAN]
        \cup [op : {"stop"}]

OwnerStates ==
    [at : {"idle", "close", "publish", "drain", "stopped"}]
        \cup [at : {"begin", "finish"}, request : Requests]
        \cup [at : {"refuse", "remove", "cancel", "closed"}, connection : Connections, forced : BOOLEAN]
        \cup [at : {"cancelAll", "retireAll"}, connections : SUBSET Connections]
        \cup [at : {"mark"}, connections : SUBSET Connections, canceled : SUBSET Requests]

Admitted(r) == r \in ToSet(queue)
NoAdmission(c) == \A r \in Requests : Admitted(r) => ConnOf[r] # c

\* A transaction enters the queue once, from its page's call.
QueueDistinct == \A i, j \in DOMAIN queue : queue[i] = queue[j] => i = j
NewUnqueued == \A r \in Requests : phase[r] = "none" => ~Admitted(r)

\* No entry that may start stands behind one it conflicts with.
ReadyUnblocked ==
    \A i \in DOMAIN queue : status[queue[i]] \in {"Ready", "Started"} => Unblocked(queue, i)

\* SQLite runs what the owner has started, and that is admitted.
StartedAdmitted ==
    /\ sql \subseteq started
    /\ \A r \in started : Admitted(r) /\ status[r] = "Started"

\* Whoever has an admission is told when its connection goes; and a
\* connection is taken from the records only when it accepts no more.
AdmittedAttached ==
    \A r \in Requests : Admitted(r) => ConnOf[r] \in registered \cup forcedClose
GoneRefuses == \A c \in Connections : c \in registered \cup closePending \/ dbClosed

\* A retirement is on its way only for a connection that refuses new work.
RetireAnnounced ==
    \A i \in DOMAIN mailbox :
        mailbox[i].op = "retire" => mailbox[i].connection \in closePending

\* What the owner has established at each stage of its work.
OwnerKnows ==
    /\ owner.at = "begin" =>
           /\ Admitted(owner.request) /\ status[owner.request] = "Started"
           /\ owner.request \notin started
    /\ owner.at = "finish" => owner.request \notin sql
    /\ owner.at = "refuse" => owner.connection \in closePending
    /\ owner.at \in {"remove", "cancel", "closed"} =>
           /\ owner.connection \in closePending
           /\ \A r \in sql : ConnOf[r] # owner.connection
    /\ owner.at = "remove" /\ ~owner.forced => NoAdmission(owner.connection)
    /\ owner.at = "cancel" => owner.connection \in forcedClose
    /\ owner.at = "closed" => NoAdmission(owner.connection)
    /\ owner.at \in {"publish", "cancelAll", "mark", "retireAll", "drain", "stopped"} => sql = {}
    /\ owner.at \in {"cancelAll", "mark", "retireAll", "drain", "stopped"} =>
           dbClosed /\ started = {}
    /\ owner.at \in {"mark", "retireAll"} => \A r \in Requests : ~Admitted(r)
    /\ owner.at = "cancelAll" => \A r \in Requests : Admitted(r) => ConnOf[r] \in forcedClose
    /\ owner.at = "mark" => \A r \in owner.canceled : ConnOf[r] \in forcedClose

ClosedUnused == \A c \in closed : NoAdmission(c)

TransactionInv ==
    /\ TypeOK /\ mailbox \in Seq(Messages) /\ owner \in OwnerStates
    /\ QueueDistinct /\ NewUnqueued /\ ReadyUnblocked /\ StartedAdmitted
    /\ AdmittedAttached /\ GoneRefuses /\ RetireAnnounced /\ OwnerKnows
    /\ CanceledIsRolledBack /\ ClosedUnused

------------------------------------------------------------------------------
(* Removal from a sequence.  What a recursive function computes is proved  *)
(* by looking at the least index at which it fails.                        *)

\* A relation that contains < has only least elements of a set as minimal ones.
LEMMA LeastOfRelation ==
    ASSUME NEW R, NEW T, T \subseteq Nat,
           \E x \in T : \A y \in T : ~ (<<y, x>> \in R),
           \A x, y \in Nat : x < y => <<x, y>> \in R
    PROVE  \E n \in T : \A m \in T : n <= m
<1>1. PICK x \in T : \A y \in T : ~ (<<y, x>> \in R)
    BY Zenon
<1>2. \A y \in T : ~ (y < x)
    <2> SUFFICES ASSUME NEW y \in T, y < x PROVE FALSE
        OBVIOUS
    <2>1. x \in Nat /\ y \in Nat
        OBVIOUS
    <2>2. <<y, x>> \in R
        BY <2>1, Zenon
    <2> QED BY <1>1, <2>2, Zenon
<1>3. \A y \in T : y \in Nat
    BY Zenon
<1> QED BY <1>2, <1>3

\* A non-empty set of naturals has a least member.
LEMMA LeastNumber ==
    ASSUME NEW T, T \subseteq Nat, T # {}
    PROVE  \E n \in T : \A m \in T : n <= m
<1>1. \E x \in T : \A y \in T : ~ (<<y, x>> \in OpToRel(<, Nat))
    BY NatLessThanWellFounded, WFMin, Zenon
<1>2. \A x, y \in Nat : x < y => <<x, y>> \in OpToRel(<, Nat)
    BY DEF OpToRel
<1> QED
    BY <1>1, <1>2, LeastOfRelation, Zenon

\* The body of the function in Without.
KeptStep(g, s, S, i) ==
    IF i = 0 THEN <<>> ELSE IF s[i] \in S THEN g[i - 1] ELSE Append(g[i - 1], s[i])

\* The recursion in Without defines a function on all of 0 .. Len(s).
LEMMA WithoutUnfolds ==
    ASSUME NEW R, NEW s \in Seq(R), NEW S
    PROVE  \E f : /\ Without(s, S) = f[Len(s)]
                  /\ f = [i \in 0 .. Len(s) |-> KeptStep(f, s, S, i)]
<1> DEFINE Good(n) == \E g : g = [i \in 0 .. n |-> KeptStep(g, s, S, i)]
           T == {n \in 0 .. Len(s) : ~Good(n)}
           F == CHOOSE f : f = [i \in 0 .. Len(s) |-> KeptStep(f, s, S, i)]
<1>1. Without(s, S) = F[Len(s)]
    BY DEF Without, KeptStep
<1>2. Len(s) \in Nat
    OBVIOUS
<1>3. T = {}
    <2> SUFFICES ASSUME T # {} PROVE FALSE
        OBVIOUS
    <2>1. T \subseteq Nat
        BY <1>2
    <2> HIDE DEF T
    <2>2. PICK n \in T : \A m \in T : n <= m
        BY <2>1, LeastNumber, Zenon
    <2> USE DEF T
    <2>3. n \in 0 .. Len(s) /\ ~Good(n)
        OBVIOUS
    <2>4. CASE n = 0
        <3> DEFINE g == [i \in 0 .. 0 |-> <<>>]
        <3>1. g = [i \in 0 .. 0 |-> KeptStep(g, s, S, i)]
            BY DEF KeptStep
        <3> HIDE DEF g
        <3> QED BY <3>1, <2>3, <2>4
    <2>5. CASE n # 0
        <3>1. n - 1 \in 0 .. Len(s) /\ ~(n <= n - 1)
            BY <2>3, <2>5, <1>2
        <3>2. Good(n - 1)
            BY <3>1, <2>2
        <3>3. PICK g : g = [i \in 0 .. (n - 1) |-> KeptStep(g, s, S, i)]
            BY <3>2
        <3> DEFINE h == [i \in 0 .. n |-> IF i = n THEN KeptStep(g, s, S, n) ELSE g[i]]
        <3>4. \A i \in 0 .. n : i # n => i \in 0 .. (n - 1) /\ h[i] = g[i]
            BY <2>3, <1>2
        <3>5. \A i \in 0 .. n : KeptStep(h, s, S, i) = KeptStep(g, s, S, i)
            <4> SUFFICES ASSUME NEW i \in 0 .. n
                         PROVE  KeptStep(h, s, S, i) = KeptStep(g, s, S, i)
                OBVIOUS
            <4>1. i # 0 => h[i - 1] = g[i - 1]
                BY <2>3, <1>2
            <4> HIDE DEF h
            <4> QED BY <4>1 DEF KeptStep
        <3>6. \A i \in 0 .. (n - 1) : g[i] = KeptStep(g, s, S, i)
            BY <3>3
        <3>7. \A i \in 0 .. n : h[i] = KeptStep(g, s, S, i)
            BY <3>4, <3>6
        <3>8. h = [i \in 0 .. n |-> h[i]]
            OBVIOUS
        <3> HIDE DEF h
        <3>9. h = [i \in 0 .. n |-> KeptStep(h, s, S, i)]
            BY <3>5, <3>7, <3>8
        <3> QED BY <3>9, <2>3
    <2> QED BY <2>4, <2>5
<1>4. Good(Len(s))
    BY <1>2, <1>3
<1>5. F = [i \in 0 .. Len(s) |-> KeptStep(F, s, S, i)]
    BY <1>4
<1> HIDE DEF F
<1> QED BY <1>1, <1>5

\* q holds the first n members of s that are not in S: at maps the places of
\* q to their places in s, and keeps the order.
KeptAt(q, at, s, S, n) ==
    /\ at \in [1 .. Len(q) -> 1 .. n]
    /\ \A i \in 1 .. Len(q) : q[i] = s[at[i]] /\ q[i] \notin S
    /\ \A i, j \in 1 .. Len(q) : i < j => at[i] < at[j]
    /\ \A k \in 1 .. n : s[k] \notin S => \E i \in 1 .. Len(q) : at[i] = k

\* Without removes exactly the members of S and keeps the order of the rest.
LEMMA WithoutFacts ==
    ASSUME NEW R, NEW s \in Seq(R), NEW S
    PROVE  /\ Without(s, S) \in Seq(R)
           /\ \E at : KeptAt(Without(s, S), at, s, S, Len(s))
<1>1. PICK f : /\ Without(s, S) = f[Len(s)]
               /\ f = [i \in 0 .. Len(s) |-> KeptStep(f, s, S, i)]
    BY WithoutUnfolds
<1> DEFINE Good(n) == f[n] \in Seq(R) /\ \E at : KeptAt(f[n], at, s, S, n)
           T == {n \in 0 .. Len(s) : ~Good(n)}
<1>2. Len(s) \in Nat /\ \A i \in 1 .. Len(s) : s[i] \in R
    OBVIOUS
<1>3. \A i \in 0 .. Len(s) : f[i] = KeptStep(f, s, S, i)
    BY <1>1
<1>4. T = {}
    <2> SUFFICES ASSUME T # {} PROVE FALSE
        OBVIOUS
    <2>1. T \subseteq Nat
        BY <1>2
    <2> HIDE DEF T
    <2>2. PICK n \in T : \A m \in T : n <= m
        BY <2>1, LeastNumber, Zenon
    <2> USE DEF T
    <2>3. n \in 0 .. Len(s) /\ ~Good(n)
        OBVIOUS
    <2>4. CASE n = 0
        <3>1. f[0] = <<>>
            BY <1>2, <1>3 DEF KeptStep
        <3> DEFINE at == [i \in 1 .. 0 |-> 0]
        <3>2. KeptAt(<<>>, at, s, S, 0)
            BY DEF KeptAt
        <3> HIDE DEF at
        <3> QED BY <2>3, <2>4, <3>1, <3>2
    <2>5. CASE n # 0
        <3>1. n - 1 \in 0 .. Len(s) /\ ~(n <= n - 1) /\ n \in 1 .. Len(s)
            BY <2>3, <2>5, <1>2
        <3>2. Good(n - 1)
            BY <3>1, <2>2
        <3> DEFINE q == f[n - 1]
        <3>3. PICK at : KeptAt(q, at, s, S, n - 1)
            BY <3>2
        <3>4. q \in Seq(R)
            BY <3>2
        <3>5. f[n] = IF s[n] \in S THEN q ELSE Append(q, s[n])
            BY <1>3, <2>5, <3>1 DEF KeptStep
        <3>6. s[n] \in R
            BY <1>2, <3>1
        <3> HIDE DEF q
        <3>7. CASE s[n] \in S
            <4>1. \A k \in 1 .. n : k = n \/ k \in 1 .. (n - 1)
                BY <1>2, <3>1
            <4>2. \A k \in 1 .. (n - 1) : k \in 1 .. n
                BY <1>2, <3>1
            <4>3. KeptAt(q, at, s, S, n)
                <5>1. at \in [1 .. Len(q) -> 1 .. n]
                    BY <3>3, <4>2 DEF KeptAt
                <5>2. \A k \in 1 .. n : s[k] \notin S => \E i \in 1 .. Len(q) : at[i] = k
                    BY <3>3, <3>7, <4>1 DEF KeptAt
                <5> QED BY <3>3, <5>1, <5>2 DEF KeptAt
            <4> QED BY <2>3, <3>4, <3>5, <3>7, <4>3
        <3>8. CASE s[n] \notin S
            <4> DEFINE p == Append(q, s[n])
                       new == [i \in 1 .. Len(p) |-> IF i = Len(p) THEN n ELSE at[i]]
            <4>1. /\ p \in Seq(R) /\ Len(p) = Len(q) + 1 /\ Len(q) \in Nat
                  /\ p[Len(p)] = s[n]
                  /\ \A i \in 1 .. Len(q) : p[i] = q[i]
                BY <3>4, <3>6
            <4>2. \A i \in 1 .. Len(p) : i = Len(p) \/ i \in 1 .. Len(q)
                BY <4>1
            <4>3. /\ \A i \in 1 .. Len(q) : i \in 1 .. Len(p) /\ new[i] = at[i]
                  /\ Len(p) \in 1 .. Len(p) /\ new[Len(p)] = n
                BY <4>1
            <4> HIDE DEF p
            <4>4. new \in [1 .. Len(p) -> 1 .. n]
                BY <1>2, <3>1, <3>3, <4>2 DEF KeptAt
            <4> HIDE DEF new
            <4>5. \A i \in 1 .. Len(p) : p[i] = s[new[i]] /\ p[i] \notin S
                BY <3>3, <3>8, <4>1, <4>2, <4>3 DEF KeptAt
            <4>6. \A i, j \in 1 .. Len(p) : i < j => new[i] < new[j]
                <5> SUFFICES ASSUME NEW i \in 1 .. Len(p), NEW j \in 1 .. Len(p), i < j
                             PROVE  new[i] < new[j]
                    OBVIOUS
                <5>1. i \in 1 .. Len(q) /\ new[i] = at[i] /\ at[i] \in 1 .. (n - 1)
                    BY <3>3, <4>1, <4>2, <4>3 DEF KeptAt
                <5>2. CASE j = Len(p)
                    BY <1>2, <3>1, <4>3, <5>1, <5>2
                <5>3. CASE j \in 1 .. Len(q)
                    BY <3>3, <4>3, <5>1, <5>3 DEF KeptAt
                <5> QED BY <4>2, <5>2, <5>3
            <4>7. \A k \in 1 .. n : s[k] \notin S => \E i \in 1 .. Len(p) : new[i] = k
                <5> SUFFICES ASSUME NEW k \in 1 .. n, s[k] \notin S
                             PROVE  \E i \in 1 .. Len(p) : new[i] = k
                    OBVIOUS
                <5>1. CASE k = n
                    BY <4>3, <5>1
                <5>2. CASE k # n
                    <6>1. k \in 1 .. (n - 1)
                        BY <1>2, <3>1, <5>2
                    <6>2. PICK i \in 1 .. Len(q) : at[i] = k
                        BY <3>3, <6>1 DEF KeptAt
                    <6> QED BY <4>3, <6>2
                <5> QED BY <5>1, <5>2
            <4>8. KeptAt(p, new, s, S, n)
                BY <4>4, <4>5, <4>6, <4>7 DEF KeptAt
            <4>9. f[n] = p
                BY <3>5, <3>8 DEF p
            <4> QED BY <2>3, <4>1, <4>8, <4>9
        <3> QED BY <3>7, <3>8
    <2> QED BY <2>4, <2>5
<1>5. Good(Len(s))
    BY <1>2, <1>4
<1> QED BY <1>1, <1>5

------------------------------------------------------------------------------
(* The queue.                                                              *)

\* TypeOK, one variable at a time.
LEMMA TypeParts ==
    TypeOK <=>
        /\ queue \in Seq(Requests)
        /\ status \in [Requests -> {"New", "Pending", "Ready", "Started", "Canceled", "Finished"}]
        /\ phase \in [Requests -> {"none", "waiting", "starting", "begun", "active", "failed",
                                   "committing", "ending", "ended", "rejected", "done"}]
        /\ scan \subseteq Connections /\ dying \subseteq Connections
        /\ registered \subseteq Connections /\ closePending \subseteq Connections
        /\ retireRequested \subseteq Connections /\ inFlight \subseteq Connections
        /\ forcedClose \subseteq Connections /\ closed \subseteq Connections
        /\ sql \subseteq Requests /\ started \subseteq Requests
        /\ sealed \in BOOLEAN /\ dbClosed \in BOOLEAN
        /\ closures \in 0 .. MaxClosures
BY DEF TypeOK

\* Membership of the queue.
LEMMA AdmittedAt ==
    ASSUME queue \in Seq(Requests)
    PROVE  \A r : Admitted(r) <=> \E i \in 1 .. Len(queue) : queue[i] = r
BY DEF Admitted, ToSet

QueueInv ==
    /\ queue \in Seq(Requests)
    /\ status \in [Requests -> {"New", "Pending", "Ready", "Started", "Canceled", "Finished"}]
    /\ QueueDistinct /\ ReadyUnblocked

\* Withdrawing entries takes exactly those out, lets nobody overtake an entry
\* it conflicts with, and changes the status of others only from Pending to
\* Ready.
LEMMA WithdrawKeeps ==
    ASSUME QueueInv, scan \subseteq Connections,
           NEW S \in SUBSET Requests, NEW outcome \in {"Finished", "Canceled"},
           Withdraw(S, outcome)
    PROVE  /\ QueueInv' /\ scan' \subseteq Connections
           /\ \A r \in Requests : Admitted(r)' <=> Admitted(r) /\ r \notin S
           /\ \A r \in S : status'[r] = outcome
           /\ \A r \in Requests \ S :
                  status'[r] = status[r] \/ (status[r] = "Pending" /\ status'[r] = "Ready")
<1> DEFINE q == Without(queue, S)
           ready == NewlyReady(q, status)
<1>a. /\ queue \in Seq(Requests)
      /\ status \in [Requests -> {"New", "Pending", "Ready", "Started", "Canceled", "Finished"}]
      /\ QueueDistinct /\ ReadyUnblocked
    BY DEF QueueInv
<1>b. ConnOf \in [Requests -> Connections]
    BY QueueAssumption
<1>c. q \in Seq(Requests) /\ \E at : KeptAt(q, at, queue, S, Len(queue))
    BY <1>a, WithoutFacts
<1>d. PICK at : KeptAt(q, at, queue, S, Len(queue))
    BY <1>c
<1>e. /\ queue' = q
      /\ status' = [r \in Requests |-> IF r \in S THEN outcome
                                       ELSE IF r \in ready THEN "Ready" ELSE status[r]]
      /\ scan' = scan \cup Owners(ready)
                      \cup (IF outcome = "Canceled" THEN Owners(S) ELSE {})
    BY DEF Withdraw
<1>f. \A r : r \in ready <=>
          \E i \in 1 .. Len(q) : q[i] = r /\ status[r] = "Pending" /\ Unblocked(q, i)
    BY <1>c DEF NewlyReady
<1> HIDE DEF q, ready
<1>g. \A i \in 1 .. Len(q) : /\ at[i] \in 1 .. Len(queue) /\ q[i] = queue[at[i]]
                             /\ q[i] \notin S /\ q[i] \in Requests
    BY <1>c, <1>d DEF KeptAt
<1>1. \A r \in Requests : Admitted(r)' <=> Admitted(r) /\ r \notin S
    <2> SUFFICES ASSUME NEW r \in Requests
                 PROVE  Admitted(r)' <=> Admitted(r) /\ r \notin S
        OBVIOUS
    <2>1. Admitted(r)' <=> \E i \in 1 .. Len(q) : q[i] = r
        BY <1>c, <1>e DEF Admitted, ToSet
    <2>2. Admitted(r) <=> \E i \in 1 .. Len(queue) : queue[i] = r
        BY <1>a, AdmittedAt
    <2>3. ASSUME NEW k \in 1 .. Len(queue), queue[k] = r, r \notin S
          PROVE  \E i \in 1 .. Len(q) : q[i] = r
        BY <1>d, <2>3 DEF KeptAt
    <2> QED BY <1>g, <2>1, <2>2, <2>3
<1>2. ready \subseteq Requests
    BY <1>f, <1>g
<1>3. scan' \subseteq Connections
    BY <1>b, <1>e, <1>2 DEF Owners
<1>4. \A i, j \in 1 .. Len(q) : q[i] = q[j] => i = j
    <2> SUFFICES ASSUME NEW i \in 1 .. Len(q), NEW j \in 1 .. Len(q), q[i] = q[j]
                 PROVE  i = j
        OBVIOUS
    <2>1. at[i] = at[j]
        BY <1>a, <1>g DEF QueueDistinct
    <2>2. (i < j => at[i] < at[j]) /\ (j < i => at[j] < at[i])
        BY <1>d DEF KeptAt
    <2>3. at[i] \in Nat /\ at[j] \in Nat /\ i \in Nat /\ j \in Nat
        BY <1>a, <1>c, <1>g
    <2> QED BY <2>1, <2>2, <2>3
<1>5. \A r \in Requests \ S :
          status'[r] = status[r] \/ (status[r] = "Pending" /\ status'[r] = "Ready")
    BY <1>e, <1>f
<1>6. \A i \in 1 .. Len(q) : status'[q[i]] \in {"Ready", "Started"} => Unblocked(q, i)
    <2> SUFFICES ASSUME NEW i \in 1 .. Len(q), status'[q[i]] \in {"Ready", "Started"}
                 PROVE  Unblocked(q, i)
        OBVIOUS
    <2>1. CASE q[i] \in ready
        BY <1>4, <1>f, <2>1
    <2>2. CASE q[i] \notin ready
        <3>1. status[queue[at[i]]] \in {"Ready", "Started"}
            BY <1>e, <1>g, <2>2
        <3>2. Unblocked(queue, at[i])
            BY <1>a, <1>g, <3>1 DEF ReadyUnblocked
        <3> SUFFICES ASSUME NEW j \in 1 .. i - 1
                     PROVE  ~ConflictsWith(q[i], q[j])
            BY DEF Unblocked
        <3>3. i \in 1 .. Len(q) /\ j \in 1 .. Len(q) /\ j < i
            BY <1>c
        <3>4. at[j] < at[i]
            BY <1>d, <3>3 DEF KeptAt
        <3>5. at[j] \in 1 .. at[i] - 1
            BY <1>a, <1>g, <3>3, <3>4
        <3> QED BY <1>g, <3>2, <3>3, <3>5 DEF Unblocked
    <2> QED BY <2>1, <2>2
<1>7. QueueDistinct' /\ ReadyUnblocked'
    BY <1>c, <1>e, <1>4, <1>6 DEF QueueDistinct, ReadyUnblocked
<1>8. status' \in [Requests -> {"New", "Pending", "Ready", "Started", "Canceled", "Finished"}]
    BY <1>a, <1>e
<1>9. \A r \in S : status'[r] = outcome
    BY <1>e
<1> QED
    BY <1>c, <1>e, <1>1, <1>3, <1>5, <1>7, <1>8, <1>9 DEF QueueInv

\* Dropping a lease withdraws at most its own entry, and none that has started.
LEMMA ReleaseLeaseKeeps ==
    ASSUME QueueInv, scan \subseteq Connections, NEW r \in Requests, ReleaseLease(r)
    PROVE  /\ QueueInv' /\ scan' \subseteq Connections
           /\ \A p \in Requests : Admitted(p)' => Admitted(p)
           /\ \A p \in Requests : Admitted(p) /\ status[p] = "Started" =>
                                      Admitted(p)' /\ status'[p] = "Started"
           /\ \A p \in Requests : status'[p] = "Canceled" => status[p] = "Canceled"
<1>1. CASE r \in ToSet(queue) /\ status[r] # "Started"
    <2>1. Withdraw({r}, "Finished")
        BY <1>1 DEF ReleaseLease
    <2> DEFINE S == {r}
    <2>2. S \in SUBSET Requests /\ Withdraw(S, "Finished")
        BY <2>1
    <2>3. \A p : p \in S <=> p = r
        OBVIOUS
    <2> HIDE DEF S
    <2>4. /\ QueueInv' /\ scan' \subseteq Connections
          /\ \A p \in Requests : Admitted(p)' <=> Admitted(p) /\ p \notin S
          /\ \A p \in S : status'[p] = "Finished"
          /\ \A p \in Requests \ S :
                 status'[p] = status[p] \/ (status[p] = "Pending" /\ status'[p] = "Ready")
        BY <2>2, WithdrawKeeps
    <2> QED BY <1>1, <2>3, <2>4
<1>2. CASE ~(r \in ToSet(queue) /\ status[r] # "Started")
    <2>1. UNCHANGED <<queue, status, scan>>
        BY <1>2 DEF ReleaseLease
    <2> QED BY <2>1 DEF QueueInv, QueueDistinct, ReadyUnblocked, Admitted
<1> QED BY <1>1, <1>2

\* The owner's release withdraws exactly its own entry.
LEMMA FinishAdmissionKeeps ==
    ASSUME QueueInv, scan \subseteq Connections, NEW r \in Requests, FinishAdmission(r)
    PROVE  /\ QueueInv' /\ scan' \subseteq Connections
           /\ \A p \in Requests : Admitted(p)' <=> Admitted(p) /\ p # r
           /\ \A p \in Requests : p # r /\ status[p] = "Started" => status'[p] = "Started"
           /\ \A p \in Requests : status'[p] = "Canceled" => status[p] = "Canceled"
<1>1. CASE r \in ToSet(queue)
    <2> DEFINE S == {r}
    <2>2. S \in SUBSET Requests /\ Withdraw(S, "Finished")
        BY <1>1 DEF FinishAdmission
    <2>3. \A p : p \in S <=> p = r
        OBVIOUS
    <2> HIDE DEF S
    <2>4. /\ QueueInv' /\ scan' \subseteq Connections
          /\ \A p \in Requests : Admitted(p)' <=> Admitted(p) /\ p \notin S
          /\ \A p \in S : status'[p] = "Finished"
          /\ \A p \in Requests \ S :
                 status'[p] = status[p] \/ (status[p] = "Pending" /\ status'[p] = "Ready")
        BY <2>2, WithdrawKeeps
    <2> QED BY <1>1, <2>3, <2>4
<1>2. CASE r \notin ToSet(queue)
    <2>1. UNCHANGED <<queue, status, scan>>
        BY <1>2 DEF FinishAdmission
    <2> QED BY <1>2, <2>1 DEF QueueInv, QueueDistinct, ReadyUnblocked, Admitted
<1> QED BY <1>1, <1>2

\* A new entry goes to the end.
LEMMA EnqueueKeeps ==
    ASSUME QueueInv, NEW r \in Requests, ~Admitted(r), Enqueue(r)
    PROVE  /\ QueueInv'
           /\ \A p \in Requests : Admitted(p)' <=> Admitted(p) \/ p = r
           /\ \A p \in Requests : p # r => status'[p] = status[p]
           /\ status'[r] \in {"Ready", "Pending"}
<1>a. /\ queue \in Seq(Requests)
      /\ status \in [Requests -> {"New", "Pending", "Ready", "Started", "Canceled", "Finished"}]
      /\ QueueDistinct /\ ReadyUnblocked
    BY DEF QueueInv
<1>b. /\ queue' = Append(queue, r)
      /\ status' = [status EXCEPT ![r] =
             IF Unblocked(queue', Len(queue')) THEN "Ready" ELSE "Pending"]
    BY DEF Enqueue
<1>1. /\ queue' \in Seq(Requests) /\ Len(queue) \in Nat /\ Len(queue') = Len(queue) + 1
      /\ queue'[Len(queue')] = r
      /\ \A i \in 1 .. Len(queue) : queue'[i] = queue[i] /\ queue[i] \in Requests
      /\ \A i \in 1 .. Len(queue') : i = Len(queue') \/ i \in 1 .. Len(queue)
      /\ Len(queue') \in 1 .. Len(queue')
      /\ \A i \in 1 .. Len(queue) : i \in 1 .. Len(queue')
    BY <1>a, <1>b
<1>2. \A i \in 1 .. Len(queue) : queue[i] # r
    BY <1>a, AdmittedAt
<1>3. \A p \in Requests : Admitted(p)' <=> Admitted(p) \/ p = r
    <2>1. \A p \in Requests : Admitted(p)' <=> \E i \in 1 .. Len(queue') : queue'[i] = p
        BY <1>1 DEF Admitted, ToSet
    <2>2. \A p \in Requests : Admitted(p) <=> \E i \in 1 .. Len(queue) : queue[i] = p
        BY <1>a, AdmittedAt
    <2> QED BY <1>1, <2>1, <2>2
<1>4. QueueDistinct'
    BY <1>1, <1>2, <1>a DEF QueueDistinct
<1>5. \A p \in Requests : p # r => status'[p] = status[p]
    BY <1>a, <1>b
<1>6. ReadyUnblocked'
    <2> SUFFICES ASSUME NEW i \in 1 .. Len(queue'), status'[queue'[i]] \in {"Ready", "Started"}
                 PROVE  Unblocked(queue', i)
        BY <1>1 DEF ReadyUnblocked
    <2>1. CASE i = Len(queue')
        BY <1>a, <1>b, <1>1, <2>1
    <2>2. CASE i \in 1 .. Len(queue)
        <3>1. Unblocked(queue, i)
            BY <1>a, <1>1, <1>2, <1>5, <2>2 DEF ReadyUnblocked
        <3>2. \A j \in 1 .. i - 1 : j \in 1 .. Len(queue)
            BY <1>1, <2>2
        <3> QED BY <1>1, <2>2, <3>1, <3>2 DEF Unblocked
    <2> QED BY <1>1, <2>1, <2>2
<1>7. status' \in [Requests -> {"New", "Pending", "Ready", "Started", "Canceled", "Finished"}]
      /\ status'[r] \in {"Ready", "Pending"}
    BY <1>a, <1>b
<1> QED BY <1>1, <1>3, <1>4, <1>5, <1>6, <1>7 DEF QueueInv

------------------------------------------------------------------------------
(* Event loops.                                                            *)

\* A message joins the mailbox, or nothing does.
LEMMA MailAppended ==
    ASSUME mailbox \in Seq(Messages), RetireAnnounced,
           closePending \subseteq closePending',
           NEW m \in Messages, m.op = "retire" => m.connection \in closePending',
           mailbox' = Append(mailbox, m)
    PROVE  mailbox' \in Seq(Messages) /\ RetireAnnounced'
<1>1. /\ mailbox' \in Seq(Messages) /\ Len(mailbox) \in Nat
      /\ DOMAIN mailbox' = 1 .. Len(mailbox) + 1 /\ DOMAIN mailbox = 1 .. Len(mailbox)
      /\ mailbox'[Len(mailbox) + 1] = m
      /\ \A i \in 1 .. Len(mailbox) : mailbox'[i] = mailbox[i]
      /\ \A i \in 1 .. Len(mailbox) + 1 : i = Len(mailbox) + 1 \/ i \in 1 .. Len(mailbox)
    OBVIOUS
<1> HIDE DEF Messages
<1> QED BY <1>1 DEF RetireAnnounced

LEMMA MailUnchanged ==
    ASSUME mailbox \in Seq(Messages), RetireAnnounced,
           closePending \subseteq closePending', UNCHANGED mailbox
    PROVE  mailbox' \in Seq(Messages) /\ RetireAnnounced'
BY DEF RetireAnnounced

\* The owner takes the first message.
LEMMA MailTaken ==
    ASSUME mailbox \in Seq(Messages), RetireAnnounced, mailbox # <<>>,
           closePending \subseteq closePending', mailbox' = Tail(mailbox)
    PROVE  mailbox' \in Seq(Messages) /\ RetireAnnounced'
<1>1. /\ mailbox' \in Seq(Messages)
      /\ \A i \in DOMAIN mailbox' : i + 1 \in DOMAIN mailbox /\ mailbox'[i] = mailbox[i + 1]
    OBVIOUS
<1> QED BY <1>1 DEF RetireAnnounced

LEMMA CommandIsMessage ==
    \A op \in Ops, r \in Requests :
        Command(op, r) \in Messages /\ Command(op, r).op # "retire"
BY DEF Command, Ops, Messages

LEMMA RetireIsMessage ==
    ASSUME NEW c \in Connections, NEW forced \in BOOLEAN
    PROVE  /\ RetireCommand(c, forced) \in Messages
           /\ RetireCommand(c, forced).connection = c
BY DEF RetireCommand, Messages

LEMMA StopIsMessage == StopCommand \in Messages /\ StopCommand.op # "retire"
BY DEF StopCommand, Messages

\* A page's step: it may drop a lease, move its transactions on, ask the owner
\* for something and announce a retirement, and nothing else.
LoopFrame ==
    /\ UNCHANGED ownerVars /\ UNCHANGED <<forcedClose, closed>>
    /\ closePending \subseteq closePending'
    /\ mailbox' \in Seq(Messages) /\ RetireAnnounced'
    /\ TypeOK' /\ QueueInv'
    /\ \A p \in Requests : phase'[p] = "none" => phase[p] = "none"
    /\ \A p \in Requests : Admitted(p)' => Admitted(p)
    /\ \A p \in Requests : Admitted(p) /\ status[p] = "Started" =>
                               Admitted(p)' /\ status'[p] = "Started"
    /\ \A p \in Requests : status'[p] = "Canceled" => status[p] = "Canceled"

LEMMA LoopKeeps ==
    ASSUME TransactionInv, LoopFrame
    PROVE  TransactionInv'
<1>a. /\ TypeOK /\ mailbox \in Seq(Messages) /\ owner \in OwnerStates
      /\ NewUnqueued /\ StartedAdmitted /\ AdmittedAttached /\ GoneRefuses
      /\ OwnerKnows /\ CanceledIsRolledBack /\ ClosedUnused
    BY DEF TransactionInv
<1>b. /\ UNCHANGED <<owner, sql, started, dbClosed, registered, forcedClose, closed>>
      /\ closePending \subseteq closePending'
      /\ mailbox' \in Seq(Messages) /\ RetireAnnounced'
      /\ TypeOK' /\ QueueInv'
    BY DEF LoopFrame, ownerVars
<1>c. /\ \A p \in Requests : phase'[p] = "none" => phase[p] = "none"
      /\ \A p \in Requests : Admitted(p)' => Admitted(p)
      /\ \A p \in Requests : Admitted(p) /\ status[p] = "Started" =>
                                 Admitted(p)' /\ status'[p] = "Started"
      /\ \A p \in Requests : status'[p] = "Canceled" => status[p] = "Canceled"
    BY DEF LoopFrame
<1>d. sql \subseteq Requests /\ started \subseteq Requests
    BY <1>a, TypeParts
<1>1. owner' \in OwnerStates
    BY <1>a, <1>b DEF OwnerStates
<1>2. NewUnqueued'
    BY <1>a, <1>c DEF NewUnqueued
<1>3. StartedAdmitted'
    BY <1>a, <1>b, <1>c, <1>d DEF StartedAdmitted
<1>4. AdmittedAttached' /\ GoneRefuses' /\ ClosedUnused'
    BY <1>a, <1>b, <1>c DEF AdmittedAttached, GoneRefuses, ClosedUnused, NoAdmission
<1>5. CanceledIsRolledBack'
    BY <1>a, <1>b, <1>c DEF CanceledIsRolledBack
<1>6. OwnerKnows'
    <2>1. owner.at = "begin" => owner.request \in Requests
        BY <1>a DEF OwnerStates
    <2>2. \A c : NoAdmission(c) => NoAdmission(c)'
        BY <1>c DEF NoAdmission
    <2> QED BY <1>a, <1>b, <1>c, <2>1, <2>2 DEF OwnerKnows
<1>7. QueueDistinct' /\ ReadyUnblocked'
    BY <1>b DEF QueueInv
<1> QED BY <1>b, <1>1, <1>2, <1>3, <1>4, <1>5, <1>6, <1>7 DEF TransactionInv

\* The queue as it was.
LEMMA QueueUnchanged ==
    ASSUME TransactionInv, UNCHANGED <<queue, status>>
    PROVE  /\ QueueInv'
           /\ \A p \in Requests : Admitted(p)' <=> Admitted(p)
           /\ \A p \in Requests : status'[p] = status[p]
BY DEF TransactionInv, TypeOK, QueueInv, QueueDistinct, ReadyUnblocked, Admitted

\* A page's step that leaves the queue alone.
LEMMA LoopUnqueued ==
    ASSUME TransactionInv, UNCHANGED ownerVars, UNCHANGED <<forcedClose, closed>>,
           UNCHANGED <<queue, status>>,
           closePending \subseteq closePending',
           mailbox' \in Seq(Messages), RetireAnnounced', TypeOK',
           \A p \in Requests : phase'[p] = "none" => phase[p] = "none"
    PROVE  TransactionInv'
<1>1. LoopFrame
    BY QueueUnchanged DEF LoopFrame
<1> QED BY <1>1, LoopKeeps

\* A page's step that drops a lease.
LEMMA LoopReleases ==
    ASSUME TransactionInv, UNCHANGED ownerVars, UNCHANGED statusVars,
           NEW r \in Requests, ReleaseLease(r),
           mailbox' \in Seq(Messages), RetireAnnounced',
           NEW x \in {"none", "waiting", "starting", "begun", "active", "failed",
                      "committing", "ending", "ended", "rejected", "done"}, x # "none",
           phase' = [phase EXCEPT ![r] = x],
           UNCHANGED <<dying, sealed, closures>>
    PROVE  TransactionInv'
<1>1. QueueInv /\ scan \subseteq Connections
    BY TypeParts DEF TransactionInv, QueueInv
<1>2. /\ QueueInv' /\ scan' \subseteq Connections
      /\ \A p \in Requests : Admitted(p)' => Admitted(p)
      /\ \A p \in Requests : Admitted(p) /\ status[p] = "Started" =>
                                 Admitted(p)' /\ status'[p] = "Started"
      /\ \A p \in Requests : status'[p] = "Canceled" => status[p] = "Canceled"
    BY <1>1, ReleaseLeaseKeeps
<1>3. TypeOK
    BY DEF TransactionInv
<1>4. TypeOK'
    BY <1>2, <1>3 DEF TypeOK, QueueInv, ownerVars, statusVars
<1>5. \A p \in Requests : phase'[p] = "none" => phase[p] = "none"
    BY <1>3 DEF TypeOK
<1>6. LoopFrame
    BY <1>2, <1>4, <1>5 DEF LoopFrame, statusVars
<1> QED BY <1>6, LoopKeeps

Inputs ==
    /\ TypeOK /\ mailbox \in Seq(Messages) /\ RetireAnnounced
    /\ ConnOf \in [Requests -> Connections]

LEMMA InvGivesInputs == TransactionInv => Inputs
BY QueueAssumption DEF TransactionInv, Inputs

\* A retirement is announced before it is submitted.
LEMMA SubmitRetireFacts ==
    ASSUME Inputs, NEW c \in Connections, NEW forced \in BOOLEAN,
           closePending' = closePending \cup {c}, SubmitRetire(c, forced)
    PROVE  /\ inFlight' \subseteq Connections
           /\ mailbox' \in Seq(Messages) /\ RetireAnnounced'
<1>1. mailbox \in Seq(Messages) /\ RetireAnnounced /\ inFlight \subseteq Connections
    BY TypeParts DEF Inputs
<1>2. CASE c \in closed \cup inFlight \/ sealed
    <2>1. UNCHANGED <<mailbox, inFlight>>
        BY <1>2 DEF SubmitRetire
    <2> QED BY <1>1, <2>1, MailUnchanged
<1>3. CASE ~(c \in closed \cup inFlight \/ sealed)
    <2> DEFINE m == RetireCommand(c, forced)
    <2>1. mailbox' = Append(mailbox, m) /\ inFlight' = inFlight \cup {c}
        BY <1>3 DEF SubmitRetire
    <2>2. m \in Messages /\ m.connection = c
        BY RetireIsMessage
    <2> HIDE DEF m
    <2>3. m.op = "retire" => m.connection \in closePending'
        BY <2>2
    <2> QED BY <1>1, <2>1, <2>2, <2>3, MailAppended
<1> QED BY <1>2, <1>3

LEMMA RetireConnectionFacts ==
    ASSUME Inputs, NEW c \in Connections, RetireConnection(c)
    PROVE  /\ closePending \subseteq closePending' /\ closePending' \subseteq Connections
           /\ retireRequested' \subseteq Connections /\ inFlight' \subseteq Connections
           /\ UNCHANGED <<forcedClose, closed>>
           /\ mailbox' \in Seq(Messages) /\ RetireAnnounced'
<1>1. /\ closePending' = closePending \cup {c} /\ retireRequested' = retireRequested \cup {c}
      /\ SubmitRetire(c, TRUE) /\ UNCHANGED <<forcedClose, closed>>
    BY DEF RetireConnection
<1>2. closePending \subseteq Connections /\ retireRequested \subseteq Connections
    BY TypeParts DEF Inputs
<1>3. \E forced \in BOOLEAN : SubmitRetire(c, forced)
    BY <1>1
<1>4. PICK forced \in BOOLEAN : SubmitRetire(c, forced)
    BY <1>3
<1>5. inFlight' \subseteq Connections /\ mailbox' \in Seq(Messages) /\ RetireAnnounced'
    BY <1>1, <1>4, SubmitRetireFacts
<1> QED BY <1>1, <1>2, <1>5

\* A command of a page joins the mailbox, or nothing does.
LEMMA CommandSent ==
    ASSUME Inputs, NEW op \in Ops, NEW r \in Requests, UNCHANGED closePending,
           mailbox' \in {mailbox, Append(mailbox, Command(op, r))}
    PROVE  mailbox' \in Seq(Messages) /\ RetireAnnounced'
<1>1. mailbox \in Seq(Messages) /\ RetireAnnounced
    BY DEF Inputs
<1>2. CASE mailbox' = mailbox
    BY <1>1, <1>2, MailUnchanged
<1>3. CASE mailbox' = Append(mailbox, Command(op, r))
    <2> DEFINE m == Command(op, r)
    <2>1. m \in Messages /\ m.op # "retire"
        BY CommandIsMessage
    <2>2. mailbox' = Append(mailbox, m)
        BY <1>3
    <2> HIDE DEF m
    <2> QED BY <1>1, <2>1, <2>2, MailAppended
<1> QED BY <1>2, <1>3

LEMMA AbortArmedKeeps ==
    ASSUME TransactionInv, NEW r \in Requests, AbortArmed(r),
           UNCHANGED ownerVars, UNCHANGED <<dying, sealed, closures>>
    PROVE  TransactionInv'
<1>a. Inputs
    BY InvGivesInputs
<1>b. TypeOK
    BY <1>a DEF Inputs
<1>c. ConnOf[r] \in Connections
    BY <1>a DEF Inputs
<1>1. CASE /\ phase' = [phase EXCEPT ![r] = "done"] /\ ReleaseLease(r)
           /\ UNCHANGED <<mailbox, statusVars>>
    <2>1. mailbox' \in Seq(Messages) /\ RetireAnnounced'
        BY <1>a, <1>1, MailUnchanged DEF Inputs, statusVars
    <2> QED BY <1>1, <2>1, LoopReleases
<1>2. CASE /\ phase' = [phase EXCEPT ![r] = "ending"]
           /\ mailbox' = Append(mailbox, Command("abort", r))
           /\ UNCHANGED <<queue, status, scan, statusVars>>
    <2>1. mailbox' \in Seq(Messages) /\ RetireAnnounced'
        BY <1>a, <1>2, CommandSent DEF Ops, statusVars
    <2>2. TypeOK'
        BY <1>b, <1>2 DEF TypeOK, ownerVars, statusVars
    <2>3. \A p \in Requests : phase'[p] = "none" => phase[p] = "none"
        BY <1>b, <1>2 DEF TypeOK
    <2> QED BY <1>2, <2>1, <2>2, <2>3, LoopUnqueued DEF statusVars
<1>3. CASE /\ phase' = [phase EXCEPT ![r] = IF ConnOf[r] \in forcedClose THEN "done" ELSE "rejected"]
           /\ RetireConnection(ConnOf[r])
           /\ UNCHANGED <<queue, status, scan>>
    <2>1. /\ closePending \subseteq closePending' /\ closePending' \subseteq Connections
          /\ retireRequested' \subseteq Connections /\ inFlight' \subseteq Connections
          /\ UNCHANGED <<forcedClose, closed>>
          /\ mailbox' \in Seq(Messages) /\ RetireAnnounced'
        BY <1>a, <1>c, <1>3, RetireConnectionFacts
    <2>2. TypeOK'
        BY <1>b, <1>3, <2>1 DEF TypeOK, ownerVars
    <2>3. \A p \in Requests : phase'[p] = "none" => phase[p] = "none"
        BY <1>b, <1>3 DEF TypeOK
    <2> QED BY <1>3, <2>1, <2>2, <2>3, LoopUnqueued
<1> QED BY <1>1, <1>2, <1>3 DEF AbortArmed

LEMMA ScanKeeps ==
    ASSUME TransactionInv, NEW c \in Connections, Scan(c), UNCHANGED closures
    PROVE  TransactionInv'
<1>a. Inputs /\ TypeOK
    BY InvGivesInputs DEF Inputs
<1>1. /\ scan' = scan \ {c}
      /\ UNCHANGED <<queue, status, dying, mailbox, sealed, ownerVars, statusVars>>
      /\ phase' \in [Requests -> {"none", "waiting", "starting", "begun", "active", "failed",
                                  "committing", "ending", "ended", "rejected", "done"}]
      /\ \A p \in Requests : phase'[p] = "none" => phase[p] = "none"
    BY <1>a DEF Scan, TypeOK
<1>2. mailbox' \in Seq(Messages) /\ RetireAnnounced'
    BY <1>a, <1>1, MailUnchanged DEF Inputs, statusVars
<1>3. TypeOK'
    BY <1>a, <1>1 DEF TypeOK, ownerVars, statusVars
<1> QED BY <1>1, <1>2, <1>3, LoopUnqueued DEF statusVars

LEMMA FlushStartKeeps ==
    ASSUME TransactionInv, NEW r \in Requests, FlushStart(r), UNCHANGED closures
    PROVE  TransactionInv'
<1>a. Inputs /\ TypeOK
    BY InvGivesInputs DEF Inputs
<1>b. UNCHANGED <<dying, sealed, ownerVars>>
    BY DEF FlushStart
<1>1. CASE AbortArmed(r)
    BY <1>b, <1>1, AbortArmedKeeps
<1>2. CASE /\ phase' = [phase EXCEPT ![r] = "begun"]
           /\ mailbox' = Append(mailbox, Command("begin", r))
           /\ UNCHANGED <<queue, status, scan, statusVars>>
    <2>1. mailbox' \in Seq(Messages) /\ RetireAnnounced'
        BY <1>a, <1>2, CommandSent DEF Ops, statusVars
    <2>2. TypeOK'
        BY <1>a, <1>b, <1>2 DEF TypeOK, ownerVars, statusVars
    <2>3. \A p \in Requests : phase'[p] = "none" => phase[p] = "none"
        BY <1>a, <1>2 DEF TypeOK
    <2> QED BY <1>b, <1>2, <2>1, <2>2, <2>3, LoopUnqueued DEF statusVars
<1>3. CASE /\ phase' = [phase EXCEPT ![r] = "done"]
           /\ UNCHANGED <<queue, status, scan, mailbox, statusVars>>
    <2>1. mailbox' \in Seq(Messages) /\ RetireAnnounced'
        BY <1>a, <1>3, MailUnchanged DEF Inputs, statusVars
    <2>2. TypeOK'
        BY <1>a, <1>b, <1>3 DEF TypeOK, ownerVars, statusVars
    <2>3. \A p \in Requests : phase'[p] = "none" => phase[p] = "none"
        BY <1>a, <1>3 DEF TypeOK
    <2> QED BY <1>b, <1>3, <2>1, <2>2, <2>3, LoopUnqueued DEF statusVars
<1> QED BY <1>1, <1>2, <1>3 DEF FlushStart

LEMMA FlushCommitKeeps ==
    ASSUME TransactionInv, NEW r \in Requests, FlushCommit(r), UNCHANGED closures
    PROVE  TransactionInv'
<1>a. Inputs /\ TypeOK
    BY InvGivesInputs DEF Inputs
<1>b. /\ phase' = [phase EXCEPT ![r] = "committing"]
      /\ UNCHANGED <<queue, status, scan, dying, mailbox, sealed, ownerVars, statusVars>>
    BY DEF FlushCommit
<1>1. mailbox' \in Seq(Messages) /\ RetireAnnounced'
    BY <1>a, <1>b, MailUnchanged DEF Inputs, statusVars
<1>2. TypeOK'
    BY <1>a, <1>b DEF TypeOK, ownerVars, statusVars
<1>3. \A p \in Requests : phase'[p] = "none" => phase[p] = "none"
    BY <1>a, <1>b DEF TypeOK
<1> QED BY <1>b, <1>1, <1>2, <1>3, LoopUnqueued DEF statusVars

LEMMA CommitKeeps ==
    ASSUME TransactionInv, NEW r \in Requests, Commit(r), UNCHANGED closures
    PROVE  TransactionInv'
<1>a. Inputs /\ TypeOK
    BY InvGivesInputs DEF Inputs
<1>b. UNCHANGED <<dying, sealed, ownerVars>>
    BY DEF Commit
<1>1. CASE AbortArmed(r)
    BY <1>b, <1>1, AbortArmedKeeps
<1>2. CASE /\ phase' = [phase EXCEPT ![r] = "ending"]
           /\ mailbox' = Append(mailbox, Command("commit", r))
           /\ UNCHANGED <<queue, status, scan, statusVars>>
    <2>1. mailbox' \in Seq(Messages) /\ RetireAnnounced'
        BY <1>a, <1>2, CommandSent DEF Ops, statusVars
    <2>2. TypeOK'
        BY <1>a, <1>b, <1>2 DEF TypeOK, ownerVars, statusVars
    <2>3. \A p \in Requests : phase'[p] = "none" => phase[p] = "none"
        BY <1>a, <1>2 DEF TypeOK
    <2> QED BY <1>b, <1>2, <2>1, <2>2, <2>3, LoopUnqueued DEF statusVars
<1> QED BY <1>1, <1>2 DEF Commit

LEMMA AbortKeeps ==
    ASSUME TransactionInv, NEW r \in Requests, Abort(r), UNCHANGED closures
    PROVE  TransactionInv'
BY AbortArmedKeeps DEF Abort

\* Settle, and the abort of a transaction that was never submitted.
LEMMA LeaseDroppedKeeps ==
    ASSUME TransactionInv, NEW r \in Requests, Settle(r) \/ AbortUnstarted(r),
           UNCHANGED closures
    PROVE  TransactionInv'
<1>1. /\ phase' = [phase EXCEPT ![r] = "done"] /\ ReleaseLease(r)
      /\ UNCHANGED <<dying, mailbox, sealed, ownerVars, statusVars>>
    BY DEF Settle, AbortUnstarted
<1>2. mailbox' \in Seq(Messages) /\ RetireAnnounced'
    BY <1>1, InvGivesInputs, MailUnchanged DEF Inputs, statusVars
<1> QED BY <1>1, <1>2, LoopReleases

LEMMA TearDownTransactionKeeps ==
    ASSUME TransactionInv, NEW r \in Requests, TearDownTransaction(r), UNCHANGED closures
    PROVE  TransactionInv'
<1>1. /\ phase' = [phase EXCEPT ![r] = "done"] /\ ReleaseLease(r)
      /\ mailbox' \in {mailbox, Append(mailbox, Command("abort", r))}
      /\ UNCHANGED <<dying, sealed, ownerVars, statusVars>>
    BY DEF TearDownTransaction
<1>2. mailbox' \in Seq(Messages) /\ RetireAnnounced'
    BY <1>1, InvGivesInputs, CommandSent DEF Ops, statusVars
<1> QED BY <1>1, <1>2, LoopReleases

\* DatabaseConnection::retire, from a page or at the end of a teardown.
LEMMA RetireKeeps ==
    ASSUME TransactionInv, NEW c \in Connections, RetireConnection(c),
           UNCHANGED <<requestVars, dying, sealed, ownerVars>>,
           closures' \in 0 .. MaxClosures
    PROVE  TransactionInv'
<1>a. Inputs /\ TypeOK
    BY InvGivesInputs DEF Inputs
<1>1. /\ closePending \subseteq closePending' /\ closePending' \subseteq Connections
      /\ retireRequested' \subseteq Connections /\ inFlight' \subseteq Connections
      /\ UNCHANGED <<forcedClose, closed>>
      /\ mailbox' \in Seq(Messages) /\ RetireAnnounced'
    BY <1>a, RetireConnectionFacts
<1>2. TypeOK'
    BY <1>a, <1>1 DEF TypeOK, ownerVars, requestVars
<1> QED BY <1>1, <1>2, LoopUnqueued DEF requestVars

LEMMA DisturbFacts ==
    ASSUME TypeOK, Disturb
    PROVE  closures' \in 0 .. MaxClosures
BY QueueAssumption DEF TypeOK, Disturb

LEMMA CloseKeeps ==
    ASSUME TransactionInv, NEW c \in Connections, Close(c)
    PROVE  TransactionInv'
<1>a. Inputs /\ TypeOK
    BY InvGivesInputs DEF Inputs
<1>b. closures' \in 0 .. MaxClosures
    BY <1>a, DisturbFacts DEF Close
<1>1. /\ closePending' = closePending \cup {c} /\ SubmitRetire(c, FALSE)
      /\ UNCHANGED <<requestVars, dying, sealed, ownerVars, retireRequested, forcedClose, closed>>
    BY DEF Close
<1>2. \E forced \in BOOLEAN : SubmitRetire(c, forced)
    BY <1>1
<1>3. PICK forced \in BOOLEAN : SubmitRetire(c, forced)
    BY <1>2
<1>4. inFlight' \subseteq Connections /\ mailbox' \in Seq(Messages) /\ RetireAnnounced'
    BY <1>a, <1>1, <1>3, SubmitRetireFacts
<1>5. TypeOK'
    BY <1>a, <1>b, <1>1, <1>4 DEF TypeOK, ownerVars, requestVars
<1> QED BY <1>1, <1>4, <1>5, LoopUnqueued DEF requestVars

LEMMA TearDownKeeps ==
    ASSUME TransactionInv, NEW c \in Connections, TearDown(c)
    PROVE  TransactionInv'
<1>a. Inputs /\ TypeOK
    BY InvGivesInputs DEF Inputs
<1>b. closures' \in 0 .. MaxClosures
    BY <1>a, DisturbFacts DEF TearDown
<1>1. /\ dying' = dying \cup {c}
      /\ UNCHANGED <<requestVars, mailbox, sealed, ownerVars, statusVars>>
    BY DEF TearDown
<1>2. mailbox' \in Seq(Messages) /\ RetireAnnounced'
    BY <1>a, <1>1, MailUnchanged DEF Inputs, statusVars
<1>3. TypeOK'
    BY <1>a, <1>b, <1>1 DEF TypeOK, ownerVars, requestVars, statusVars
<1> QED BY <1>1, <1>2, <1>3, LoopUnqueued DEF requestVars, statusVars

LEMMA CloseDatabaseKeeps ==
    ASSUME TransactionInv, NEW seal \in BOOLEAN, CloseDatabase(seal)
    PROVE  TransactionInv'
<1>a. Inputs /\ TypeOK
    BY InvGivesInputs DEF Inputs
<1>b. closures' \in 0 .. MaxClosures
    BY <1>a, DisturbFacts DEF CloseDatabase
<1>1. /\ mailbox' = Append(mailbox, StopCommand) /\ sealed' = seal
      /\ UNCHANGED <<requestVars, dying, ownerVars, statusVars>>
    BY DEF CloseDatabase
<1>2. mailbox' \in Seq(Messages) /\ RetireAnnounced'
    BY <1>a, <1>1, MailAppended, StopIsMessage DEF Inputs, statusVars
<1>3. TypeOK'
    BY <1>a, <1>b, <1>1 DEF TypeOK, ownerVars, requestVars, statusVars
<1> QED BY <1>1, <1>2, <1>3, LoopUnqueued DEF requestVars, statusVars

\* A transaction is accepted from a connection that is still in the records.
LEMMA QueueTransactionStartKeeps ==
    ASSUME TransactionInv, NEW r \in Requests, QueueTransactionStart(r), UNCHANGED closures
    PROVE  TransactionInv'
<1>a. /\ Inputs /\ TypeOK /\ owner \in OwnerStates
      /\ NewUnqueued /\ StartedAdmitted /\ AdmittedAttached /\ GoneRefuses
      /\ OwnerKnows /\ CanceledIsRolledBack /\ ClosedUnused /\ QueueInv
    BY InvGivesInputs DEF Inputs, TransactionInv, QueueInv, TypeOK
<1>b. /\ phase[r] = "none" /\ ConnOf[r] \in Connections
      /\ ConnOf[r] \notin closePending \cup closed /\ ~dbClosed
      /\ Enqueue(r)
      /\ phase' = [phase EXCEPT ![r] = "waiting"]
      /\ scan' = scan \cup {ConnOf[r]}
      /\ UNCHANGED <<dying, mailbox, sealed, owner, sql, started, dbClosed, registered,
                     closePending, retireRequested, inFlight, forcedClose, closed>>
    BY <1>a DEF QueueTransactionStart, Inputs, ownerVars, statusVars
<1>c. ~Admitted(r)
    BY <1>a, <1>b DEF NewUnqueued
<1>d. /\ QueueInv'
      /\ \A p \in Requests : Admitted(p)' <=> Admitted(p) \/ p = r
      /\ \A p \in Requests : p # r => status'[p] = status[p]
      /\ status'[r] \in {"Ready", "Pending"}
    BY <1>a, <1>b, <1>c, EnqueueKeeps
<1>1. mailbox' \in Seq(Messages) /\ RetireAnnounced'
    BY <1>a, <1>b, MailUnchanged DEF Inputs
<1>2. TypeOK'
    <2>1. phase' \in [Requests -> {"none", "waiting", "starting", "begun", "active", "failed",
                                   "committing", "ending", "ended", "rejected", "done"}]
        BY <1>a, <1>b DEF TypeOK
    <2>2. scan' \subseteq Connections
        BY <1>a, <1>b, TypeParts
    <2> QED BY <1>a, <1>b, <1>d, <2>1, <2>2 DEF TypeOK, QueueInv
<1>3. \A p \in Requests : phase'[p] = "none" => phase[p] = "none" /\ p # r
    BY <1>a, <1>b DEF TypeOK
<1>4. NewUnqueued'
    BY <1>a, <1>d, <1>3 DEF NewUnqueued
<1>5. sql \subseteq Requests /\ started \subseteq Requests
    BY <1>a, TypeParts
<1>6. StartedAdmitted'
    BY <1>a, <1>b, <1>c, <1>d, <1>5 DEF StartedAdmitted
<1>7. AdmittedAttached'
    BY <1>a, <1>b, <1>d DEF AdmittedAttached, GoneRefuses
<1>8. GoneRefuses' /\ ClosedUnused'
    BY <1>a, <1>b, <1>d DEF GoneRefuses, ClosedUnused, NoAdmission
<1>9. CanceledIsRolledBack'
    BY <1>a, <1>b, <1>d DEF CanceledIsRolledBack
<1>10. OwnerKnows'
    <2>1. owner.at = "begin" => owner.request \in Requests
        BY <1>a DEF OwnerStates
    <2>2. \A c : NoAdmission(c) /\ c \in closePending => NoAdmission(c)'
        BY <1>b, <1>d DEF NoAdmission
    <2>3. owner.at \notin {"cancelAll", "mark", "retireAll", "drain", "stopped"}
        BY <1>a, <1>b DEF OwnerKnows
    <2>4. owner.at = "begin" => owner.request # r
        BY <1>a, <1>c DEF OwnerKnows
    <2> QED BY <1>a, <1>b, <1>d, <2>1, <2>2, <2>3, <2>4 DEF OwnerKnows
<1>11. owner' \in OwnerStates
    BY <1>a, <1>b DEF OwnerStates
<1> QED
    BY <1>d, <1>1, <1>2, <1>4, <1>6, <1>7, <1>8, <1>9, <1>10, <1>11 DEF TransactionInv, QueueInv

------------------------------------------------------------------------------
(* The database owner.                                                     *)

Parts ==
    /\ Inputs /\ TypeOK /\ owner \in OwnerStates /\ QueueInv
    /\ NewUnqueued /\ StartedAdmitted /\ AdmittedAttached /\ GoneRefuses
    /\ OwnerKnows /\ CanceledIsRolledBack /\ ClosedUnused
    /\ sql \subseteq Requests /\ started \subseteq Requests
    /\ scan \subseteq Connections

LEMMA InvGivesParts == TransactionInv => Parts
BY InvGivesInputs, TypeParts DEF Inputs, TransactionInv, QueueInv, Parts

\* The command the owner takes.
LEMMA ReceivedIsMessage ==
    ASSUME Parts, NEW op, Receives(op)
    PROVE  /\ mailbox # <<>> /\ Head(mailbox) \in Messages /\ owner.at = "idle"
           /\ op \in Ops => Head(mailbox).request \in Requests
           /\ op = "retire" => /\ Head(mailbox).connection \in closePending
                               /\ Head(mailbox).connection \in Connections
                               /\ Head(mailbox).forced \in BOOLEAN
<1>1. mailbox \in Seq(Messages) /\ RetireAnnounced /\ mailbox # <<>>
      /\ Head(mailbox).op = op /\ owner.at = "idle"
    BY DEF Parts, Inputs, Receives, Idle
<1>2. Head(mailbox) \in Messages /\ 1 \in DOMAIN mailbox /\ Head(mailbox) = mailbox[1]
    BY <1>1
<1>3. op = "retire" => Head(mailbox).connection \in closePending
    BY <1>1, <1>2 DEF RetireAnnounced
<1> DEFINE m == Head(mailbox)
<1>4. m \in Messages /\ m.op = op
    BY <1>1, <1>2
<1> HIDE DEF m
<1>5. /\ op \in Ops => m.request \in Requests
      /\ op = "retire" => m.connection \in Connections /\ m.forced \in BOOLEAN
    BY <1>4 DEF Messages, Ops
<1> QED BY <1>1, <1>2, <1>3, <1>5 DEF m

\* A reply moves at most one transaction on, and none back to its creation.
LEMMA ReplyFacts ==
    ASSUME TypeOK, NEW r, NEW waiting, NEW answer \in {"active", "failed", "ended"},
           Reply(r, waiting, answer)
    PROVE  /\ phase' \in [Requests -> {"none", "waiting", "starting", "begun", "active", "failed",
                                       "committing", "ending", "ended", "rejected", "done"}]
           /\ \A p \in Requests : phase'[p] = "none" => phase[p] = "none"
BY DEF TypeOK, Reply

\* The owner between two pieces of work claims nothing.
LEMMA RestingKnows ==
    ASSUME owner' \in {Idle, [at |-> "close"]}
    PROVE  owner' \in OwnerStates /\ OwnerKnows'
BY DEF Idle, OwnerStates, OwnerKnows

LEMMA ClaimStartKeeps ==
    ASSUME TransactionInv, ClaimStart, UNCHANGED closures
    PROVE  TransactionInv'
<1> DEFINE r == Head(mailbox).request
<1>a. Parts
    BY InvGivesParts
<1>b. /\ Receives("begin") /\ mailbox' = Tail(mailbox)
      /\ UNCHANGED <<queue, scan, dying, sealed, sql, started, dbClosed, registered,
                     closePending, retireRequested, inFlight, forcedClose, closed>>
    BY DEF ClaimStart, statusVars
<1>c. r \in Requests /\ mailbox # <<>> /\ owner.at = "idle"
    BY <1>a, <1>b, ReceivedIsMessage DEF Ops
<1>d. mailbox' \in Seq(Messages) /\ RetireAnnounced'
    BY <1>a, <1>b, <1>c, MailTaken DEF Parts, Inputs
<1>e. \/ /\ r \in ToSet(queue) /\ status[r] = "Ready"
         /\ status' = [status EXCEPT ![r] = "Started"]
         /\ owner' = [at |-> "begin", request |-> r]
         /\ UNCHANGED phase
      \/ Reply(r, "begun", "failed") /\ UNCHANGED <<status, owner>>
    BY DEF ClaimStart
<1> HIDE DEF r
<1>f. \A p : Admitted(p)' <=> Admitted(p)
    BY <1>b DEF Admitted
<1>1. CASE /\ r \in ToSet(queue) /\ status[r] = "Ready"
           /\ status' = [status EXCEPT ![r] = "Started"]
           /\ owner' = [at |-> "begin", request |-> r]
           /\ UNCHANGED phase
    <2>1. /\ \A p \in Requests : p # r => status'[p] = status[p]
          /\ status'[r] = "Started"
          /\ status' \in [Requests -> {"New", "Pending", "Ready", "Started", "Canceled", "Finished"}]
        BY <1>a, <1>c, <1>1 DEF Parts, QueueInv
    <2>2. r \notin started
        BY <1>a, <1>1 DEF Parts, StartedAdmitted
    <2>3. QueueDistinct' /\ ReadyUnblocked'
        <3>1. \A i \in DOMAIN queue : queue[i] \in Requests
            BY <1>a DEF Parts, QueueInv
        <3>2. \A i \in DOMAIN queue : status'[queue[i]] \in {"Ready", "Started"} =>
                  status[queue[i]] \in {"Ready", "Started"}
            BY <1>1, <2>1, <3>1
        <3> QED BY <1>a, <1>b, <3>2 DEF Parts, QueueInv, QueueDistinct, ReadyUnblocked
    <2>4. TypeOK'
        BY <1>a, <1>b, <1>1, <2>1 DEF Parts, TypeOK
    <2>5. NewUnqueued' /\ AdmittedAttached' /\ GoneRefuses' /\ ClosedUnused'
        BY <1>a, <1>b, <1>f, <1>1
        DEF Parts, NewUnqueued, AdmittedAttached, GoneRefuses, ClosedUnused, NoAdmission
    <2>6. StartedAdmitted'
        BY <1>a, <1>b, <1>f, <2>1, <2>2 DEF Parts, StartedAdmitted
    <2>7. CanceledIsRolledBack'
        BY <1>a, <1>b, <2>1 DEF Parts, CanceledIsRolledBack
    <2>8. owner' \in OwnerStates
        BY <1>c, <1>1 DEF OwnerStates
    <2>9. OwnerKnows'
        <3>1. owner'.at = "begin" /\ owner'.request = r
            BY <1>1
        <3>2. r \in ToSet(queue')
            BY <1>b, <1>1
        <3> QED BY <1>b, <2>1, <2>2, <3>1, <3>2 DEF OwnerKnows, Admitted
    <2> QED BY <1>d, <2>3, <2>4, <2>5, <2>6, <2>7, <2>8, <2>9 DEF TransactionInv
<1>2. CASE Reply(r, "begun", "failed") /\ UNCHANGED <<status, owner>>
    <2>1. /\ phase' \in [Requests -> {"none", "waiting", "starting", "begun", "active", "failed",
                                      "committing", "ending", "ended", "rejected", "done"}]
          /\ \A p \in Requests : phase'[p] = "none" => phase[p] = "none"
        BY <1>a, <1>2, ReplyFacts DEF Parts
    <2>2. TypeOK'
        BY <1>a, <1>b, <1>2, <2>1 DEF Parts, TypeOK
    <2> QED BY <1>b, <1>d, <1>2, <2>1, <2>2, LoopUnqueued DEF ownerVars
<1> QED BY <1>e, <1>1, <1>2

LEMMA BeginKeeps ==
    ASSUME TransactionInv, Begin, UNCHANGED closures
    PROVE  TransactionInv'
<1> DEFINE r == owner.request
<1>a. Parts
    BY InvGivesParts
<1>b. /\ owner.at = "begin" /\ owner' = Idle
      /\ UNCHANGED <<dying, mailbox, sealed, dbClosed, registered,
                     closePending, retireRequested, inFlight, forcedClose, closed>>
    BY DEF Begin, statusVars
<1>c. /\ r \in Requests /\ Admitted(r) /\ status[r] = "Started" /\ r \notin started
    BY <1>a, <1>b DEF Parts, OwnerKnows, OwnerStates
<1>d. mailbox' \in Seq(Messages) /\ RetireAnnounced'
    BY <1>a, <1>b, MailUnchanged DEF Parts, Inputs
<1>e. \/ /\ sql' = sql \cup {r} /\ started' = started \cup {r}
         /\ Reply(r, "begun", "active") /\ UNCHANGED <<queue, status, scan>>
      \/ FinishAdmission(r) /\ Reply(r, "begun", "failed") /\ UNCHANGED <<sql, started>>
    BY DEF Begin
<1>f. /\ phase' \in [Requests -> {"none", "waiting", "starting", "begun", "active", "failed",
                                  "committing", "ending", "ended", "rejected", "done"}]
      /\ \A p \in Requests : phase'[p] = "none" => phase[p] = "none"
    BY <1>a, <1>e, ReplyFacts DEF Parts
<1>g. owner' \in OwnerStates /\ OwnerKnows'
    BY <1>b, RestingKnows
<1> HIDE DEF r
<1>1. CASE /\ sql' = sql \cup {r} /\ started' = started \cup {r}
           /\ UNCHANGED <<queue, status, scan>>
    <2>1. QueueInv' /\ (\A p \in Requests : Admitted(p)' <=> Admitted(p))
        BY <1>1, QueueUnchanged
    <2>2. TypeOK'
        BY <1>a, <1>b, <1>c, <1>f, <1>1 DEF Parts, TypeOK
    <2>3. NewUnqueued' /\ AdmittedAttached' /\ GoneRefuses' /\ ClosedUnused'
        BY <1>a, <1>b, <1>f, <2>1
        DEF Parts, NewUnqueued, AdmittedAttached, GoneRefuses, ClosedUnused, NoAdmission
    <2>4. StartedAdmitted'
        BY <1>a, <1>c, <1>1, <2>1 DEF Parts, StartedAdmitted
    <2>5. CanceledIsRolledBack'
        BY <1>a, <1>b, <1>c, <1>1 DEF Parts, CanceledIsRolledBack
    <2> QED BY <1>d, <1>g, <2>1, <2>2, <2>3, <2>4, <2>5 DEF TransactionInv, QueueInv
<1>2. CASE FinishAdmission(r) /\ UNCHANGED <<sql, started>>
    <2>1. /\ QueueInv' /\ scan' \subseteq Connections
          /\ \A p \in Requests : Admitted(p)' <=> Admitted(p) /\ p # r
          /\ \A p \in Requests : p # r /\ status[p] = "Started" => status'[p] = "Started"
          /\ \A p \in Requests : status'[p] = "Canceled" => status[p] = "Canceled"
        BY <1>a, <1>c, <1>2, FinishAdmissionKeeps DEF Parts
    <2>2. TypeOK'
        BY <1>a, <1>b, <1>f, <1>2, <2>1 DEF Parts, TypeOK, QueueInv
    <2>3. NewUnqueued' /\ AdmittedAttached' /\ GoneRefuses' /\ ClosedUnused'
        BY <1>a, <1>b, <1>f, <2>1
        DEF Parts, NewUnqueued, AdmittedAttached, GoneRefuses, ClosedUnused, NoAdmission
    <2>4. StartedAdmitted'
        BY <1>a, <1>c, <1>2, <2>1 DEF Parts, StartedAdmitted
    <2>5. CanceledIsRolledBack'
        BY <1>a, <1>b, <1>2, <2>1 DEF Parts, CanceledIsRolledBack
    <2> QED BY <1>d, <1>g, <2>1, <2>2, <2>3, <2>4, <2>5 DEF TransactionInv, QueueInv
<1> QED BY <1>e, <1>1, <1>2

LEMMA EndKeeps ==
    ASSUME TransactionInv, End, UNCHANGED closures
    PROVE  TransactionInv'
<1> DEFINE r == Head(mailbox).request
<1>a. Parts
    BY InvGivesParts
<1>b. /\ mailbox' = Tail(mailbox)
      /\ UNCHANGED <<queue, status, scan, dying, sealed, started, dbClosed, registered,
                     closePending, retireRequested, inFlight, forcedClose, closed>>
    BY DEF End, statusVars
<1>c. r \in Requests /\ mailbox # <<>> /\ owner.at = "idle"
    <2>1. PICK op \in {"commit", "abort"} : Receives(op)
        BY DEF End
    <2> QED BY <1>a, <2>1, ReceivedIsMessage DEF Ops
<1>d. mailbox' \in Seq(Messages) /\ RetireAnnounced'
    BY <1>a, <1>b, <1>c, MailTaken DEF Parts, Inputs
<1>e. \/ /\ sql' = sql \ {r} /\ owner' = [at |-> "finish", request |-> r] /\ UNCHANGED phase
      \/ /\ owner' \in {owner, [at |-> "close"]} /\ Reply(r, "ending", "ended") /\ UNCHANGED sql
    BY DEF End
<1> HIDE DEF r
<1>f. QueueInv' /\ (\A p \in Requests : Admitted(p)' <=> Admitted(p))
    BY <1>b, QueueUnchanged
<1>g. /\ phase' \in [Requests -> {"none", "waiting", "starting", "begun", "active", "failed",
                                  "committing", "ending", "ended", "rejected", "done"}]
      /\ \A p \in Requests : phase'[p] = "none" => phase[p] = "none"
    BY <1>a, <1>e, ReplyFacts DEF Parts, TypeOK
<1>h. sql' \subseteq sql
    BY <1>e
<1>1. TypeOK'
    BY <1>a, <1>b, <1>g, <1>h DEF Parts, TypeOK
<1>2. NewUnqueued' /\ AdmittedAttached' /\ GoneRefuses' /\ ClosedUnused'
    BY <1>a, <1>b, <1>f, <1>g
    DEF Parts, NewUnqueued, AdmittedAttached, GoneRefuses, ClosedUnused, NoAdmission
<1>3. StartedAdmitted'
    BY <1>a, <1>b, <1>f, <1>h DEF Parts, StartedAdmitted
<1>4. CanceledIsRolledBack'
    BY <1>a, <1>b, <1>h DEF Parts, CanceledIsRolledBack
<1>5. owner' \in OwnerStates /\ OwnerKnows'
    <2>1. CASE sql' = sql \ {r} /\ owner' = [at |-> "finish", request |-> r]
        BY <1>c, <2>1 DEF OwnerStates, OwnerKnows
    <2>2. CASE owner' = [at |-> "close"]
        BY <2>2, RestingKnows
    <2>3. CASE owner' = owner
        <3>1. owner.at = "idle" /\ owner \in OwnerStates
            BY <1>a, <1>c DEF Parts
        <3> QED BY <2>3, <3>1 DEF OwnerStates, OwnerKnows
    <2> QED BY <1>e, <2>1, <2>2, <2>3
<1> QED BY <1>d, <1>f, <1>1, <1>2, <1>3, <1>4, <1>5 DEF TransactionInv, QueueInv

LEMMA FinishKeeps ==
    ASSUME TransactionInv, Finish, UNCHANGED closures
    PROVE  TransactionInv'
<1> DEFINE r == owner.request
<1>a. Parts
    BY InvGivesParts
<1>b. /\ owner.at = "finish" /\ owner' = Idle
      /\ started' = started \ {r} /\ FinishAdmission(r) /\ Reply(r, "ending", "ended")
      /\ UNCHANGED <<dying, mailbox, sealed, sql, dbClosed, registered,
                     closePending, retireRequested, inFlight, forcedClose, closed>>
    BY DEF Finish, statusVars
<1>c. r \in Requests /\ r \notin sql
    BY <1>a, <1>b DEF Parts, OwnerKnows, OwnerStates
<1>d. mailbox' \in Seq(Messages) /\ RetireAnnounced'
    BY <1>a, <1>b, MailUnchanged DEF Parts, Inputs
<1>e. owner' \in OwnerStates /\ OwnerKnows'
    BY <1>b, RestingKnows
<1> HIDE DEF r
<1>f. /\ phase' \in [Requests -> {"none", "waiting", "starting", "begun", "active", "failed",
                                  "committing", "ending", "ended", "rejected", "done"}]
      /\ \A p \in Requests : phase'[p] = "none" => phase[p] = "none"
    BY <1>a, <1>b, ReplyFacts DEF Parts
<1>g. /\ QueueInv' /\ scan' \subseteq Connections
      /\ \A p \in Requests : Admitted(p)' <=> Admitted(p) /\ p # r
      /\ \A p \in Requests : p # r /\ status[p] = "Started" => status'[p] = "Started"
      /\ \A p \in Requests : status'[p] = "Canceled" => status[p] = "Canceled"
    BY <1>a, <1>b, <1>c, FinishAdmissionKeeps DEF Parts
<1>1. TypeOK'
    BY <1>a, <1>b, <1>f, <1>g DEF Parts, TypeOK, QueueInv
<1>2. NewUnqueued' /\ AdmittedAttached' /\ GoneRefuses' /\ ClosedUnused'
    BY <1>a, <1>b, <1>f, <1>g
    DEF Parts, NewUnqueued, AdmittedAttached, GoneRefuses, ClosedUnused, NoAdmission
<1>3. StartedAdmitted'
    BY <1>a, <1>b, <1>c, <1>g DEF Parts, StartedAdmitted
<1>4. CanceledIsRolledBack'
    BY <1>a, <1>b, <1>g DEF Parts, CanceledIsRolledBack
<1> QED BY <1>d, <1>e, <1>g, <1>1, <1>2, <1>3, <1>4 DEF TransactionInv, QueueInv

\* The owner's steps that leave queue, statuses and transaction objects alone.
LEMMA OwnerAlone ==
    ASSUME TransactionInv, UNCHANGED <<queue, status, phase>>,
           TypeOK', mailbox' \in Seq(Messages), RetireAnnounced',
           owner' \in OwnerStates, OwnerKnows',
           StartedAdmitted', AdmittedAttached', GoneRefuses', CanceledIsRolledBack', ClosedUnused'
    PROVE  TransactionInv'
<1>1. QueueInv' /\ \A p \in Requests : Admitted(p)' <=> Admitted(p)
    BY QueueUnchanged
<1>2. NewUnqueued'
    BY <1>1 DEF TransactionInv, NewUnqueued
<1> QED BY <1>1, <1>2 DEF TransactionInv, QueueInv

\* The rollback of a forced retirement: after it SQLite runs nothing of the
\* connection, which refuses new transactions since the retirement was asked
\* for.
LEMMA RetireRollbackKeeps ==
    ASSUME TransactionInv, RetireRollback, UNCHANGED closures
    PROVE  TransactionInv'
<1>a. Parts
    BY InvGivesParts
<1>b. /\ Receives("retire")
      /\ UNCHANGED <<queue, status, phase, scan, dying, sealed, started, dbClosed, registered,
                     closePending, retireRequested, inFlight, forcedClose, closed>>
      /\ mailbox' = Tail(mailbox)
    BY DEF RetireRollback, requestVars, statusVars
<1>c. PICK c \in Connections : c = Head(mailbox).connection /\ c \in closePending
    BY <1>a, <1>b, ReceivedIsMessage
<1>d. Head(mailbox).forced \in BOOLEAN /\ mailbox # <<>> /\ owner.at = "idle"
    BY <1>a, <1>b, ReceivedIsMessage
<1>e. PICK forced \in BOOLEAN : forced = (Head(mailbox).forced \/ c \in retireRequested)
    BY <1>d
<1>f. \/ /\ forced \/ (StartedOn(c) = {} /\ QueuedOn(c) = {})
         /\ sql' = sql \ StartedOn(c)
         /\ owner' = [at |-> "remove", connection |-> c, forced |-> forced]
      \/ owner' = [at |-> "close"] /\ UNCHANGED sql
      \/ owner' = [at |-> "refuse", connection |-> c, forced |-> FALSE] /\ UNCHANGED sql
    BY <1>c, <1>e DEF RetireRollback
<1>g. \A p \in Requests : Admitted(p)' <=> Admitted(p)
    BY <1>b, QueueUnchanged
<1>1. sql' \subseteq sql
    BY <1>f
<1>2. TypeOK'
    BY <1>a, <1>b, <1>1 DEF Parts, TypeOK
<1>3. mailbox' \in Seq(Messages) /\ RetireAnnounced'
    <2>1. mailbox \in Seq(Messages) /\ RetireAnnounced
        BY <1>a DEF Parts, Inputs
    <2> DEFINE t == Tail(mailbox)
    <2>2. /\ t \in Seq(Messages)
          /\ \A i \in DOMAIN t : t[i].op = "retire" => t[i].connection \in closePending
        <3>1. /\ t \in Seq(Messages)
              /\ \A i \in DOMAIN t : i + 1 \in DOMAIN mailbox /\ t[i] = mailbox[i + 1]
            BY <1>d, <2>1
        <3> QED BY <2>1, <3>1 DEF RetireAnnounced
    <2> QED BY <1>b, <2>2 DEF RetireAnnounced, t
<1>4. AdmittedAttached' /\ GoneRefuses' /\ ClosedUnused'
    BY <1>a, <1>b, <1>g DEF Parts, AdmittedAttached, GoneRefuses, ClosedUnused, NoAdmission
<1>5. StartedAdmitted'
    BY <1>a, <1>b, <1>g, <1>1 DEF Parts, StartedAdmitted
<1>6. CanceledIsRolledBack'
    BY <1>a, <1>b, <1>1 DEF Parts, CanceledIsRolledBack
<1>7. owner' \in OwnerStates /\ OwnerKnows'
    <2>1. CASE /\ forced \/ (StartedOn(c) = {} /\ QueuedOn(c) = {})
               /\ sql' = sql \ StartedOn(c)
               /\ owner' = [at |-> "remove", connection |-> c, forced |-> forced]
        <3>1. owner' \in OwnerStates
            BY <2>1 DEF OwnerStates
        <3>2. owner'.at = "remove" /\ owner'.connection = c /\ owner'.forced = forced
            BY <2>1
        <3>3. \A r \in sql' : ConnOf[r] # c
            BY <1>a, <2>1 DEF Parts, StartedAdmitted, StartedOn
        <3>4. ~forced => \A r \in Requests : Admitted(r)' => ConnOf[r] # c
            BY <1>g, <2>1 DEF QueuedOn, Admitted
        <3>5. ~owner'.forced => NoAdmission(owner.connection)'
            BY <3>2, <3>4 DEF NoAdmission
        <3> QED BY <1>b, <1>c, <3>1, <3>2, <3>3, <3>5 DEF OwnerKnows
    <2>2. CASE owner' = [at |-> "close"]
        BY <2>2, RestingKnows
    <2>3. CASE owner' = [at |-> "refuse", connection |-> c, forced |-> FALSE]
        <3>1. owner' \in OwnerStates
            BY <2>3 DEF OwnerStates
        <3>2. owner'.at = "refuse" /\ owner'.connection = c
            BY <2>3
        <3> QED BY <1>b, <1>c, <3>1, <3>2 DEF OwnerKnows
    <2> QED BY <1>f, <2>1, <2>2, <2>3
<1> QED BY <1>b, <1>2, <1>3, <1>4, <1>5, <1>6, <1>7, OwnerAlone

\* A close that was refused is repeated by force, or forgotten.
LEMMA RetireRefusedKeeps ==
    ASSUME TransactionInv, RetireRefused, UNCHANGED closures
    PROVE  TransactionInv'
<1>a. Parts
    BY InvGivesParts
<1>b. /\ owner.at = "refuse" /\ owner' = Idle
      /\ UNCHANGED <<queue, status, phase, scan, dying, sealed, sql, started, dbClosed, registered,
                     closePending, retireRequested, forcedClose, closed>>
    BY DEF RetireRefused, requestVars
<1>c. PICK c \in Connections : c = owner.connection /\ c \in closePending
    BY <1>a, <1>b DEF Parts, OwnerStates, OwnerKnows
<1>d. \/ mailbox' = Append(mailbox, RetireCommand(c, TRUE)) /\ UNCHANGED inFlight
      \/ inFlight' = inFlight \ {c} /\ UNCHANGED mailbox
    BY <1>c DEF RetireRefused
<1>e. \A p \in Requests : Admitted(p)' <=> Admitted(p)
    BY <1>b, QueueUnchanged
<1>1. TypeOK'
    <2>1. inFlight' \subseteq inFlight
        BY <1>d
    <2> QED BY <1>a, <1>b, <2>1 DEF Parts, TypeOK
<1>2. mailbox' \in Seq(Messages) /\ RetireAnnounced'
    <2>1. mailbox \in Seq(Messages) /\ RetireAnnounced
        BY <1>a DEF Parts, Inputs
    <2>2. CASE UNCHANGED mailbox
        BY <1>b, <2>1, <2>2 DEF RetireAnnounced
    <2>3. CASE mailbox' = Append(mailbox, RetireCommand(c, TRUE))
        <3>1. PICK m \in Messages : m = RetireCommand(c, TRUE) /\ m.connection = c
            <4>1. \E e \in BOOLEAN : RetireCommand(c, TRUE) = RetireCommand(c, e)
                OBVIOUS
            <4> QED BY <4>1, RetireIsMessage
        <3>2. mailbox' = Append(mailbox, m)
            BY <2>3, <3>1
        <3>3. /\ mailbox' \in Seq(Messages) /\ Len(mailbox) \in Nat
              /\ DOMAIN mailbox' = 1 .. Len(mailbox) + 1 /\ DOMAIN mailbox = 1 .. Len(mailbox)
              /\ mailbox'[Len(mailbox) + 1] = m
              /\ \A i \in 1 .. Len(mailbox) : mailbox'[i] = mailbox[i]
              /\ \A i \in 1 .. Len(mailbox) + 1 : i = Len(mailbox) + 1 \/ i \in 1 .. Len(mailbox)
            BY <2>1, <3>2
        <3> QED BY <1>b, <1>c, <2>1, <3>1, <3>3 DEF RetireAnnounced
    <2> QED BY <1>d, <2>2, <2>3
<1>3. owner' \in OwnerStates /\ OwnerKnows'
    BY <1>b, RestingKnows
<1>4. StartedAdmitted' /\ AdmittedAttached' /\ GoneRefuses' /\ ClosedUnused'
    BY <1>a, <1>b, <1>e
    DEF Parts, StartedAdmitted, AdmittedAttached, GoneRefuses, ClosedUnused, NoAdmission
<1>5. CanceledIsRolledBack'
    BY <1>a, <1>b DEF Parts, CanceledIsRolledBack
<1> QED BY <1>b, <1>1, <1>2, <1>3, <1>4, <1>5, OwnerAlone

LEMMA RetireRemoveKeeps ==
    ASSUME TransactionInv, RetireRemove, UNCHANGED closures
    PROVE  TransactionInv'
<1>a. Parts
    BY InvGivesParts
<1>b. /\ owner.at = "remove"
      /\ UNCHANGED <<queue, status, phase, scan, dying, mailbox, sealed, sql, started, dbClosed,
                     closePending, retireRequested, inFlight, closed>>
    BY DEF RetireRemove, requestVars
<1>c. PICK c \in Connections, forced \in BOOLEAN :
          owner = [at |-> "remove", connection |-> c, forced |-> forced]
    BY <1>a, <1>b DEF Parts, OwnerStates
<1>d. /\ registered' = registered \ {c}
      /\ forcedClose' = IF forced THEN forcedClose \cup {c} ELSE forcedClose
      /\ owner' = [at |-> IF forced THEN "cancel" ELSE "closed", connection |-> c, forced |-> forced]
    BY <1>c DEF RetireRemove
<1>e. /\ c \in closePending /\ (\A r \in sql : ConnOf[r] # c)
      /\ ~forced => \A r \in Requests : Admitted(r) => ConnOf[r] # c
    BY <1>a, <1>c DEF Parts, OwnerKnows, NoAdmission
<1>f. \A p \in Requests : Admitted(p)' <=> Admitted(p)
    BY <1>b, QueueUnchanged
<1>g. forcedClose \subseteq forcedClose'
    BY <1>d
<1>1. TypeOK'
    BY <1>a, <1>b, <1>d DEF Parts, TypeOK
<1>2. mailbox' \in Seq(Messages) /\ RetireAnnounced'
    BY <1>a, <1>b, MailUnchanged DEF Parts, Inputs
<1>3. StartedAdmitted'
    BY <1>a, <1>b, <1>f DEF Parts, StartedAdmitted
<1>4. AdmittedAttached'
    BY <1>a, <1>d, <1>e, <1>f DEF Parts, AdmittedAttached
<1>5. GoneRefuses' /\ ClosedUnused'
    BY <1>a, <1>b, <1>d, <1>e, <1>f DEF Parts, GoneRefuses, ClosedUnused, NoAdmission
<1>6. CanceledIsRolledBack'
    BY <1>a, <1>b, <1>g DEF Parts, CanceledIsRolledBack
<1>7. owner' \in OwnerStates
    BY <1>d DEF OwnerStates
<1>8. OwnerKnows'
    <2>1. /\ owner'.connection = c
          /\ owner'.at = IF forced THEN "cancel" ELSE "closed"
        BY <1>d
    <2>2. forced => c \in forcedClose'
        BY <1>d
    <2>3. owner'.at = "closed" => NoAdmission(owner.connection)'
        BY <1>e, <1>f, <2>1 DEF NoAdmission
    <2> QED BY <1>b, <1>e, <2>1, <2>2, <2>3 DEF OwnerKnows
<1> QED BY <1>b, <1>1, <1>2, <1>3, <1>4, <1>5, <1>6, <1>7, <1>8, OwnerAlone

LEMMA RetireCancelKeeps ==
    ASSUME TransactionInv, RetireCancel, UNCHANGED closures
    PROVE  TransactionInv'
<1>a. Parts
    BY InvGivesParts
<1>b. /\ owner.at = "cancel"
      /\ UNCHANGED <<phase, dying, mailbox, sealed, sql, dbClosed, registered,
                     closePending, retireRequested, inFlight, forcedClose, closed>>
    BY DEF RetireCancel, statusVars
<1>c. PICK c \in Connections, forced \in BOOLEAN :
          owner = [at |-> "cancel", connection |-> c, forced |-> forced]
    BY <1>a, <1>b DEF Parts, OwnerStates
<1>d. PICK S \in SUBSET Requests :
          /\ Withdraw(S, "Canceled")
          /\ \A r \in Requests : r \in S <=> Admitted(r) /\ ConnOf[r] = c
    <2> DEFINE S == {r \in ToSet(queue) : ConnOf[r] = c}
    <2>1. S \in SUBSET Requests
        BY <1>a DEF Parts, QueueInv, ToSet
    <2>2. Withdraw(S, "Canceled")
        BY <1>c DEF RetireCancel, CancelConnection
    <2>3. \A r \in Requests : r \in S <=> Admitted(r) /\ ConnOf[r] = c
        BY DEF Admitted
    <2> QED BY <2>1, <2>2, <2>3
<1>e. /\ started' = started \ StartedOn(c)
      /\ owner' = [at |-> "closed", connection |-> c, forced |-> forced]
    BY <1>c DEF RetireCancel
<1>f. c \in closePending /\ c \in forcedClose /\ \A r \in sql : ConnOf[r] # c
    BY <1>a, <1>c DEF Parts, OwnerKnows
<1>g. /\ QueueInv' /\ scan' \subseteq Connections
      /\ \A r \in Requests : Admitted(r)' <=> Admitted(r) /\ r \notin S
      /\ \A r \in S : status'[r] = "Canceled"
      /\ \A r \in Requests \ S :
             status'[r] = status[r] \/ (status[r] = "Pending" /\ status'[r] = "Ready")
    BY <1>a, <1>d, WithdrawKeeps DEF Parts
<1>h. \A r : r \in started' <=> r \in started /\ ConnOf[r] # c
    BY <1>e DEF StartedOn
<1>1. TypeOK'
    BY <1>a, <1>b, <1>e, <1>g DEF Parts, TypeOK, QueueInv
<1>2. mailbox' \in Seq(Messages) /\ RetireAnnounced'
    BY <1>a, <1>b, MailUnchanged DEF Parts, Inputs
<1>3. StartedAdmitted'
    BY <1>a, <1>b, <1>d, <1>f, <1>g, <1>h DEF Parts, StartedAdmitted
<1>4. NewUnqueued' /\ AdmittedAttached' /\ GoneRefuses' /\ ClosedUnused'
    BY <1>a, <1>b, <1>g
    DEF Parts, NewUnqueued, AdmittedAttached, GoneRefuses, ClosedUnused, NoAdmission
<1>5. CanceledIsRolledBack'
    <2> SUFFICES ASSUME NEW r \in Requests, status'[r] = "Canceled"
                 PROVE  r \notin sql' /\ ConnOf[r] \in forcedClose'
        BY DEF CanceledIsRolledBack
    <2>1. CASE r \in S
        BY <1>b, <1>d, <1>f, <2>1
    <2>2. CASE r \notin S
        BY <1>a, <1>b, <1>g, <2>2 DEF Parts, CanceledIsRolledBack
    <2> QED BY <2>1, <2>2
<1>6. owner' \in OwnerStates
    BY <1>e DEF OwnerStates
<1>7. OwnerKnows'
    <2>1. owner'.at = "closed" /\ owner'.connection = c
        BY <1>e
    <2>2. NoAdmission(owner.connection)'
        BY <1>d, <1>g, <2>1 DEF NoAdmission
    <2> QED BY <1>b, <1>f, <2>1, <2>2 DEF OwnerKnows
<1> QED BY <1>g, <1>1, <1>2, <1>3, <1>4, <1>5, <1>6, <1>7 DEF TransactionInv, QueueInv

LEMMA RetireClosedKeeps ==
    ASSUME TransactionInv, RetireClosed, UNCHANGED closures
    PROVE  TransactionInv'
<1>a. Parts
    BY InvGivesParts
<1>b. /\ owner.at = "closed" /\ owner' = Idle
      /\ UNCHANGED <<queue, status, phase, dying, mailbox, sealed, sql, started, dbClosed,
                     registered, closePending, retireRequested, inFlight, forcedClose>>
    BY DEF RetireClosed
<1>c. PICK c \in Connections, forced \in BOOLEAN :
          owner = [at |-> "closed", connection |-> c, forced |-> forced]
    BY <1>a, <1>b DEF Parts, OwnerStates
<1>d. closed' = closed \cup {c} /\ scan' \in {scan, scan \cup {c}}
    BY <1>c DEF RetireClosed
<1>e. NoAdmission(c)
    BY <1>a, <1>c DEF Parts, OwnerKnows
<1>f. \A p \in Requests : Admitted(p)' <=> Admitted(p)
    BY <1>b, QueueUnchanged
<1>1. TypeOK'
    BY <1>a, <1>b, <1>d DEF Parts, TypeOK
<1>2. mailbox' \in Seq(Messages) /\ RetireAnnounced'
    BY <1>a, <1>b, MailUnchanged DEF Parts, Inputs
<1>3. owner' \in OwnerStates /\ OwnerKnows'
    BY <1>b, RestingKnows
<1>4. StartedAdmitted' /\ AdmittedAttached' /\ GoneRefuses'
    BY <1>a, <1>b, <1>f DEF Parts, StartedAdmitted, AdmittedAttached, GoneRefuses
<1>5. ClosedUnused'
    BY <1>a, <1>d, <1>e, <1>f DEF Parts, ClosedUnused, NoAdmission
<1>6. CanceledIsRolledBack'
    BY <1>a, <1>b DEF Parts, CanceledIsRolledBack
<1> QED BY <1>b, <1>1, <1>2, <1>3, <1>4, <1>5, <1>6, OwnerAlone

LEMMA StopKeeps ==
    ASSUME TransactionInv, Stop, UNCHANGED closures
    PROVE  TransactionInv'
<1>a. Parts
    BY InvGivesParts
<1>b. /\ Receives("stop") /\ mailbox' = Tail(mailbox) /\ owner' = [at |-> "close"]
      /\ UNCHANGED <<queue, status, phase, scan, dying, sealed, sql, started, dbClosed, registered,
                     closePending, retireRequested, inFlight, forcedClose, closed>>
    BY DEF Stop, requestVars, statusVars
<1>c. mailbox # <<>>
    BY <1>b DEF Receives
<1>d. \A p \in Requests : Admitted(p)' <=> Admitted(p)
    BY <1>b, QueueUnchanged
<1>1. TypeOK'
    BY <1>a, <1>b DEF Parts, TypeOK
<1>2. mailbox' \in Seq(Messages) /\ RetireAnnounced'
    BY <1>a, <1>b, <1>c, MailTaken DEF Parts, Inputs
<1>3. owner' \in OwnerStates /\ OwnerKnows'
    BY <1>b, RestingKnows
<1>4. StartedAdmitted' /\ AdmittedAttached' /\ GoneRefuses' /\ ClosedUnused'
    BY <1>a, <1>b, <1>d
    DEF Parts, StartedAdmitted, AdmittedAttached, GoneRefuses, ClosedUnused, NoAdmission
<1>5. CanceledIsRolledBack'
    BY <1>a, <1>b DEF Parts, CanceledIsRolledBack
<1> QED BY <1>b, <1>1, <1>2, <1>3, <1>4, <1>5, OwnerAlone

LEMMA CloseSqlKeeps ==
    ASSUME TransactionInv, CloseSql, UNCHANGED closures
    PROVE  TransactionInv'
<1>a. Parts
    BY InvGivesParts
<1>b. /\ sql' = {} /\ owner' = [at |-> "publish"]
      /\ UNCHANGED <<queue, status, phase, scan, dying, mailbox, sealed, started, dbClosed,
                     registered, closePending, retireRequested, inFlight, forcedClose, closed>>
    BY DEF CloseSql, requestVars, statusVars
<1>c. \A p \in Requests : Admitted(p)' <=> Admitted(p)
    BY <1>b, QueueUnchanged
<1>1. TypeOK'
    BY <1>a, <1>b DEF Parts, TypeOK
<1>2. mailbox' \in Seq(Messages) /\ RetireAnnounced'
    BY <1>a, <1>b, MailUnchanged DEF Parts, Inputs
<1>3. owner' \in OwnerStates /\ OwnerKnows'
    BY <1>b DEF OwnerStates, OwnerKnows
<1>4. StartedAdmitted' /\ AdmittedAttached' /\ GoneRefuses' /\ ClosedUnused'
    BY <1>a, <1>b, <1>c
    DEF Parts, StartedAdmitted, AdmittedAttached, GoneRefuses, ClosedUnused, NoAdmission
<1>5. CanceledIsRolledBack'
    BY <1>a, <1>b DEF Parts, CanceledIsRolledBack
<1> QED BY <1>b, <1>1, <1>2, <1>3, <1>4, <1>5, OwnerAlone

\* From here on nothing is accepted, and everyone still admitted is marked.
LEMMA ClosePublishKeeps ==
    ASSUME TransactionInv, ClosePublish, UNCHANGED closures
    PROVE  TransactionInv'
<1>a. Parts
    BY InvGivesParts
<1>b. /\ owner.at = "publish" /\ dbClosed' = TRUE /\ registered' = {} /\ started' = {}
      /\ forcedClose' = forcedClose \cup registered
      /\ owner' = [at |-> "cancelAll", connections |-> registered]
      /\ UNCHANGED <<queue, status, phase, scan, dying, mailbox, sealed, sql,
                     closePending, retireRequested, inFlight, closed>>
    BY DEF ClosePublish, requestVars
<1>c. \A p \in Requests : Admitted(p)' <=> Admitted(p)
    BY <1>b, QueueUnchanged
<1>d. sql = {}
    BY <1>a, <1>b DEF Parts, OwnerKnows
<1>e. \A p \in Requests : Admitted(p)' => ConnOf[p] \in forcedClose'
    BY <1>a, <1>b, <1>c DEF Parts, AdmittedAttached
<1>1. TypeOK'
    BY <1>a, <1>b DEF Parts, TypeOK
<1>2. mailbox' \in Seq(Messages) /\ RetireAnnounced'
    BY <1>a, <1>b, MailUnchanged DEF Parts, Inputs
<1>3. owner' \in OwnerStates
    BY <1>a, <1>b DEF OwnerStates, Parts, TypeOK
<1>4. OwnerKnows'
    BY <1>b, <1>d, <1>e DEF OwnerKnows
<1>5. StartedAdmitted' /\ AdmittedAttached' /\ GoneRefuses' /\ ClosedUnused'
    BY <1>a, <1>b, <1>c, <1>d, <1>e
    DEF Parts, StartedAdmitted, AdmittedAttached, GoneRefuses, ClosedUnused, NoAdmission
<1>6. CanceledIsRolledBack'
    BY <1>a, <1>b DEF Parts, CanceledIsRolledBack
<1> QED BY <1>b, <1>1, <1>2, <1>3, <1>4, <1>5, <1>6, OwnerAlone

LEMMA CloseCancelKeeps ==
    ASSUME TransactionInv, CloseCancel, UNCHANGED closures
    PROVE  TransactionInv'
<1>a. Parts
    BY InvGivesParts
<1>b. /\ owner.at = "cancelAll" /\ queue' = <<>>
      /\ owner' = [at |-> "mark", connections |-> owner.connections, canceled |-> ToSet(queue)]
      /\ UNCHANGED <<status, phase, scan, dying, mailbox, sealed, sql, started, dbClosed,
                     registered, closePending, retireRequested, inFlight, forcedClose, closed>>
    BY DEF CloseCancel, statusVars
<1>c. \A p \in Requests : ~Admitted(p)'
    BY <1>b DEF Admitted, ToSet
<1>d. /\ sql = {} /\ started = {} /\ dbClosed
      /\ \A r \in ToSet(queue) : r \in Requests /\ ConnOf[r] \in forcedClose
    <2>1. \A r \in ToSet(queue) : r \in Requests
        BY <1>a DEF Parts, QueueInv, ToSet
    <2> QED BY <1>a, <1>b, <2>1 DEF Parts, OwnerKnows, Admitted
<1>e. owner.connections \in SUBSET Connections
    BY <1>a, <1>b DEF Parts, OwnerStates
<1>1. QueueInv'
    BY <1>a, <1>b DEF Parts, QueueInv, QueueDistinct, ReadyUnblocked
<1>2. TypeOK'
    BY <1>a, <1>b DEF Parts, TypeOK
<1>3. mailbox' \in Seq(Messages) /\ RetireAnnounced'
    BY <1>a, <1>b, MailUnchanged DEF Parts, Inputs
<1>4. owner' \in OwnerStates
    BY <1>b, <1>d, <1>e DEF OwnerStates
<1>5. OwnerKnows'
    <2>1. owner'.at = "mark" /\ owner'.canceled = ToSet(queue)
        BY <1>b
    <2> QED BY <1>b, <1>c, <1>d, <2>1 DEF OwnerKnows
<1>6. NewUnqueued' /\ StartedAdmitted' /\ AdmittedAttached' /\ GoneRefuses' /\ ClosedUnused'
    BY <1>a, <1>b, <1>c, <1>d
    DEF Parts, NewUnqueued, StartedAdmitted, AdmittedAttached, GoneRefuses, ClosedUnused, NoAdmission
<1>7. CanceledIsRolledBack'
    BY <1>a, <1>b DEF Parts, CanceledIsRolledBack
<1> QED BY <1>1, <1>2, <1>3, <1>4, <1>5, <1>6, <1>7 DEF TransactionInv, QueueInv

LEMMA CloseMarkKeeps ==
    ASSUME TransactionInv, CloseMark, UNCHANGED closures
    PROVE  TransactionInv'
<1>a. Parts
    BY InvGivesParts
<1>b. /\ owner.at = "mark"
      /\ UNCHANGED <<queue, phase, dying, mailbox, sealed, sql, started, dbClosed,
                     registered, closePending, retireRequested, inFlight, forcedClose, closed>>
    BY DEF CloseMark, statusVars
<1>c. PICK S \in SUBSET Requests, cs \in SUBSET Connections :
          owner = [at |-> "mark", connections |-> cs, canceled |-> S]
    BY <1>a, <1>b DEF Parts, OwnerStates
<1>d. /\ status' = [r \in Requests |-> IF r \in S THEN "Canceled" ELSE status[r]]
      /\ scan' = scan \cup Owners(S)
      /\ owner' = [at |-> "retireAll", connections |-> cs]
    BY <1>c DEF CloseMark
<1>e. /\ sql = {} /\ started = {} /\ dbClosed
      /\ \A r \in Requests : ~Admitted(r)
      /\ \A r \in S : ConnOf[r] \in forcedClose
    BY <1>a, <1>c DEF Parts, OwnerKnows
<1>f. \A p \in Requests : ~Admitted(p)'
    BY <1>b, <1>e DEF Admitted
<1>g. scan' \subseteq Connections
    BY <1>a, <1>d, QueueAssumption DEF Parts, Owners
<1>1. QueueInv'
    <2>1. \A i \in DOMAIN queue : FALSE
        BY <1>a, <1>e, AdmittedAt DEF Parts, QueueInv
    <2> QED BY <1>a, <1>b, <1>d, <2>1 DEF Parts, QueueInv, QueueDistinct, ReadyUnblocked
<1>2. TypeOK'
    BY <1>a, <1>b, <1>g, <1>1 DEF Parts, TypeOK, QueueInv
<1>3. mailbox' \in Seq(Messages) /\ RetireAnnounced'
    BY <1>a, <1>b, MailUnchanged DEF Parts, Inputs
<1>4. owner' \in OwnerStates
    BY <1>d DEF OwnerStates
<1>5. OwnerKnows'
    BY <1>b, <1>d, <1>e, <1>f DEF OwnerKnows
<1>6. NewUnqueued' /\ StartedAdmitted' /\ AdmittedAttached' /\ GoneRefuses' /\ ClosedUnused'
    BY <1>a, <1>b, <1>e, <1>f
    DEF Parts, NewUnqueued, StartedAdmitted, AdmittedAttached, GoneRefuses, ClosedUnused, NoAdmission
<1>7. CanceledIsRolledBack'
    BY <1>a, <1>b, <1>d, <1>e DEF Parts, CanceledIsRolledBack
<1> QED BY <1>1, <1>2, <1>3, <1>4, <1>5, <1>6, <1>7 DEF TransactionInv, QueueInv

LEMMA CloseRetireKeeps ==
    ASSUME TransactionInv, CloseRetire, UNCHANGED closures
    PROVE  TransactionInv'
<1>a. Parts
    BY InvGivesParts
<1>b. /\ owner.at = "retireAll" /\ owner' = [at |-> "drain"]
      /\ closed' = closed \cup owner.connections /\ scan' = scan \cup owner.connections
      /\ UNCHANGED <<queue, status, phase, dying, mailbox, sealed, sql, started, dbClosed,
                     registered, closePending, retireRequested, inFlight, forcedClose>>
    BY DEF CloseRetire
<1>c. owner.connections \in SUBSET Connections
    BY <1>a, <1>b DEF Parts, OwnerStates
<1>d. \A p \in Requests : Admitted(p)' <=> Admitted(p)
    BY <1>b, QueueUnchanged
<1>e. sql = {} /\ started = {} /\ dbClosed /\ \A r \in Requests : ~Admitted(r)
    BY <1>a, <1>b DEF Parts, OwnerKnows
<1>1. TypeOK'
    BY <1>a, <1>b, <1>c DEF Parts, TypeOK
<1>2. mailbox' \in Seq(Messages) /\ RetireAnnounced'
    BY <1>a, <1>b, MailUnchanged DEF Parts, Inputs
<1>3. owner' \in OwnerStates /\ OwnerKnows'
    BY <1>b, <1>e DEF OwnerStates, OwnerKnows
<1>4. StartedAdmitted' /\ AdmittedAttached' /\ GoneRefuses' /\ ClosedUnused'
    BY <1>a, <1>b, <1>d, <1>e
    DEF Parts, StartedAdmitted, AdmittedAttached, GoneRefuses, ClosedUnused, NoAdmission
<1>5. CanceledIsRolledBack'
    BY <1>a, <1>b DEF Parts, CanceledIsRolledBack
<1> QED BY <1>b, <1>1, <1>2, <1>3, <1>4, <1>5, OwnerAlone

LEMMA FinishQueueKeeps ==
    ASSUME TransactionInv, FinishQueue, UNCHANGED closures
    PROVE  TransactionInv'
<1>a. Parts
    BY InvGivesParts
<1>b. /\ owner.at = "drain" /\ sealed' = TRUE /\ mailbox' = <<>> /\ owner' = Stopped
      /\ inFlight' = inFlight \cap closed
      /\ UNCHANGED <<queue, status, scan, dying, sql, started, dbClosed, registered,
                     closePending, retireRequested, forcedClose, closed>>
    BY DEF FinishQueue
<1>c. /\ phase' \in [Requests -> {"none", "waiting", "starting", "begun", "active", "failed",
                                  "committing", "ending", "ended", "rejected", "done"}]
      /\ \A p \in Requests : phase'[p] = "none" => phase[p] = "none"
    <2> DEFINE left == {mailbox[i] : i \in {j \in DOMAIN mailbox : mailbox[j].op \in Ops}}
               Rejected(r, ops) == \E m \in left : m.request = r /\ m.op \in ops
               B(r) == Rejected(r, {"begin"})
               E(r) == Rejected(r, {"commit", "abort"})
    <2>1. phase' = [r \in Requests |->
              IF phase[r] = "begun" /\ B(r) THEN "failed"
              ELSE IF phase[r] = "ending" /\ E(r) THEN "ended"
              ELSE phase[r]]
        BY DEF FinishQueue
    <2> HIDE DEF B, E
    <2> QED BY <1>a, <2>1 DEF Parts, TypeOK
<1>d. QueueInv' /\ \A p \in Requests : Admitted(p)' <=> Admitted(p)
    BY <1>b, QueueUnchanged
<1>e. sql = {} /\ started = {} /\ dbClosed
    BY <1>a, <1>b DEF Parts, OwnerKnows
<1>1. TypeOK'
    BY <1>a, <1>b, <1>c DEF Parts, TypeOK
<1>2. mailbox' \in Seq(Messages) /\ RetireAnnounced'
    BY <1>b DEF RetireAnnounced
<1>3. owner' \in OwnerStates /\ OwnerKnows'
    BY <1>b, <1>e DEF OwnerStates, OwnerKnows, Stopped
<1>4. NewUnqueued' /\ StartedAdmitted' /\ AdmittedAttached' /\ GoneRefuses' /\ ClosedUnused'
    BY <1>a, <1>b, <1>c, <1>d, <1>e
    DEF Parts, NewUnqueued, StartedAdmitted, AdmittedAttached, GoneRefuses, ClosedUnused, NoAdmission
<1>5. CanceledIsRolledBack'
    BY <1>a, <1>b DEF Parts, CanceledIsRolledBack
<1> QED BY <1>d, <1>1, <1>2, <1>3, <1>4, <1>5 DEF TransactionInv, QueueInv

------------------------------------------------------------------------------
(* The theorems.                                                           *)

LEMMA InitEstablishes == Init => TransactionInv
<1> SUFFICES ASSUME Init PROVE TransactionInv
    OBVIOUS
<1>1. TypeOK /\ mailbox \in Seq(Messages) /\ owner \in OwnerStates
    <2>1. TypeOK
        <3>1. queue \in Seq(Requests) /\ closures \in 0 .. MaxClosures
            BY QueueAssumption DEF Init
        <3>2. /\ status \in [Requests -> {"New", "Pending", "Ready", "Started", "Canceled",
                                         "Finished"}]
              /\ phase \in [Requests -> {"none", "waiting", "starting", "begun", "active", "failed",
                                         "committing", "ending", "ended", "rejected", "done"}]
            BY DEF Init
        <3> QED BY <3>1, <3>2, TypeParts DEF Init
    <2>2. mailbox \in Seq(Messages)
        BY DEF Init
    <2>3. owner \in OwnerStates
        BY DEF Init, Idle, OwnerStates
    <2> QED BY <2>1, <2>2, <2>3
<1>2. \A p : ~Admitted(p)
    BY DEF Init, Admitted, ToSet
<1>3. QueueDistinct /\ ReadyUnblocked
    BY DEF Init, QueueDistinct, ReadyUnblocked
<1>4. NewUnqueued /\ StartedAdmitted /\ AdmittedAttached /\ ClosedUnused
    BY <1>2 DEF Init, NewUnqueued, StartedAdmitted, AdmittedAttached, ClosedUnused
<1>5. GoneRefuses /\ RetireAnnounced /\ CanceledIsRolledBack
    BY DEF Init, GoneRefuses, RetireAnnounced, CanceledIsRolledBack
<1>6. OwnerKnows
    BY DEF Init, Idle, OwnerKnows
<1> QED BY <1>1, <1>3, <1>4, <1>5, <1>6 DEF TransactionInv

LEMMA StepKeeps == TransactionInv /\ [Next]_vars => TransactionInv'
<1> SUFFICES ASSUME TransactionInv, [Next]_vars PROVE TransactionInv'
    OBVIOUS
<1>a. Parts
    BY InvGivesParts
<1>1. ASSUME NEW r \in Requests, UNCHANGED closures,
             \/ QueueTransactionStart(r) \/ FlushStart(r) \/ AbortUnstarted(r)
             \/ FlushCommit(r) \/ Commit(r) \/ Abort(r) \/ Settle(r) \/ TearDownTransaction(r)
      PROVE  TransactionInv'
    BY <1>1, QueueTransactionStartKeeps, FlushStartKeeps, LeaseDroppedKeeps, FlushCommitKeeps,
       CommitKeeps, AbortKeeps, TearDownTransactionKeeps
<1>2. ASSUME NEW c \in Connections, UNCHANGED closures, Scan(c) \/ TearDownConnection(c)
      PROVE  TransactionInv'
    <2>1. closures' \in 0 .. MaxClosures
        BY <1>a, <1>2 DEF Parts, TypeOK
    <2>2. CASE Scan(c)
        BY <1>2, <2>2, ScanKeeps
    <2>3. CASE TearDownConnection(c)
        BY <2>1, <2>3, RetireKeeps DEF TearDownConnection
    <2> QED BY <1>2, <2>2, <2>3
<1>3. CASE Owner /\ UNCHANGED closures
    BY <1>3, ClaimStartKeeps, BeginKeeps, EndKeeps, FinishKeeps, RetireRollbackKeeps,
       RetireRefusedKeeps, RetireRemoveKeeps, RetireCancelKeeps, RetireClosedKeeps, StopKeeps, CloseSqlKeeps,
       ClosePublishKeeps, CloseCancelKeeps, CloseMarkKeeps, CloseRetireKeeps, FinishQueueKeeps
    DEF Owner
<1>4. ASSUME NEW c \in Connections, Close(c) \/ Retire(c) \/ TearDown(c)
      PROVE  TransactionInv'
    <2>1. CASE Retire(c)
        <3>1. closures' \in 0 .. MaxClosures
            BY <1>a, <2>1, DisturbFacts DEF Parts, Retire
        <3> QED BY <2>1, <3>1, RetireKeeps DEF Retire
    <2> QED BY <1>4, <2>1, CloseKeeps, TearDownKeeps
<1>5. ASSUME NEW seal \in BOOLEAN, CloseDatabase(seal)
      PROVE  TransactionInv'
    BY <1>5, CloseDatabaseKeeps
<1>6. CASE UNCHANGED vars
    <2>1. /\ UNCHANGED ownerVars /\ UNCHANGED <<forcedClose, closed, queue, status>>
          /\ UNCHANGED <<closePending, mailbox, phase>>
        BY <1>6 DEF vars, ownerVars, statusVars, requestVars
    <2>2. mailbox' \in Seq(Messages) /\ RetireAnnounced'
        BY <1>a, <2>1, MailUnchanged DEF Parts, Inputs
    <2>3. TypeOK'
        BY <1>a, <1>6 DEF Parts, TypeOK, vars, ownerVars, statusVars, requestVars
    <2> QED BY <2>1, <2>2, <2>3, LoopUnqueued
<1> QED BY <1>1, <1>2, <1>3, <1>4, <1>5, <1>6 DEF Next, EventLoop, Closure

\* In every reachable state the queue is in order, SQLite runs what is
\* admitted, and the owner knows at each stage of a retirement or a closing
\* what the next stage relies on.
THEOREM TransactionInvariant == Spec => []TransactionInv
BY InitEstablishes, StepKeeps, PTL DEF Spec

\* finish_canceled_transaction may disarm the rollback guard as soon as it
\* reads Canceled: SQLite has ended the transaction, and the connection has
\* been told (connections.rs: retire_connection; service.rs: Entry::close).
THEOREM CanceledIsRolledBackHolds == Spec => []CanceledIsRolledBack
<1>1. TransactionInv => CanceledIsRolledBack
    BY DEF TransactionInv
<1> QED BY <1>1, TransactionInvariant, PTL

\* A connection whose close has completed holds no admission: nobody waits
\* behind a transaction that nobody will start (connections.rs:
\* queue_transaction_start and retire_connection).
THEOREM ClosedHoldsNoAdmissionHolds == Spec => []ClosedHoldsNoAdmission
<1>1. TransactionInv => ClosedHoldsNoAdmission
    <2> SUFFICES ASSUME TransactionInv PROVE ClosedHoldsNoAdmission
        OBVIOUS
    <2>1. TypeOK /\ ClosedUnused /\ StartedAdmitted /\ started \subseteq Requests
          /\ queue \in Seq(Requests)
        BY TypeParts DEF TransactionInv
    <2>2. ToSet(queue) \subseteq Requests
        BY <2>1 DEF ToSet
    <2> QED BY <2>1, <2>2
            DEF ClosedHoldsNoAdmission, ClosedUnused, NoAdmission, QueuedOn, StartedOn,
                StartedAdmitted, Admitted
<1> QED BY <1>1, TransactionInvariant, PTL

------------------------------------------------------------------------------
(* The refinement: order is the queue, running is what SQLite has open.    *)

\* Everything but the following leaves both alone.
Visible ==
    \/ \E r \in Requests : QueueTransactionStart(r)
    \/ \E r \in Requests : ReleaseLease(r) /\ UNCHANGED sql
    \/ Begin \/ End \/ Finish \/ RetireRollback \/ RetireCancel \/ CloseSql \/ CloseCancel
    \/ UNCHANGED <<queue, sql>>

LEMMA AbortArmedVisible ==
    ASSUME NEW r \in Requests, AbortArmed(r), UNCHANGED ownerVars
    PROVE  Visible
BY DEF AbortArmed, Visible, ownerVars

LEMMA StepVisible == [Next]_vars => Visible
<1> SUFFICES ASSUME [Next]_vars PROVE Visible
    OBVIOUS
<1>1. ASSUME NEW r \in Requests,
             \/ QueueTransactionStart(r) \/ FlushStart(r) \/ AbortUnstarted(r)
             \/ FlushCommit(r) \/ Commit(r) \/ Abort(r) \/ Settle(r) \/ TearDownTransaction(r)
      PROVE  Visible
    <2>1. CASE QueueTransactionStart(r)
        BY <2>1 DEF Visible
    <2>2. CASE FlushStart(r)
        <3>1. CASE AbortArmed(r)
            BY <2>2, <3>1, AbortArmedVisible DEF FlushStart
        <3> QED BY <2>2, <3>1 DEF FlushStart, Visible, ownerVars
    <2>3. CASE AbortUnstarted(r)
        BY <2>3 DEF AbortUnstarted, Visible, ownerVars
    <2>4. CASE Commit(r)
        <3>1. CASE AbortArmed(r)
            BY <2>4, <3>1, AbortArmedVisible DEF Commit
        <3> QED BY <2>4, <3>1 DEF Commit, Visible, ownerVars
    <2>5. CASE Abort(r)
        BY <2>5, AbortArmedVisible DEF Abort
    <2>6. CASE Settle(r)
        BY <2>6 DEF Settle, Visible, ownerVars
    <2>7. CASE TearDownTransaction(r)
        BY <2>7 DEF TearDownTransaction, Visible, ownerVars
    <2>8. CASE FlushCommit(r)
        BY <2>8 DEF FlushCommit, Visible, ownerVars
    <2> QED BY <1>1, <2>1, <2>2, <2>3, <2>4, <2>5, <2>6, <2>7, <2>8
<1>2. ASSUME NEW c \in Connections, Scan(c) \/ TearDownConnection(c)
      PROVE  Visible
    BY <1>2 DEF Scan, TearDownConnection, Visible, ownerVars, requestVars
<1>3. CASE Owner
    <2>1. CASE ClaimStart \/ RetireRefused \/ RetireRemove \/ RetireClosed \/ Stop
        BY <2>1 DEF ClaimStart, RetireRefused, RetireRemove, RetireClosed, Stop, Visible, requestVars
    <2>2. CASE ClosePublish \/ CloseMark \/ CloseRetire \/ FinishQueue
        BY <2>2 DEF ClosePublish, CloseMark, CloseRetire, FinishQueue, Visible, requestVars
    <2> QED BY <1>3, <2>1, <2>2 DEF Owner, Visible
<1>4. ASSUME NEW c \in Connections, Close(c) \/ Retire(c) \/ TearDown(c)
      PROVE  Visible
    BY <1>4 DEF Close, Retire, TearDown, Visible, ownerVars, requestVars
<1>5. ASSUME NEW seal \in BOOLEAN, CloseDatabase(seal)
      PROVE  Visible
    BY <1>5 DEF CloseDatabase, Visible, ownerVars, requestVars
<1>6. CASE UNCHANGED vars
    BY <1>6 DEF vars, ownerVars, requestVars, Visible
<1> QED BY <1>1, <1>2, <1>3, <1>4, <1>5, <1>6 DEF Next, EventLoop, Closure

OrderStep == Abstract!OrderNext \/ UNCHANGED <<queue, sql>>

\* Entries that leave without running make a Leave step.
LEMMA WithdrawLeaves ==
    ASSUME NEW S \in SUBSET Requests, NEW outcome, Withdraw(S, outcome),
           S \cap sql = {}, UNCHANGED sql
    PROVE  OrderStep
<1>1. queue' = Without(queue, S)
    BY DEF Withdraw
<1>2. Abstract!Leave(S)
    BY <1>1 DEF Abstract!Leave, Abstract!Without, Without
<1> QED BY <1>2 DEF OrderStep, Abstract!OrderNext

LEMMA VisibleRefines ==
    ASSUME TransactionInv, Visible
    PROVE  OrderStep
<1>a. Parts
    BY InvGivesParts
<1>b. sql \subseteq Requests /\ sql \subseteq started
      /\ \A r \in sql : Admitted(r) /\ status[r] = "Started"
    BY <1>a DEF Parts, StartedAdmitted
<1>1. ASSUME NEW r \in Requests, QueueTransactionStart(r)
      PROVE  OrderStep
    <2>1. r \notin ToSet(queue)
        BY <1>a, <1>1 DEF QueueTransactionStart, Parts, NewUnqueued, Admitted
    <2>2. queue' = Append(queue, r) /\ UNCHANGED sql
        BY <1>1 DEF QueueTransactionStart, Enqueue, ownerVars
    <2>3. Abstract!Accept(r)
        BY <2>1, <2>2 DEF Abstract!Accept, Abstract!ToSet, ToSet
    <2> QED BY <2>3 DEF OrderStep, Abstract!OrderNext
<1>2. ASSUME NEW r \in Requests, ReleaseLease(r), UNCHANGED sql
      PROVE  OrderStep
    <2>1. CASE Withdraw({r}, "Finished") /\ status[r] # "Started"
        <3>1. {r} \cap sql = {} /\ {r} \in SUBSET Requests
            BY <1>b, <2>1
        <3> QED BY <1>2, <2>1, <3>1, WithdrawLeaves
    <2>2. CASE UNCHANGED <<queue, status, scan>>
        BY <1>2, <2>2 DEF OrderStep
    <2> QED BY <1>2, <2>1, <2>2 DEF ReleaseLease
<1>3. ASSUME NEW r \in Requests, FinishAdmission(r), r \notin sql, UNCHANGED sql
      PROVE  OrderStep
    <2>1. CASE Withdraw({r}, "Finished")
        <3>1. {r} \cap sql = {} /\ {r} \in SUBSET Requests
            BY <1>3
        <3> QED BY <1>3, <2>1, <3>1, WithdrawLeaves
    <2>2. CASE UNCHANGED <<queue, status, scan>>
        BY <1>3, <2>2 DEF OrderStep
    <2> QED BY <1>3, <2>1, <2>2 DEF FinishAdmission
<1>4. ASSUME NEW S \in SUBSET Requests, sql' = sql \ S, UNCHANGED queue
      PROVE  OrderStep
    BY <1>4 DEF OrderStep, Abstract!OrderNext, Abstract!End
<1>5. CASE Begin
    <2>1. PICK r \in Requests :
              /\ r = owner.request /\ Admitted(r) /\ status[r] = "Started" /\ r \notin sql
        BY <1>a, <1>b, <1>5 DEF Begin, Parts, OwnerKnows, OwnerStates
    <2>2. CASE sql' = sql \cup {r} /\ UNCHANGED queue
        <3>1. \A q \in Abstract!Older(r) : ~ConflictsWith(r, q)
            <4> SUFFICES ASSUME NEW j \in DOMAIN queue, NEW k \in DOMAIN queue,
                                j < k, queue[k] = r
                         PROVE  ~ConflictsWith(r, queue[j])
                BY DEF Abstract!Older
            <4>1. Unblocked(queue, k)
                BY <1>a, <2>1 DEF Parts, QueueInv, ReadyUnblocked
            <4>2. j \in 1 .. k - 1
                BY <1>a DEF Parts, QueueInv
            <4> QED BY <4>1, <4>2 DEF Unblocked
        <3>2. Abstract!Start(r)
            BY <2>1, <2>2, <3>1 DEF Abstract!Start, Abstract!ToSet, ToSet, Admitted
        <3> QED BY <3>2 DEF OrderStep, Abstract!OrderNext
    <2>3. CASE FinishAdmission(r) /\ UNCHANGED sql
        BY <1>3, <2>1, <2>3
    <2> QED BY <1>5, <2>1, <2>2, <2>3 DEF Begin
<1>6. CASE End
    <2>1. PICK op \in {"commit", "abort"} : Receives(op)
        BY <1>6 DEF End
    <2>2. PICK r \in Requests : r = Head(mailbox).request
        BY <1>a, <2>1, ReceivedIsMessage DEF Ops
    <2>3. UNCHANGED queue /\ sql' \in {sql, sql \ {r}}
        BY <1>6, <2>2 DEF End
    <2>4. CASE sql' = sql \ {r}
        BY <1>4, <2>3, <2>4
    <2> QED BY <2>3, <2>4 DEF OrderStep
<1>7. CASE Finish
    <2>1. PICK r \in Requests : r = owner.request /\ r \notin sql
        BY <1>a, <1>7 DEF Finish, Parts, OwnerKnows, OwnerStates
    <2>2. FinishAdmission(r) /\ UNCHANGED sql
        BY <1>7, <2>1 DEF Finish
    <2> QED BY <1>3, <2>1, <2>2
<1>8. CASE RetireRollback
    <2>1. UNCHANGED queue /\ \E c : sql' \in {sql, sql \ StartedOn(c)}
        BY <1>8 DEF RetireRollback, requestVars
    <2>2. PICK c : sql' \in {sql, sql \ StartedOn(c)}
        BY <2>1
    <2>3. StartedOn(c) \in SUBSET Requests
        BY <1>a DEF Parts, StartedOn
    <2>4. CASE sql' = sql \ StartedOn(c)
        BY <1>4, <2>1, <2>3, <2>4
    <2> QED BY <2>1, <2>2, <2>4 DEF OrderStep
<1>9. CASE RetireCancel
    <2> DEFINE S == {r \in ToSet(queue) : ConnOf[r] = owner.connection}
    <2>1. S \in SUBSET Requests
        BY <1>a DEF Parts, QueueInv, ToSet
    <2>2. Withdraw(S, "Canceled") /\ UNCHANGED sql
        BY <1>9 DEF RetireCancel, CancelConnection
    <2>3. S \cap sql = {}
        BY <1>a, <1>9 DEF RetireCancel, Parts, OwnerKnows
    <2> HIDE DEF S
    <2> QED BY <2>1, <2>2, <2>3, WithdrawLeaves
<1>10. CASE CloseSql
    <2>1. UNCHANGED queue /\ sql' = sql \ Requests
        BY <1>b, <1>10 DEF CloseSql, requestVars
    <2> QED BY <1>4, <2>1
<1>11. CASE CloseCancel
    <2>1. sql = {} /\ queue' = <<>> /\ UNCHANGED sql /\ queue \in Seq(Requests)
        BY <1>a, <1>11 DEF CloseCancel, Parts, OwnerKnows, QueueInv
    <2>2. Without(queue, Requests) = <<>>
        <3> DEFINE q == Without(queue, Requests)
        <3>1. q \in Seq(Requests) /\ \E at : KeptAt(q, at, queue, Requests, Len(queue))
            BY <2>1, WithoutFacts
        <3> HIDE DEF q
        <3>2. \A i \in 1 .. Len(q) : q[i] \in Requests /\ q[i] \notin Requests
            BY <3>1 DEF KeptAt
        <3>3. Len(q) = 0
            BY <3>1, <3>2
        <3> QED BY <3>1, <3>3 DEF q
    <2>3. Abstract!Leave(Requests)
        BY <2>1, <2>2 DEF Abstract!Leave, Abstract!Without, Without
    <2> QED BY <2>3 DEF OrderStep, Abstract!OrderNext
<1> QED
    BY <1>1, <1>2, <1>5, <1>6, <1>7, <1>8, <1>9, <1>10, <1>11 DEF Visible, OrderStep

\* The queue and the owner implement TransactionOrder: conflicting
\* transactions run one at a time in the order of their acceptance, and no
\* admission is given up while its transaction is open (transaction_queue.rs,
\* owner.rs, connections.rs, service.rs).
THEOREM OrderImplemented == Spec => ImplementsOrder
<1>1. Init => Abstract!OrderInit
    BY DEF Init, Abstract!OrderInit
<1>2. TransactionInv /\ [Next]_vars => [Abstract!OrderNext]_<<queue, sql>>
    BY StepVisible, VisibleRefines DEF OrderStep
<1> QED
    BY <1>1, <1>2, TransactionInvariant, PTL DEF Spec, ImplementsOrder, Abstract!OrderSpec

-----------------------------------------------------------------------------
(***************************************************************************)
(* The message ports.                                                      *)
(***************************************************************************)
\* The calls a thread can still have to make.
PortCalls ==
    [op : {"wake", "clear", "close", "detach", "attach"}, port : Ports]
        \cup [op : {"send"}, port : Ports, to : Contexts]
        \cup [op : {"enqueue", "receive"}, port : Ports, message : Ports \cup {NoPort}]

\* Calls that carry the endpoint p away, take it from its context, give it an
\* owner, and wake the context c for it.
Carrying(p) == {k \in PortCalls : \/ k.op \in {"enqueue", "receive"} /\ k.message = p
                                  \/ k.op = "close" /\ k.port = p}
Parting(p) == {k \in PortCalls : k.op \in {"detach", "close"} /\ k.port = p}
Detaching == {k \in PortCalls : k.op = "detach"}
Attaching(p) == {k \in PortCalls : k.op = "attach" /\ k.port = p}
Clearing == {k \in PortCalls : k.op = "clear"}
Waking(p, c) == {k \in PortCalls : Wakes(k, p, c)}

\* Some member of s is in S, and no two are.
Some(s, S) == \E i \in 1 .. Len(s) : s[i] \in S
Single(s, S) == \A i, j \in 1 .. Len(s) : s[i] \in S /\ s[j] \in S => i = j

\* No member of the empty sequence is in a set.
LEMMA NoneIn == \A S : ~Some(<<>>, S) /\ Single(<<>>, S)
    BY DEF Some, Single

\* A sequence of one.
LEMMA OneIn ==
    ASSUME NEW R, NEW e \in R
    PROVE  <<e>> \in Seq(R) /\ \A S : (Some(<<e>>, S) <=> e \in S) /\ Single(<<e>>, S)
    BY DEF Some, Single

\* The members of a sequence are its head and the members of its tail.
LEMMA HeadAndTail ==
    ASSUME NEW R, NEW s \in Seq(R), s # <<>>
    PROVE  /\ Tail(s) \in Seq(R) /\ Head(s) \in R
           /\ \A S : /\ Some(s, S) <=> Head(s) \in S \/ Some(Tail(s), S)
                     /\ Single(s, S) => Single(Tail(s), S) /\ ~(Head(s) \in S /\ Some(Tail(s), S))
<1> DEFINE t == Tail(s)
<1>1. /\ t \in Seq(R) /\ Head(s) \in R /\ Head(s) = s[1] /\ Len(s) \in Nat /\ Len(s) # 0
      /\ Len(t) = Len(s) - 1 /\ \A i \in 1 .. Len(t) : t[i] = s[i + 1]
    OBVIOUS
<1> HIDE DEF t
<1>2. ASSUME NEW S PROVE Some(s, S) <=> Head(s) \in S \/ Some(t, S)
    <2>1. \A i \in 1 .. Len(s) : i = 1 \/ (i - 1 \in 1 .. Len(t) /\ s[i] = t[i - 1])
        BY <1>1
    <2>2. \A i \in 1 .. Len(t) : i + 1 \in 1 .. Len(s)
        BY <1>1
    <2>3. 1 \in 1 .. Len(s)
        BY <1>1
    <2> QED BY <1>1, <2>1, <2>2, <2>3 DEF Some
<1>3. ASSUME NEW S, Single(s, S) PROVE Single(t, S) /\ ~(Head(s) \in S /\ Some(t, S))
    <2>1. \A i \in 1 .. Len(t) : i + 1 \in 1 .. Len(s) /\ i + 1 # 1
        BY <1>1
    <2>2. 1 \in 1 .. Len(s)
        BY <1>1
    <2>3. \A i, j \in 1 .. Len(t) : i + 1 = j + 1 => i = j
        BY <1>1
    <2>4. Single(t, S)
        BY <1>1, <1>3, <2>1, <2>3 DEF Single
    <2>5. ASSUME Head(s) \in S, Some(t, S) PROVE FALSE
        <3>1. PICK i \in 1 .. Len(t) : t[i] \in S
            BY <2>5 DEF Some
        <3>2. s[i + 1] \in S
            BY <1>1, <3>1
        <3> QED BY <1>1, <1>3, <2>1, <2>2, <2>5, <3>2 DEF Single
    <2> QED BY <2>4, <2>5
<1> QED BY <1>1, <1>2, <1>3 DEF t

\* The members of two sequences put together.
LEMMA JoinedIn ==
    ASSUME NEW R, NEW s \in Seq(R), NEW t \in Seq(R)
    PROVE  /\ s \o t \in Seq(R)
           /\ \A S : /\ Some(s \o t, S) <=> Some(s, S) \/ Some(t, S)
                     /\ Single(s, S) /\ Single(t, S) /\ ~(Some(s, S) /\ Some(t, S))
                            => Single(s \o t, S)
<1> DEFINE w == s \o t
<1>1. /\ w \in Seq(R) /\ Len(w) = Len(s) + Len(t) /\ Len(s) \in Nat /\ Len(t) \in Nat
      /\ \A i \in 1 .. Len(s) : w[i] = s[i]
      /\ \A i \in 1 .. Len(t) : w[Len(s) + i] = t[i]
    OBVIOUS
<1> HIDE DEF w
<1>2. /\ \A i \in 1 .. Len(w) : \/ i \in 1 .. Len(s) /\ w[i] = s[i]
                                \/ i - Len(s) \in 1 .. Len(t) /\ w[i] = t[i - Len(s)]
      /\ \A i \in 1 .. Len(s) : i \in 1 .. Len(w)
      /\ \A i \in 1 .. Len(t) : Len(s) + i \in 1 .. Len(w)
    <2>1. ASSUME NEW i \in 1 .. Len(w)
          PROVE  \/ i \in 1 .. Len(s) /\ w[i] = s[i]
                 \/ i - Len(s) \in 1 .. Len(t) /\ w[i] = t[i - Len(s)]
        <3>1. CASE i <= Len(s)
            BY <1>1, <3>1
        <3>2. CASE ~(i <= Len(s))
            <4>1. i - Len(s) \in 1 .. Len(t) /\ Len(s) + (i - Len(s)) = i
                BY <1>1, <3>2
            <4> QED BY <1>1, <4>1
        <3> QED BY <3>1, <3>2
    <2>2. /\ \A i \in 1 .. Len(s) : i \in 1 .. Len(w)
          /\ \A i \in 1 .. Len(t) : Len(s) + i \in 1 .. Len(w)
        BY <1>1
    <2> QED BY <2>1, <2>2
<1>3. ASSUME NEW S PROVE Some(w, S) <=> Some(s, S) \/ Some(t, S)
    <2>1. Some(w, S) => Some(s, S) \/ Some(t, S)
        BY <1>2 DEF Some
    <2>2. Some(s, S) => Some(w, S)
        BY <1>1, <1>2 DEF Some
    <2>3. Some(t, S) => Some(w, S)
        BY <1>1, <1>2 DEF Some
    <2> QED BY <2>1, <2>2, <2>3
<1>4. ASSUME NEW S, Single(s, S), Single(t, S), ~(Some(s, S) /\ Some(t, S))
      PROVE  Single(w, S)
    <2> SUFFICES ASSUME NEW i \in 1 .. Len(w), NEW j \in 1 .. Len(w), w[i] \in S, w[j] \in S
                 PROVE  i = j
        BY DEF Single
    <2>1. CASE Some(s, S)
        <3>1. i \in 1 .. Len(s) /\ w[i] = s[i] /\ j \in 1 .. Len(s) /\ w[j] = s[j]
            BY <1>2, <1>4, <2>1 DEF Some
        <3> QED BY <1>4, <3>1 DEF Single
    <2>2. CASE ~Some(s, S)
        <3>1. /\ i - Len(s) \in 1 .. Len(t) /\ w[i] = t[i - Len(s)]
              /\ j - Len(s) \in 1 .. Len(t) /\ w[j] = t[j - Len(s)]
            BY <1>2, <2>2 DEF Some
        <3>2. i - Len(s) = j - Len(s)
            BY <1>4, <3>1 DEF Single
        <3> QED BY <1>1, <3>2
    <2> QED BY <2>1, <2>2
<1> QED BY <1>1, <1>3, <1>4 DEF w

\* A sequence with one more member.
LEMMA AppendedIn ==
    ASSUME NEW R, NEW s \in Seq(R), NEW e \in R
    PROVE  /\ Append(s, e) \in Seq(R)
           /\ \A S : /\ Some(Append(s, e), S) <=> Some(s, S) \/ e \in S
                     /\ Single(s, S) /\ ~(Some(s, S) /\ e \in S) => Single(Append(s, e), S)
<1>1. Append(s, e) = s \o <<e>> /\ <<e>> \in Seq(R)
    OBVIOUS
<1>2. \A S : (Some(<<e>>, S) <=> e \in S) /\ Single(<<e>>, S)
    BY OneIn
<1>3. /\ s \o <<e>> \in Seq(R)
      /\ \A S : /\ Some(s \o <<e>>, S) <=> Some(s, S) \/ Some(<<e>>, S)
                /\ Single(s, S) /\ Single(<<e>>, S) /\ ~(Some(s, S) /\ Some(<<e>>, S))
                       => Single(s \o <<e>>, S)
    BY <1>1, JoinedIn
<1> QED BY <1>1, <1>2, <1>3

\* What each field of a call can be.
LEMMA CallFields ==
    ASSUME NEW k \in PortCalls
    PROVE  /\ k.port \in Ports
           /\ k.op \in {"wake", "clear", "close", "detach", "attach", "send", "enqueue", "receive"}
           /\ k.op = "send" => k.to \in Contexts
           /\ k.op \in {"enqueue", "receive"} => k.message \in Ports \cup {NoPort}
    BY DEF PortCalls

\* Disposing of messages closes each port they carry, once.
LEMMA Disposed ==
    ASSUME NEW ms \in Seq(Ports \cup {NoPort})
    PROVE  /\ Discard(ms) \in Seq(PortCalls)
           /\ \A i \in 1 .. Len(Discard(ms)) : \E p \in Ports : Discard(ms)[i] = ClosePort(p)
           /\ \A p \in Ports : /\ Some(Discard(ms), Carrying(p)) => Some(ms, {p})
                               /\ Single(ms, {p}) => Single(Discard(ms), Carrying(p))
<1> DEFINE R == Ports \cup {NoPort}
           w == Without(ms, {NoPort})
           d == Discard(ms)
<1>1. w = Without(ms, {NoPort})
    BY DEF Without, Without
<1>2. /\ Without(ms, {NoPort}) \in Seq(R)
      /\ \E at : KeptAt(Without(ms, {NoPort}), at, ms, {NoPort}, Len(ms))
    BY WithoutFacts
<1>3. d = [i \in DOMAIN w |-> ClosePort(w[i])]
    BY DEF Discard
<1> HIDE DEF w, d
<1>4. PICK at : KeptAt(w, at, ms, {NoPort}, Len(ms))
    BY <1>1, <1>2
<1>5. Len(w) \in Nat /\ DOMAIN w = 1 .. Len(w) /\ \A i \in 1 .. Len(w) : w[i] \in Ports
    <2>1. w \in Seq(R)
        BY <1>1, <1>2
    <2>2. Len(w) \in Nat /\ DOMAIN w = 1 .. Len(w) /\ \A i \in 1 .. Len(w) : w[i] \in R
        BY <2>1
    <2> QED BY <1>4, <2>2 DEF KeptAt
<1>6. /\ d \in Seq(PortCalls) /\ Len(d) = Len(w)
      /\ \A i \in 1 .. Len(d) : d[i] = ClosePort(w[i])
    <2>1. \A i \in 1 .. Len(w) : ClosePort(w[i]) \in PortCalls
        BY <1>5 DEF PortCalls, ClosePort
    <2> QED BY <1>3, <1>5, <2>1
<1>7. ASSUME NEW p \in Ports PROVE \A i \in 1 .. Len(d) : d[i] \in Carrying(p) => w[i] = p
    <2>1. \A q : ClosePort(q) \in Carrying(p) => q = p
        BY DEF Carrying, ClosePort
    <2> QED BY <1>6, <2>1
<1>8. \A i \in 1 .. Len(w) : at[i] \in 1 .. Len(ms) /\ w[i] = ms[at[i]]
    BY <1>4 DEF KeptAt
<1>9. \A i, j \in 1 .. Len(w) : at[i] = at[j] => i = j
    <2> SUFFICES ASSUME NEW i \in 1 .. Len(w), NEW j \in 1 .. Len(w), at[i] = at[j] PROVE i = j
        OBVIOUS
    <2>1. at[i] \in 1 .. Len(ms) /\ at[j] \in 1 .. Len(ms) /\ Len(ms) \in Nat
        BY <1>8
    <2>2. ~(i < j) /\ ~(j < i)
        BY <1>4, <2>1 DEF KeptAt
    <2> QED BY <1>5, <2>2
<1>10. ASSUME NEW p \in Ports, Some(d, Carrying(p)) PROVE Some(ms, {p})
    BY <1>6, <1>7, <1>8, <1>10 DEF Some
<1>11. ASSUME NEW p \in Ports, Single(ms, {p}) PROVE Single(d, Carrying(p))
    <2> SUFFICES ASSUME NEW i \in 1 .. Len(d), NEW j \in 1 .. Len(d),
                        d[i] \in Carrying(p), d[j] \in Carrying(p)
                 PROVE  i = j
        BY DEF Single
    <2>1. ms[at[i]] = p /\ ms[at[j]] = p /\ at[i] \in 1 .. Len(ms) /\ at[j] \in 1 .. Len(ms)
        BY <1>6, <1>7, <1>8
    <2> QED BY <1>6, <1>9, <1>11, <2>1 DEF Single
<1> QED BY <1>5, <1>6, <1>10, <1>11 DEF d

\* No port that a message carries is forgotten.
LEMMA DisposedAll ==
    ASSUME NEW p \in Ports
    PROVE  Some(Discard(<<p>>), Carrying(p))
<1> DEFINE R == Ports \cup {NoPort}
           w == Without(<<p>>, {NoPort})
           d == Discard(<<p>>)
<1>1. w = Without(<<p>>, {NoPort})
    BY DEF Without, Without
<1>2. <<p>> \in Seq(R) /\ Len(<<p>>) = 1 /\ <<p>>[1] = p /\ p # NoPort
    BY PortsAssumption
<1>3. /\ Without(<<p>>, {NoPort}) \in Seq(R)
      /\ \E at : KeptAt(Without(<<p>>, {NoPort}), at, <<p>>, {NoPort}, 1)
    BY <1>2, WithoutFacts
<1>4. d = [i \in DOMAIN w |-> ClosePort(w[i])]
    BY DEF Discard
<1> HIDE DEF w, d
<1>5. PICK at : KeptAt(w, at, <<p>>, {NoPort}, 1)
    BY <1>1, <1>3
<1>6. w \in Seq(R)
    BY <1>1, <1>3
<1>7. PICK i \in 1 .. Len(w) : at[i] = 1
    BY <1>2, <1>5 DEF KeptAt
<1>8. w[i] = p
    BY <1>2, <1>5, <1>7 DEF KeptAt
<1>9. d[i] = ClosePort(p) /\ Len(d) = Len(w)
    BY <1>4, <1>6, <1>7, <1>8
<1>10. ClosePort(p) \in Carrying(p)
    BY DEF ClosePort, Carrying, PortCalls
<1>11. d[i] \in Carrying(p) /\ i \in 1 .. Len(d)
    BY <1>7, <1>9, <1>10
<1> QED BY <1>11 DEF Some, d

\* Closing calls are in no set that has none of them.
LEMMA DisposedApart ==
    ASSUME NEW ms \in Seq(Ports \cup {NoPort}), NEW S,
           \A p \in Ports : ClosePort(p) \notin S
    PROVE  ~Some(Discard(ms), S)
    BY Disposed DEF Some

-----------------------------------------------------------------------------
(* The inductive invariant.                                                *)

PortTurns == [port : Ports \cup {NoPort}, more : BOOLEAN,
              phase : {"none", "task", "drain", "after"}]

PortTypes ==
    /\ PortsTypeOK
    /\ todo \in [Contexts -> Seq(PortCalls)]
    /\ turn \in [Contexts -> PortTurns]
    /\ \A c \in Contexts : turn[c].phase # "none" => turn[c].port \in Ports
    /\ \A p \in Ports : peer[p] \in {PeerOf(p), NoPort}

\* The endpoint p is in one place at most.
Alone(p) ==
    /\ \A c, d \in Contexts : p \in wrapper[c] /\ p \in wrapper[d] => c = d
    /\ \A q, r \in Ports : Some(pending[q], {p}) /\ Some(pending[r], {p}) => q = r
    /\ \A c, d \in Contexts : Some(todo[c], Carrying(p)) /\ Some(todo[d], Carrying(p)) => c = d
    /\ \A c \in Contexts, q \in Ports : ~(p \in wrapper[c] /\ Some(pending[q], {p}))
    /\ \A c, d \in Contexts : ~(p \in wrapper[c] /\ Some(todo[d], Carrying(p)))
    /\ \A q \in Ports, c \in Contexts : ~(Some(pending[q], {p}) /\ Some(todo[c], Carrying(p)))
    /\ \A q \in Ports : Single(pending[q], {p})
    /\ \A c \in Contexts : Single(todo[c], Carrying(p))

\* A port being attached has an object, not yet started, where it arrives.
AttachedHere ==
    \A c \in Contexts : \A p \in live :
        Some(todo[c], Attaching(p)) => p \in wrapper[c] /\ p \notin startedPorts[c]

\* A registered owner that still runs holds the endpoint or is parting with it.
OwnerHolds ==
    \A p \in live : \A c \in Contexts :
        portOwner[p] = c /\ contextStatus[c] \in {"running", "terminating"} =>
            p \in wrapper[c] \/ Some(todo[c], Parting(p))

PortPlaces == (\A p \in live : Alone(p)) /\ AttachedHere /\ OwnerHolds

PortsInv == PortTypes /\ PortPlaces

\* While every context runs, no owner is cleared; a detached endpoint is on its
\* way; every object's context is the owner or about to be; and a started port
\* with work is being served or woken.
NoneCleared == \A c \in Contexts : ~Some(todo[c], Clearing)
DetachFirst ==
    \A c \in Contexts :
        \/ ~Some(todo[c], Detaching)
        \/ /\ todo[c] # <<>>
           /\ ~Some(Tail(todo[c]), Detaching)
           /\ Some(Tail(todo[c]), Carrying(Head(todo[c]).port))
Registered ==
    \A p \in live : \A c \in Contexts :
        p \in wrapper[c] => portOwner[p] = c \/ Some(todo[c], Attaching(p))
MoreQueued == \A c \in Contexts : turn[c].more => Some(inbox[c], {turn[c].port})
Served ==
    \A c \in Contexts : \A p \in live \cap wrapper[c] \cap startedPorts[c] :
        HasWork(p) =>
            \/ turn[c].port = p
            \/ Some(inbox[c], {p})
            \/ \E d \in Contexts : Some(todo[d], Waking(p, c))

Waited == NoneCleared /\ DetachFirst /\ Registered /\ MoreQueued /\ Served

WakesInv == Deaths = {} => Waited

-----------------------------------------------------------------------------
(* What each step leaves of the calls of its thread.                       *)

\* The calls that replace those of a thread with none left.
LEMMA CallsSet ==
    ASSUME PortTypes, NEW c \in Contexts, NEW s \in Seq(PortCalls),
           todo' = [todo EXCEPT ![c] = s]
    PROVE  /\ todo' \in [Contexts -> Seq(PortCalls)] /\ todo'[c] = s
           /\ \A d \in Contexts : d # c => todo'[d] = todo[d]
    BY DEF PortTypes

\* What a call leaves: the calls it adds, then the others.
Leaves(c, ops) ==
    /\ todo' \in [Contexts -> Seq(PortCalls)]
    /\ \A d \in Contexts : d # c => todo'[d] = todo[d]
    /\ \A S : Some(todo[c], S) <=> Head(todo[c]) \in S \/ Some(Tail(todo[c]), S)
    /\ \A S : Some(todo'[c], S) <=> Some(ops, S) \/ Some(Tail(todo[c]), S)
    /\ \A S : Single(todo[c], S) => ~(Head(todo[c]) \in S /\ Some(Tail(todo[c]), S))
    /\ \A S : /\ Single(todo[c], S) /\ Single(ops, S)
              /\ ~(Some(ops, S) /\ Some(Tail(todo[c]), S))
              => Single(todo'[c], S)

\* What is left of a thread's calls when one is made, ops in its place and more at the end.
LEMMA CallsLeft ==
    ASSUME PortTypes, NEW c \in Contexts, todo[c] # <<>>, NEW ops \in Seq(PortCalls),
           NEW more \in Seq(PortCalls),
           todo' = [todo EXCEPT ![c] = ops \o Tail(@) \o more]
    PROVE  /\ todo' \in [Contexts -> Seq(PortCalls)]
           /\ \A d \in Contexts : d # c => todo'[d] = todo[d]
           /\ \A S : Some(todo[c], S) <=> Head(todo[c]) \in S \/ Some(Tail(todo[c]), S)
           /\ \A S : Some(todo'[c], S) <=> Some(ops, S) \/ Some(Tail(todo[c]), S) \/ Some(more, S)
           /\ \A S : Single(todo[c], S) => ~(Head(todo[c]) \in S /\ Some(Tail(todo[c]), S))
           /\ \A S : /\ Single(todo[c], S) /\ Single(ops, S) /\ Single(more, S)
                     /\ ~(Some(ops, S) /\ Some(Tail(todo[c]), S))
                     /\ ~(Some(ops, S) /\ Some(more, S))
                     /\ ~(Some(more, S) /\ Some(Tail(todo[c]), S))
                     => Single(todo'[c], S)
<1> DEFINE t == Tail(todo[c])
           u == ops \o t
<1>1. todo[c] \in Seq(PortCalls)
    BY DEF PortTypes
<1>2. /\ t \in Seq(PortCalls)
      /\ \A S : /\ Some(todo[c], S) <=> Head(todo[c]) \in S \/ Some(t, S)
                /\ Single(todo[c], S) => Single(t, S) /\ ~(Head(todo[c]) \in S /\ Some(t, S))
    BY <1>1, HeadAndTail
<1> HIDE DEF t
<1>3. /\ u \in Seq(PortCalls)
      /\ \A S : /\ Some(u, S) <=> Some(ops, S) \/ Some(t, S)
                /\ Single(ops, S) /\ Single(t, S) /\ ~(Some(ops, S) /\ Some(t, S)) => Single(u, S)
    BY <1>2, JoinedIn
<1> HIDE DEF u
<1>4. /\ u \o more \in Seq(PortCalls)
      /\ \A S : /\ Some(u \o more, S) <=> Some(u, S) \/ Some(more, S)
                /\ Single(u, S) /\ Single(more, S) /\ ~(Some(u, S) /\ Some(more, S))
                       => Single(u \o more, S)
    BY <1>3, JoinedIn
<1>5. todo' = [todo EXCEPT ![c] = u \o more]
    BY DEF t, u
<1>6. /\ todo' \in [Contexts -> Seq(PortCalls)] /\ todo'[c] = u \o more
      /\ \A d \in Contexts : d # c => todo'[d] = todo[d]
    BY <1>4, <1>5, CallsSet
<1> QED BY <1>2, <1>3, <1>4, <1>6 DEF t

\* A call that queues nothing behind the others.
LEMMA ThenLeaves ==
    ASSUME PortTypes, NEW c \in Contexts, todo[c] # <<>>, NEW ops \in Seq(PortCalls),
           Then(c, ops)
    PROVE  Leaves(c, ops)
<1> DEFINE none == <<>>
<1>1. none \in Seq(PortCalls) /\ \A S : ~Some(none, S) /\ Single(none, S)
    BY NoneIn
<1>2. ops \o Tail(todo[c]) = ops \o Tail(todo[c]) \o none
    <2>1. Tail(todo[c]) \in Seq(PortCalls)
        BY HeadAndTail DEF PortTypes
    <2>2. \A u \in Seq(PortCalls) : u \o none = u
        OBVIOUS
    <2> QED BY <2>1, <2>2
<1>3. todo' = [todo EXCEPT ![c] = ops \o Tail(@) \o none]
    BY <1>2 DEF Then
<1> HIDE DEF none
<1> QED BY <1>1, <1>3, CallsLeft DEF Leaves

-----------------------------------------------------------------------------
(* An endpoint is in one place at most.                                    *)

\* An endpoint that gets no new place.
LEMMA AloneKept ==
    ASSUME NEW p, Alone(p),
           \A c \in Contexts : p \in wrapper'[c] => p \in wrapper[c],
           \A q \in Ports : /\ Some(pending'[q], {p}) => Some(pending[q], {p})
                            /\ Single(pending[q], {p}) => Single(pending'[q], {p}),
           \A c \in Contexts :
               /\ Some(todo'[c], Carrying(p)) => Some(todo[c], Carrying(p))
               /\ Single(todo[c], Carrying(p)) => Single(todo'[c], Carrying(p))
    PROVE  Alone(p)'
    BY DEF Alone

\* A call that moves no endpoint into an object or a queue.
LEMMA QuietCall ==
    ASSUME PortsInv, NEW c \in Contexts, NEW ops \in Seq(PortCalls),
           Leaves(c, ops),
           UNCHANGED <<live, pending, wrapper, startedPorts, contextStatus>>,
           \A p \in live : /\ Some(ops, Carrying(p)) => Head(todo[c]) \in Carrying(p)
                           /\ Single(ops, Carrying(p))
                           /\ ~Some(ops, Attaching(p))
                           /\ Head(todo[c]) \in Parting(p) => portOwner'[p] = NoContext
                           /\ \/ portOwner'[p] \in {portOwner[p], NoContext}
                              \/ portOwner'[p] = c /\ p \in wrapper[c]
    PROVE  PortPlaces'
<1>1. ASSUME NEW p \in live PROVE Alone(p)'
    <2>1. Alone(p)
        BY DEF PortsInv, PortPlaces
    <2>2. \A d \in Contexts :
              /\ Some(todo'[d], Carrying(p)) => Some(todo[d], Carrying(p))
              /\ Single(todo[d], Carrying(p)) => Single(todo'[d], Carrying(p))
        BY DEF Leaves
    <2> QED BY <2>1, <2>2, AloneKept
<1>2. AttachedHere'
    BY DEF PortsInv, PortPlaces, AttachedHere, Leaves
<1>3. OwnerHolds'
    <2> SUFFICES ASSUME NEW p \in live, NEW d \in Contexts, portOwner'[p] = d,
                        contextStatus[d] \in {"running", "terminating"}
                 PROVE  p \in wrapper[d] \/ Some(todo'[d], Parting(p))
        BY DEF OwnerHolds
    <2>1. NoContext \notin Contexts
        BY PortsAssumption
    <2>2. CASE portOwner[p] = d
        <3>1. p \in wrapper[d] \/ Some(todo[d], Parting(p))
            BY <2>2 DEF PortsInv, PortPlaces, OwnerHolds
        <3>2. Some(todo[d], Parting(p)) => Some(todo'[d], Parting(p))
            BY <2>1 DEF Leaves
        <3> QED BY <3>1, <3>2
    <2> QED BY <2>1, <2>2
<1> QED BY <1>1, <1>2, <1>3 DEF PortPlaces

\* The calls that wake, record or clear an owner carry nothing.
LEMMA PlainOps ==
    ASSUME NEW ops,
           \/ ops = <<>>
           \/ \E p \in Ports : ops \in {<<Wake(p)>>, <<Clear(p)>>}
           \/ \E p \in Ports, d \in Contexts : ops = <<Send(p, d)>>
    PROVE  /\ ops \in Seq(PortCalls)
           /\ \A p \in Ports : /\ ~Some(ops, Carrying(p)) /\ Single(ops, Carrying(p))
                               /\ ~Some(ops, Parting(p)) /\ ~Some(ops, Attaching(p))
           /\ ~Some(ops, Detaching)
<1>1. CASE ops = <<>>
    BY <1>1, NoneIn
<1>2. ASSUME NEW k \in PortCalls, ops = <<k>>,
             \/ \E p \in Ports : k \in {Wake(p), Clear(p)}
             \/ \E p \in Ports, d \in Contexts : k = Send(p, d)
      PROVE  /\ ops \in Seq(PortCalls)
             /\ \A p \in Ports : /\ ~Some(ops, Carrying(p)) /\ Single(ops, Carrying(p))
                                 /\ ~Some(ops, Parting(p)) /\ ~Some(ops, Attaching(p))
             /\ ~Some(ops, Detaching)
    <2>1. /\ ops \in Seq(PortCalls)
          /\ \A S : (Some(ops, S) <=> k \in S) /\ Single(ops, S)
        BY <1>2, OneIn
    <2>2. \A r \in Ports : k \notin Carrying(r) \cup Parting(r) \cup Detaching \cup Attaching(r)
        BY <1>2 DEF Wake, Clear, Send, Carrying, Parting, Detaching, Attaching
    <2>3. k \notin Detaching
        BY <1>2 DEF Wake, Clear, Send, Detaching
    <2> QED BY <2>1, <2>2, <2>3
<1>3. CASE \E p \in Ports : ops \in {<<Wake(p)>>, <<Clear(p)>>}
    <2>1. PICK p \in Ports : ops \in {<<Wake(p)>>, <<Clear(p)>>}
        BY <1>3
    <2>2. Wake(p) \in PortCalls /\ Clear(p) \in PortCalls
        BY DEF PortCalls, Wake, Clear
    <2> QED BY <1>2, <2>1, <2>2
<1>4. CASE \E p \in Ports, d \in Contexts : ops = <<Send(p, d)>>
    <2>1. PICK p \in Ports, d \in Contexts : ops = <<Send(p, d)>>
        BY <1>4
    <2>2. Send(p, d) \in PortCalls
        BY DEF PortCalls, Send
    <2> QED BY <1>2, <2>1, <2>2
<1> QED BY <1>1, <1>3, <1>4

\* The head of a thread's calls, and what the types say of it.
LEMMA NextCall ==
    ASSUME PortTypes, NEW c \in Contexts, todo[c] # <<>>
    PROVE  /\ Head(todo[c]) \in PortCalls /\ Head(todo[c]).port \in Ports
           /\ Head(todo[c]).op = "send" => Head(todo[c]).to \in Contexts
           /\ Head(todo[c]).op \in {"enqueue", "receive"} =>
                  Head(todo[c]).message \in Ports \cup {NoPort}
<1>1. Head(todo[c]) \in PortCalls
    BY HeadAndTail DEF PortTypes
<1> QED BY <1>1, CallFields

\* wake_message_port_if_pending.
LEMMA WakeKeeps ==
    ASSUME PortsInv, NEW c \in Contexts, todo[c] # <<>>,
           Head(todo[c]).op = "wake", DoWake(c, Head(todo[c]).port)
    PROVE  PortsInv'
<1> DEFINE k == Head(todo[c])
           p == k.port
           ops == IF p \in live /\ HasWork(p) /\ portOwner[p] # NoContext
                  THEN <<Send(p, portOwner[p])>> ELSE <<>>
<1>1. k \in PortCalls /\ p \in Ports
    BY NextCall DEF PortsInv
<1>2. \/ ops = <<>>
      \/ \E r \in Ports, d \in Contexts : ops = <<Send(r, d)>>
    BY <1>1 DEF PortsInv, PortTypes, PortsTypeOK
<1>3. Then(c, ops) /\ UNCHANGED <<registry, objects, threads, calls>>
    BY DEF DoWake
<1>4. \A r : k \notin Parting(r)
    BY DEF Parting
<1> HIDE DEF ops
<1>5. /\ ops \in Seq(PortCalls)
      /\ \A r \in Ports : /\ ~Some(ops, Carrying(r)) /\ Single(ops, Carrying(r))
                          /\ ~Some(ops, Attaching(r))
    BY <1>2, PlainOps
<1>6. Leaves(c, ops)
    BY <1>3, <1>5, ThenLeaves DEF PortsInv
<1>7. PortTypes'
    BY <1>3, <1>6 DEF Leaves, PortsInv, PortTypes, PortsTypeOK, registry, objects, threads
<1>8. live \subseteq Ports
    BY DEF PortsInv, PortTypes, PortsTypeOK
<1>9. UNCHANGED <<live, pending, wrapper, startedPorts, contextStatus, portOwner>>
    BY <1>3 DEF registry, objects, threads
<1>10. PortPlaces'
    BY <1>4, <1>5, <1>6, <1>8, <1>9, QuietCall
<1> QED BY <1>7, <1>10 DEF PortsInv

\* wake_port_if_owned.
LEMMA SendKeeps ==
    ASSUME PortsInv, NEW c \in Contexts, todo[c] # <<>>,
           Head(todo[c]).op = "send", DoSend(c, Head(todo[c]).port, Head(todo[c]).to)
    PROVE  PortsInv'
<1> DEFINE k == Head(todo[c])
           p == k.port
           ops == IF contextStatus[k.to] = "dead" THEN <<Clear(p)>> ELSE <<>>
<1>1. k \in PortCalls /\ p \in Ports /\ k.to \in Contexts
    BY NextCall DEF PortsInv
<1>2. ops = <<>> \/ \E r \in Ports : ops \in {<<Wake(r)>>, <<Clear(r)>>}
    BY <1>1
<1>3. /\ Then(c, ops) /\ UNCHANGED <<registry, objects, turn, contextStatus, calls>>
      /\ inbox' \in {inbox, [inbox EXCEPT ![k.to] = Append(@, p)]}
    BY DEF DoSend
<1>4. \A r : k \notin Parting(r)
    BY DEF Parting
<1> HIDE DEF ops
<1>5. /\ ops \in Seq(PortCalls)
      /\ \A r \in Ports : /\ ~Some(ops, Carrying(r)) /\ Single(ops, Carrying(r))
                          /\ ~Some(ops, Attaching(r))
    BY <1>2, PlainOps
<1>6. Leaves(c, ops)
    BY <1>3, <1>5, ThenLeaves DEF PortsInv
<1>7. PortTypes'
    <2>1. inbox' \in [Contexts -> Seq(Ports)]
        <3>1. inbox \in [Contexts -> Seq(Ports)]
            BY DEF PortsInv, PortTypes, PortsTypeOK
        <3>2. Append(inbox[k.to], p) \in Seq(Ports)
            BY <1>1, <3>1
        <3> QED BY <1>1, <1>3, <3>1, <3>2
    <2> QED
        BY <1>3, <1>6, <2>1 DEF Leaves, PortsInv, PortTypes, PortsTypeOK, registry, objects
<1>8. live \subseteq Ports
    BY DEF PortsInv, PortTypes, PortsTypeOK
<1>9. UNCHANGED <<live, pending, wrapper, startedPorts, contextStatus, portOwner>>
    BY <1>3 DEF registry, objects
<1>10. PortPlaces'
    BY <1>4, <1>5, <1>6, <1>8, <1>9, QuietCall
<1> QED BY <1>7, <1>10 DEF PortsInv

\* clear_message_port_owner and detach_message_port_owner_for_transfer.
LEMMA ReleaseKeeps ==
    ASSUME PortsInv, NEW c \in Contexts, todo[c] # <<>>,
           Head(todo[c]).op \in {"clear", "detach"}, DoRelease(c, Head(todo[c]).port)
    PROVE  PortsInv'
<1> DEFINE k == Head(todo[c])
           p == k.port
           none == <<>>
<1>1. k \in PortCalls /\ p \in Ports
    BY NextCall DEF PortsInv
<1>2. /\ Then(c, none)
      /\ UNCHANGED <<live, peer, pending, closing, objects, threads, calls>>
      /\ portOwner' = IF p \in live THEN [portOwner EXCEPT ![p] = NoContext] ELSE portOwner
    BY DEF DoRelease
<1>3. \A r : k \in Parting(r) => r = p
    BY DEF Parting
<1>4. /\ none \in Seq(PortCalls) /\ none = <<>>
      /\ \A r \in Ports : /\ ~Some(none, Carrying(r)) /\ Single(none, Carrying(r))
                          /\ ~Some(none, Attaching(r))
    BY NoneIn
<1> HIDE DEF none
<1>5. Leaves(c, none)
    BY <1>2, <1>4, ThenLeaves DEF PortsInv
<1>6. live \subseteq Ports /\ portOwner \in [Ports -> Contexts \cup {NoContext}]
    BY DEF PortsInv, PortTypes, PortsTypeOK
<1>7. PortTypes'
    <2>1. portOwner' \in [Ports -> Contexts \cup {NoContext}]
        BY <1>1, <1>2, <1>6
    <2> QED
        BY <1>2, <1>5, <2>1 DEF Leaves, PortsInv, PortTypes, PortsTypeOK, objects, threads
<1>8. \A r \in live : /\ k \in Parting(r) => portOwner'[r] = NoContext
                      /\ portOwner'[r] \in {portOwner[r], NoContext}
    BY <1>1, <1>2, <1>3, <1>6
<1>9. UNCHANGED <<live, pending, wrapper, startedPorts, contextStatus>>
    BY <1>2 DEF objects, threads
<1>10. PortPlaces'
    BY <1>4, <1>5, <1>6, <1>8, <1>9, QuietCall
<1> QED BY <1>7, <1>10 DEF PortsInv

\* attach_message_port_owner.
LEMMA AttachKeeps ==
    ASSUME PortsInv, NEW c \in Contexts, todo[c] # <<>>,
           Head(todo[c]).op = "attach", DoAttach(c, Head(todo[c]).port)
    PROVE  PortsInv'
<1> DEFINE k == Head(todo[c])
           p == k.port
           none == <<>>
<1>1. k \in PortCalls /\ p \in Ports
    BY NextCall DEF PortsInv
<1>2. /\ Then(c, none)
      /\ UNCHANGED <<live, peer, pending, closing, objects, threads, calls>>
      /\ portOwner' = IF p \in live THEN [portOwner EXCEPT ![p] = c] ELSE portOwner
    BY DEF DoAttach
<1>3. (\A r : k \notin Parting(r)) /\ k \in Attaching(p)
    BY <1>1 DEF Parting, Attaching
<1>4. /\ none \in Seq(PortCalls) /\ none = <<>>
      /\ \A r \in Ports : /\ ~Some(none, Carrying(r)) /\ Single(none, Carrying(r))
                          /\ ~Some(none, Attaching(r))
    BY NoneIn
<1> HIDE DEF none
<1>5. Leaves(c, none)
    BY <1>2, <1>4, ThenLeaves DEF PortsInv
<1>6. live \subseteq Ports /\ portOwner \in [Ports -> Contexts \cup {NoContext}]
    BY DEF PortsInv, PortTypes, PortsTypeOK
<1>7. PortTypes'
    <2>1. portOwner' \in [Ports -> Contexts \cup {NoContext}]
        BY <1>1, <1>2, <1>6
    <2> QED
        BY <1>2, <1>5, <2>1 DEF Leaves, PortsInv, PortTypes, PortsTypeOK, objects, threads
<1>8. p \in live => p \in wrapper[c]
    BY <1>3, <1>5 DEF Leaves, PortsInv, PortPlaces, AttachedHere
<1>9. \A r \in live : portOwner'[r] = portOwner[r] \/ (portOwner'[r] = c /\ r \in wrapper[c])
    BY <1>1, <1>2, <1>6, <1>8
<1>10. UNCHANGED <<live, pending, wrapper, startedPorts, contextStatus>>
    BY <1>2 DEF objects, threads
<1>11. PortPlaces'
    BY <1>3, <1>4, <1>5, <1>6, <1>9, <1>10, QuietCall
<1> QED BY <1>7, <1>11 DEF PortsInv

\* Messages of one are disposed of with at most one call.
LEMMA DisposedOne ==
    ASSUME NEW m \in Ports \cup {NoPort}
    PROVE  /\ Discard(<<m>>) \in Seq(PortCalls)
           /\ \A p \in Ports : /\ Some(Discard(<<m>>), Carrying(p)) => p = m
                               /\ Single(Discard(<<m>>), Carrying(p))
                               /\ ~Some(Discard(<<m>>), Attaching(p))
           /\ ~Some(Discard(<<m>>), Detaching) /\ ~Some(Discard(<<m>>), Clearing)
<1>1. <<m>> \in Seq(Ports \cup {NoPort}) /\ \A S : (Some(<<m>>, S) <=> m \in S) /\ Single(<<m>>, S)
    BY OneIn
<1>2. \A p, r \in Ports : ClosePort(p) \notin Attaching(r)
    BY DEF ClosePort, Attaching
<1>3. \A p \in Ports : ClosePort(p) \notin Detaching /\ ClosePort(p) \notin Clearing
    BY DEF ClosePort, Detaching, Clearing
<1>4. \A p \in Ports : ~Some(Discard(<<m>>), Attaching(p))
    BY <1>1, <1>2, DisposedApart
<1>5. ~Some(Discard(<<m>>), Detaching) /\ ~Some(Discard(<<m>>), Clearing)
    BY <1>1, <1>3, DisposedApart
<1>6. /\ Discard(<<m>>) \in Seq(PortCalls)
      /\ \A p \in Ports : /\ Some(Discard(<<m>>), Carrying(p)) => Some(<<m>>, {p})
                          /\ Single(<<m>>, {p}) => Single(Discard(<<m>>), Carrying(p))
    BY <1>1, Disposed
<1> QED BY <1>1, <1>4, <1>5, <1>6

\* enqueue_message_to_endpoint.
LEMMA EnqueueCallKeeps ==
    ASSUME PortsInv, NEW c \in Contexts, todo[c] # <<>>,
           Head(todo[c]).op = "enqueue", DoEnqueue(c, Head(todo[c]).port, Head(todo[c]).message)
    PROVE  PortsInv'
<1> DEFINE k == Head(todo[c])
           p == k.port
           m == k.message
           ops == IF p \in live THEN <<Wake(p)>> ELSE Discard(<<m>>)
<1>1. k \in PortCalls /\ p \in Ports /\ m \in Ports \cup {NoPort}
    BY NextCall DEF PortsInv
<1>2. /\ Then(c, ops)
      /\ UNCHANGED <<live, peer, portOwner, closing, objects, threads, calls>>
      /\ pending' = IF p \in live THEN [pending EXCEPT ![p] = Append(@, m)] ELSE pending
    BY DEF DoEnqueue
<1>3. (\A r : k \notin Parting(r)) /\ (m \in Ports => k \in Carrying(m))
    BY <1>1 DEF Parting, Carrying
<1>4. p \in live => ops = <<Wake(p)>>
    OBVIOUS
<1>5. p \notin live => ops = Discard(<<m>>)
    OBVIOUS
<1> HIDE DEF ops
<1>6. /\ ops \in Seq(PortCalls)
      /\ \A r \in Ports : /\ Some(ops, Carrying(r)) => p \notin live /\ r = m
                          /\ Single(ops, Carrying(r)) /\ ~Some(ops, Attaching(r))
    <2>1. CASE p \in live
        BY <1>1, <1>4, <2>1, PlainOps
    <2>2. CASE p \notin live
        BY <1>1, <1>5, <2>2, DisposedOne
    <2> QED BY <2>1, <2>2
<1>7. Leaves(c, ops)
    BY <1>2, <1>6, ThenLeaves DEF PortsInv
<1>8. /\ live \subseteq Ports
      /\ pending \in [Ports -> Seq(Ports \cup {NoPort})]
    BY DEF PortsInv, PortTypes, PortsTypeOK
<1>9. /\ Append(pending[p], m) \in Seq(Ports \cup {NoPort})
      /\ \A S : /\ Some(Append(pending[p], m), S) <=> Some(pending[p], S) \/ m \in S
                /\ Single(pending[p], S) /\ ~(Some(pending[p], S) /\ m \in S)
                       => Single(Append(pending[p], m), S)
    BY <1>1, <1>8, AppendedIn
<1>10. PortTypes'
    <2>1. pending' \in [Ports -> Seq(Ports \cup {NoPort})]
        BY <1>1, <1>2, <1>8, <1>9
    <2> QED
        BY <1>2, <1>7, <2>1 DEF Leaves, PortsInv, PortTypes, PortsTypeOK, objects, threads
<1>11. UNCHANGED <<live, wrapper, startedPorts, contextStatus, portOwner>>
    BY <1>2 DEF objects, threads
<1>12. CASE p \notin live
    <2>1. UNCHANGED pending
        BY <1>2, <1>12
    <2>2. PortPlaces'
        BY <1>3, <1>6, <1>7, <1>8, <1>11, <2>1, QuietCall
    <2> QED BY <1>10, <2>2 DEF PortsInv
<1>13. CASE p \in live
    <2>1. \A q \in Ports : q # p => pending'[q] = pending[q]
        BY <1>2, <1>8
    <2>2. pending'[p] = Append(pending[p], m)
        BY <1>1, <1>2, <1>8, <1>13
    <2>3. ASSUME NEW r \in live PROVE Alone(r)'
        <3>0. Alone(r) /\ r \in Ports
            BY <1>8 DEF PortsInv, PortPlaces
        <3>1. \A d \in Contexts :
                  /\ Some(todo'[d], Carrying(r)) => Some(todo[d], Carrying(r))
                  /\ Single(todo[d], Carrying(r)) => Single(todo'[d], Carrying(r))
            BY <1>6, <1>7, <1>13, <3>0 DEF Leaves
        <3>2. CASE r # m
            <4>1. \A q \in Ports : /\ Some(pending'[q], {r}) => Some(pending[q], {r})
                                   /\ Single(pending[q], {r}) => Single(pending'[q], {r})
                BY <1>9, <2>1, <2>2, <3>2
            <4> QED BY <1>11, <3>0, <3>1, <4>1, AloneKept
        <3>3. CASE r = m
            <4>1. Some(todo[c], Carrying(r)) /\ Single(todo[c], Carrying(r))
                BY <1>3, <1>7, <3>0, <3>3 DEF Leaves, Alone
            <4>2. ~Some(todo'[c], Carrying(r))
                BY <1>3, <1>6, <1>7, <1>13, <3>0, <3>3, <4>1 DEF Leaves
            <4>3. \A d \in Contexts : ~Some(todo'[d], Carrying(r))
                BY <1>7, <3>0, <4>1, <4>2 DEF Alone, Leaves
            <4>4. \A q \in Ports : ~Some(pending[q], {r})
                BY <3>0, <4>1 DEF Alone
            <4>5. \A d \in Contexts : r \notin wrapper[d]
                BY <3>0, <4>1 DEF Alone
            <4>6. \A q \in Ports : q # p => ~Some(pending'[q], {r})
                BY <2>1, <4>4
            <4>7. \A q \in Ports : Single(pending'[q], {r})
                BY <1>1, <1>9, <2>1, <2>2, <3>0, <4>4 DEF Alone
            <4>8. \A d \in Contexts : Single(todo'[d], Carrying(r))
                BY <3>0, <3>1 DEF Alone
            <4> QED BY <1>11, <4>3, <4>5, <4>6, <4>7, <4>8 DEF Alone
        <3> QED BY <3>2, <3>3
    <2>4. AttachedHere'
        BY <1>6, <1>7, <1>8, <1>11 DEF PortsInv, PortPlaces, AttachedHere, Leaves
    <2>5. OwnerHolds'
        BY <1>3, <1>7, <1>11 DEF PortsInv, PortPlaces, OwnerHolds, Leaves
    <2> QED BY <1>10, <1>11, <2>3, <2>4, <2>5 DEF PortsInv, PortPlaces
<1> QED BY <1>12, <1>13

\* An endpoint is not its own peer.
LEMMA PeerApart == \A p \in Ports : PeerOf(p) # p
    BY DEF Ports, PeerOf

\* close_message_port.
LEMMA CloseCallKeeps ==
    ASSUME PortsInv, NEW c \in Contexts, todo[c] # <<>>,
           Head(todo[c]).op = "close", DoClose(c, Head(todo[c]).port)
    PROVE  PortsInv'
<1> DEFINE k == Head(todo[c])
           p == k.port
           q == peer[p]
           told == p \in live /\ q \in live
           ops == IF told /\ portOwner[q] # NoContext THEN <<Send(q, portOwner[q])>> ELSE <<>>
           more == Discard(pending[p])
<1>1. k \in PortCalls /\ p \in Ports
    BY NextCall DEF PortsInv
<1>2. /\ live \subseteq Ports /\ closing \subseteq live
      /\ peer \in [Ports -> Ports \cup {NoPort}]
      /\ portOwner \in [Ports -> Contexts \cup {NoContext}]
      /\ pending \in [Ports -> Seq(Ports \cup {NoPort})]
      /\ \A r \in Ports : peer[r] \in {PeerOf(r), NoPort}
    BY DEF PortsInv, PortTypes, PortsTypeOK
<1>3. told => q \in Ports /\ q # p
    <2>1. NoPort \notin Ports
        BY PortsAssumption
    <2> QED BY <1>1, <1>2, <2>1, PeerApart
<1>4. ops = <<>> \/ \E r \in Ports, d \in Contexts : ops = <<Send(r, d)>>
    BY <1>2
<1>5. /\ live' = live \ {p}
      /\ peer' = IF told THEN [peer EXCEPT ![q] = NoPort, ![p] = NoPort]
                 ELSE [peer EXCEPT ![p] = NoPort]
      /\ closing' = (closing \ {p}) \cup (IF told THEN {q} ELSE {})
      /\ pending' = [pending EXCEPT ![p] = <<>>]
      /\ portOwner' = [portOwner EXCEPT ![p] = NoContext]
      /\ UNCHANGED <<objects, threads, calls>>
    BY DEF DoClose
<1>6. todo' = [todo EXCEPT ![c] = ops \o Tail(@) \o more]
    BY DEF DoClose
<1>7. \A r \in Ports : r # p => k \notin Parting(r) /\ k \notin Carrying(r)
    BY DEF Parting, Carrying
<1> HIDE DEF ops, more
<1>8. /\ ops \in Seq(PortCalls)
      /\ \A r \in Ports : /\ ~Some(ops, Carrying(r)) /\ Single(ops, Carrying(r))
                          /\ ~Some(ops, Attaching(r))
    BY <1>4, PlainOps
<1>9. pending[p] \in Seq(Ports \cup {NoPort})
    BY <1>1, <1>2
<1>10. /\ more \in Seq(PortCalls)
       /\ \A r \in Ports : /\ Some(more, Carrying(r)) => Some(pending[p], {r})
                           /\ Single(pending[p], {r}) => Single(more, Carrying(r))
    BY <1>9, Disposed DEF more
<1>11. \A r \in Ports : ~Some(more, Attaching(r))
    <2>1. \A r, s \in Ports : ClosePort(s) \notin Attaching(r)
        BY DEF ClosePort, Attaching
    <2> QED BY <1>9, <2>1, DisposedApart DEF more
<1>12. /\ todo' \in [Contexts -> Seq(PortCalls)]
       /\ \A d \in Contexts : d # c => todo'[d] = todo[d]
       /\ \A S : Some(todo[c], S) <=> k \in S \/ Some(Tail(todo[c]), S)
       /\ \A S : Some(todo'[c], S) <=> Some(ops, S) \/ Some(Tail(todo[c]), S) \/ Some(more, S)
       /\ \A S : /\ Single(todo[c], S) /\ Single(ops, S) /\ Single(more, S)
                 /\ ~(Some(ops, S) /\ Some(Tail(todo[c]), S))
                 /\ ~(Some(ops, S) /\ Some(more, S))
                 /\ ~(Some(more, S) /\ Some(Tail(todo[c]), S))
                 => Single(todo'[c], S)
    <2>1. PortTypes
        BY DEF PortsInv
    <2> QED BY <1>6, <1>8, <1>10, <2>1, CallsLeft
<1>13. PortTypes'
    <2>1. live' \subseteq Ports /\ closing' \subseteq live'
        BY <1>2, <1>3, <1>5
    <2>2. /\ peer' \in [Ports -> Ports \cup {NoPort}]
          /\ \A r \in Ports : peer'[r] \in {PeerOf(r), NoPort}
        BY <1>1, <1>2, <1>3, <1>5
    <2>3. portOwner' \in [Ports -> Contexts \cup {NoContext}]
        BY <1>1, <1>2, <1>5
    <2>4. pending' \in [Ports -> Seq(Ports \cup {NoPort})]
        BY <1>1, <1>2, <1>5
    <2> QED
        BY <1>5, <1>12, <2>1, <2>2, <2>3, <2>4
        DEF PortsInv, PortTypes, PortsTypeOK, objects, threads
<1>14. UNCHANGED <<wrapper, startedPorts, contextStatus>>
    BY <1>5 DEF objects, threads
<1>15. pending'[p] = <<>> /\ \A r \in Ports : r # p => pending'[r] = pending[r]
    BY <1>1, <1>2, <1>5
<1>16. ASSUME NEW r \in live' PROVE Alone(r)'
    <2>0. Alone(r) /\ r \in Ports /\ r # p
        BY <1>2, <1>5 DEF PortsInv, PortPlaces
    <2>1. \A s \in Ports : /\ Some(pending'[s], {r}) => s # p /\ Some(pending[s], {r})
                           /\ Single(pending[s], {r}) => Single(pending'[s], {r})
        BY <1>15, NoneIn
    <2>2. Single(todo'[c], Carrying(r))
        BY <1>1, <1>8, <1>10, <1>12, <2>0 DEF Alone
    <2>3. CASE ~Some(pending[p], {r})
        <3>1. \A d \in Contexts :
                  /\ Some(todo'[d], Carrying(r)) => Some(todo[d], Carrying(r))
                  /\ Single(todo[d], Carrying(r)) => Single(todo'[d], Carrying(r))
            BY <1>8, <1>10, <1>12, <2>0, <2>2, <2>3
        <3> QED BY <1>14, <2>0, <2>1, <3>1, AloneKept
    <2>4. CASE Some(pending[p], {r})
        <3>1. \A s \in Ports : ~Some(pending'[s], {r})
            BY <1>1, <2>0, <2>1, <2>4 DEF Alone
        <3>2. \A d \in Contexts : r \notin wrapper'[d]
            BY <1>1, <1>14, <2>0, <2>4 DEF Alone
        <3>3. \A d \in Contexts : d # c => ~Some(todo'[d], Carrying(r))
            BY <1>1, <1>12, <2>0, <2>4 DEF Alone
        <3>4. \A d \in Contexts : Single(todo'[d], Carrying(r))
            BY <1>12, <2>0, <2>2 DEF Alone
        <3>5. \A s \in Ports : Single(pending'[s], {r})
            BY <2>0, <2>1 DEF Alone
        <3> QED BY <3>1, <3>2, <3>3, <3>4, <3>5 DEF Alone
    <2> QED BY <2>3, <2>4
<1>17. live' \subseteq live /\ p \notin live' /\ \A r \in live' : portOwner'[r] = portOwner[r]
    BY <1>2, <1>5
<1>18. AttachedHere'
    BY <1>2, <1>8, <1>11, <1>12, <1>14, <1>17 DEF PortsInv, PortPlaces, AttachedHere
<1>19. OwnerHolds'
    BY <1>2, <1>7, <1>12, <1>14, <1>17 DEF PortsInv, PortPlaces, OwnerHolds
<1> QED BY <1>13, <1>16, <1>18, <1>19 DEF PortsInv, PortPlaces

\* ensure_message_port_wrapper_for_id_in_realm.
LEMMA ReceiveKeeps ==
    ASSUME PortsInv, NEW c \in Contexts, todo[c] # <<>>,
           Head(todo[c]).op = "receive", DoReceive(c, Head(todo[c]).port, Head(todo[c]).message)
    PROVE  PortsInv'
<1> DEFINE k == Head(todo[c])
           m == k.message
<1>1. k \in PortCalls /\ m \in Ports \cup {NoPort}
    BY NextCall DEF PortsInv
<1>2. (\A r : k \notin Parting(r)) /\ (m \in Ports => k \in Carrying(m))
    BY <1>1 DEF Parting, Carrying
<1>3. /\ live \subseteq Ports /\ NoPort \notin Ports
      /\ wrapper \in [Contexts -> SUBSET Ports]
      /\ startedPorts \in [Contexts -> SUBSET Ports]
    BY PortsAssumption DEF PortsInv, PortTypes, PortsTypeOK
<1>4. UNCHANGED <<registry, threads, calls>>
    BY DEF DoReceive
<1>5. UNCHANGED <<live, peer, portOwner, pending, closing, inbox, turn, contextStatus, calls>>
    BY <1>4 DEF registry, threads
<1>6. ASSUME NEW ops \in {<<>>, Discard(<<m>>)}, UNCHANGED objects, Then(c, ops) PROVE PortsInv'
    <2>1. UNCHANGED <<wrapper, startedPorts>>
        BY <1>6 DEF objects
    <2>2. /\ ops \in Seq(PortCalls)
          /\ \A r \in Ports : /\ Some(ops, Carrying(r)) => r = m
                              /\ Single(ops, Carrying(r)) /\ ~Some(ops, Attaching(r))
        <3>1. CASE ops = <<>>
            BY <3>1, NoneIn
        <3>2. CASE ops = Discard(<<m>>)
            BY <1>1, <3>2, DisposedOne
        <3> QED BY <1>6, <3>1, <3>2
    <2>3. Leaves(c, ops)
        BY <1>6, <2>2, ThenLeaves DEF PortsInv
    <2>4. PortTypes'
        BY <1>5, <2>1, <2>3 DEF Leaves, PortsInv, PortTypes, PortsTypeOK
    <2>5. PortPlaces'
        BY <1>2, <1>3, <1>5, <2>1, <2>2, <2>3, QuietCall
    <2> QED BY <2>4, <2>5 DEF PortsInv
<1>7. ASSUME m # NoPort, wrapper' = [wrapper EXCEPT ![c] = @ \cup {m}],
             startedPorts' = [startedPorts EXCEPT ![c] = @ \ {m}], Then(c, <<Attach(m)>>)
      PROVE  PortsInv'
    <2> DEFINE ops == <<Attach(m)>>
    <2>0. m \in Ports
        BY <1>1, <1>7
    <2>1. /\ wrapper' = [wrapper EXCEPT ![c] = @ \cup {m}]
          /\ startedPorts' = [startedPorts EXCEPT ![c] = @ \ {m}]
          /\ Then(c, ops)
        BY <1>7
    <2>2. /\ ops \in Seq(PortCalls)
          /\ \A S : (Some(ops, S) <=> Attach(m) \in S) /\ Single(ops, S)
        <3>1. Attach(m) \in PortCalls
            BY <2>0 DEF PortCalls, Attach
        <3> QED BY <3>1, OneIn
    <2>3. \A r \in Ports : /\ Attach(m) \notin Carrying(r)
                           /\ Attach(m) \in Attaching(r) => r = m
        BY DEF Attach, Carrying, Attaching
    <2> HIDE DEF ops
    <2>4. Leaves(c, ops)
        BY <2>1, <2>2, ThenLeaves DEF PortsInv
    <2>5. /\ wrapper' \in [Contexts -> SUBSET Ports]
          /\ startedPorts' \in [Contexts -> SUBSET Ports]
          /\ wrapper'[c] = wrapper[c] \cup {m} /\ startedPorts'[c] = startedPorts[c] \ {m}
          /\ \A d \in Contexts : d # c => wrapper'[d] = wrapper[d] /\ startedPorts'[d] = startedPorts[d]
        BY <1>3, <2>0, <2>1
    <2>6. PortTypes'
        BY <1>5, <2>4, <2>5 DEF Leaves, PortsInv, PortTypes, PortsTypeOK
    <2>7. ASSUME NEW r \in live PROVE Alone(r)'
        <3>0. Alone(r) /\ r \in Ports
            BY <1>3 DEF PortsInv, PortPlaces
        <3>1. \A d \in Contexts :
                  /\ Some(todo'[d], Carrying(r)) => Some(todo[d], Carrying(r))
                  /\ Single(todo[d], Carrying(r)) => Single(todo'[d], Carrying(r))
            BY <2>2, <2>3, <2>4, <3>0 DEF Leaves
        <3>2. CASE r # m
            BY <1>5, <2>5, <3>0, <3>1, <3>2, AloneKept
        <3>3. CASE r = m
            <4>1. Some(todo[c], Carrying(r)) /\ Single(todo[c], Carrying(r))
                BY <1>2, <2>0, <2>4, <3>0, <3>3 DEF Leaves, Alone
            <4>2. ~Some(todo'[c], Carrying(r))
                BY <1>2, <2>0, <2>2, <2>3, <2>4, <3>0, <3>3, <4>1 DEF Leaves
            <4>3. \A d \in Contexts : ~Some(todo'[d], Carrying(r))
                BY <2>4, <3>0, <4>1, <4>2 DEF Alone, Leaves
            <4>4. \A q \in Ports : ~Some(pending'[q], {r}) /\ Single(pending'[q], {r})
                BY <1>5, <3>0, <4>1 DEF Alone
            <4>5. \A d \in Contexts : d # c => r \notin wrapper'[d]
                BY <2>5, <3>0, <4>1 DEF Alone
            <4>6. \A d \in Contexts : Single(todo'[d], Carrying(r))
                BY <3>0, <3>1 DEF Alone
            <4> QED BY <4>3, <4>4, <4>5, <4>6 DEF Alone
        <3> QED BY <3>2, <3>3
    <2>8. AttachedHere'
        BY <1>3, <1>5, <2>2, <2>3, <2>4, <2>5 DEF PortsInv, PortPlaces, AttachedHere, Leaves
    <2>9. OwnerHolds'
        BY <1>2, <1>5, <2>4, <2>5 DEF PortsInv, PortPlaces, OwnerHolds, Leaves
    <2> QED BY <1>5, <2>6, <2>7, <2>8, <2>9 DEF PortsInv, PortPlaces
<1> QED BY <1>6, <1>7 DEF DoReceive

\* A step of a thread that moves no live endpoint.
LEMMA StillPlaces ==
    ASSUME PortsInv, NEW c \in Contexts, UNCHANGED <<live, pending, portOwner>>,
           \A d \in Contexts : /\ \A p \in live : p \in wrapper'[d] <=> p \in wrapper[d]
                               /\ contextStatus'[d] \in {"running", "terminating"} =>
                                      contextStatus[d] \in {"running", "terminating"}
                               /\ d # c => todo'[d] = todo[d] /\ startedPorts'[d] = startedPorts[d],
           \A p \in live :
               /\ Some(todo'[c], Carrying(p)) => Some(todo[c], Carrying(p))
               /\ Single(todo[c], Carrying(p)) => Single(todo'[c], Carrying(p))
               /\ Some(todo[c], Parting(p)) => Some(todo'[c], Parting(p))
               /\ Some(todo'[c], Attaching(p)) =>
                      Some(todo[c], Attaching(p)) /\ startedPorts'[c] = startedPorts[c]
    PROVE  PortPlaces'
<1>1. ASSUME NEW p \in live PROVE Alone(p)'
    <2>1. Alone(p)
        BY DEF PortsInv, PortPlaces
    <2> QED BY <2>1, AloneKept
<1>2. AttachedHere'
    BY DEF PortsInv, PortPlaces, AttachedHere
<1>3. OwnerHolds'
    BY DEF PortsInv, PortPlaces, OwnerHolds
<1> QED BY <1>1, <1>2, <1>3 DEF PortPlaces

\* A context hands endpoints it has objects for to the calls it starts.
LEMMA HandedOver ==
    ASSUME PortsInv, NEW c \in Contexts, UNCHANGED <<live, pending, portOwner, startedPorts>>,
           \A d \in Contexts : /\ \A p \in live : p \in wrapper'[d] => p \in wrapper[d]
                               /\ contextStatus'[d] \in {"running", "terminating"} =>
                                      contextStatus[d] \in {"running", "terminating"}
                               /\ d # c => todo'[d] = todo[d] /\ wrapper'[d] = wrapper[d],
           todo[c] = <<>>,
           \A p \in live :
               /\ Some(todo'[c], Carrying(p)) => p \in wrapper[c] /\ p \notin wrapper'[c]
               /\ Single(todo'[c], Carrying(p))
               /\ ~Some(todo'[c], Attaching(p))
               /\ \/ Some(todo'[c], Parting(p)) \/ p \in wrapper'[c] \/ p \notin wrapper[c]
                  \/ contextStatus'[c] \notin {"running", "terminating"}
    PROVE  PortPlaces'
<1>1. ASSUME NEW p \in live PROVE Alone(p)'
    <2>1. Alone(p)
        BY DEF PortsInv, PortPlaces
    <2>2. \A d \in Contexts : Single(todo'[d], Carrying(p))
        BY <2>1 DEF Alone
    <2>3. CASE Some(todo'[c], Carrying(p))
        <3>1. p \in wrapper[c] /\ p \notin wrapper'[c]
            BY <2>3
        <3>2. \A d \in Contexts : p \notin wrapper'[d]
            BY <2>1, <3>1 DEF Alone
        <3>3. \A d \in Contexts : d # c => ~Some(todo'[d], Carrying(p))
            BY <2>1, <3>1 DEF Alone
        <3>4. \A q \in Ports : ~Some(pending'[q], {p}) /\ Single(pending'[q], {p})
            BY <2>1, <3>1 DEF Alone
        <3> QED BY <2>2, <3>2, <3>3, <3>4 DEF Alone
    <2>4. CASE ~Some(todo'[c], Carrying(p))
        BY <2>1, <2>2, <2>4, AloneKept
    <2> QED BY <2>3, <2>4
<1>2. AttachedHere'
    BY DEF PortsInv, PortPlaces, AttachedHere
<1>3. OwnerHolds'
    <2>1. \A p : ~Some(todo[c], Parting(p))
        BY NoneIn
    <2> QED BY <2>1 DEF PortsInv, PortPlaces, OwnerHolds
<1> QED BY <1>1, <1>2, <1>3 DEF PortPlaces

\* postMessage with a transferred port.
LEMMA PostMessageKeeps ==
    ASSUME PortsInv, NEW c \in Contexts, NEW p \in Ports,
           NEW q \in Ports \cup {NoPort}, PostMessage(c, p, q)
    PROVE  PortsInv'
<1> DEFINE to == IF p \in live THEN peer[p] ELSE NoPort
           sent == IF to \in {NoPort, q} THEN Discard(<<q>>) ELSE <<EnqueueMessage(to, q)>>
           off == IF q = NoPort THEN <<>> ELSE <<Detach(q)>>
<1>1. /\ todo[c] = <<>> /\ p \in wrapper[c] /\ q \in (wrapper[c] \ {p}) \cup {NoPort}
      /\ calls < MaxCalls /\ calls' = calls + 1
      /\ todo' = [todo EXCEPT ![c] = off \o sent]
      /\ wrapper' = [wrapper EXCEPT ![c] = @ \ {q}]
      /\ UNCHANGED <<registry, startedPorts, threads>>
    BY DEF PostMessage, Author, BetweenCalls
<1>2. /\ live \subseteq Ports /\ NoPort \notin Ports
      /\ wrapper \in [Contexts -> SUBSET Ports]
      /\ peer \in [Ports -> Ports \cup {NoPort}]
      /\ calls \in 0 .. MaxCalls /\ MaxCalls \in Nat
    BY PortsAssumption DEF PortsInv, PortTypes, PortsTypeOK
<1>3. /\ sent \in Seq(PortCalls)
      /\ \A r \in Ports : /\ Some(sent, Carrying(r)) => r = q
                          /\ Single(sent, Carrying(r)) /\ ~Some(sent, Attaching(r))
    <2>1. CASE to \in {NoPort, q}
        BY <2>1, DisposedOne
    <2>2. CASE to \notin {NoPort, q}
        <3>1. to \in Ports
            BY <1>2, <2>2
        <3> HIDE DEF to
        <3>2. EnqueueMessage(to, q) \in PortCalls
            BY <3>1 DEF PortCalls, EnqueueMessage
        <3>3. /\ <<EnqueueMessage(to, q)>> \in Seq(PortCalls)
              /\ \A S : /\ Some(<<EnqueueMessage(to, q)>>, S) <=> EnqueueMessage(to, q) \in S
                        /\ Single(<<EnqueueMessage(to, q)>>, S)
            BY <3>2, OneIn
        <3>4. \A r \in Ports : /\ EnqueueMessage(to, q) \in Carrying(r) => r = q
                               /\ EnqueueMessage(to, q) \notin Attaching(r)
            BY DEF EnqueueMessage, Carrying, Attaching
        <3> QED BY <2>2, <3>3, <3>4
    <2> QED BY <2>1, <2>2
<1> HIDE DEF sent, to
<1>4. /\ off \in Seq(PortCalls)
      /\ \A r \in Ports : /\ ~Some(off, Carrying(r)) /\ ~Some(off, Attaching(r))
                          /\ Single(off, Carrying(r))
      /\ q \in Ports => Some(off, Parting(q))
    <2>1. CASE q = NoPort
        BY <1>2, <2>1, NoneIn
    <2>2. CASE q # NoPort
        <3>1. Detach(q) \in PortCalls /\ Detach(q) \in Parting(q)
            BY <2>2 DEF PortCalls, Detach, Parting
        <3>2. \A r \in Ports : Detach(q) \notin Carrying(r) /\ Detach(q) \notin Attaching(r)
            BY DEF Detach, Carrying, Attaching
        <3>3. /\ <<Detach(q)>> \in Seq(PortCalls)
              /\ \A S : (Some(<<Detach(q)>>, S) <=> Detach(q) \in S) /\ Single(<<Detach(q)>>, S)
            BY <3>1, OneIn
        <3> QED BY <2>2, <3>1, <3>2, <3>3
    <2> QED BY <2>1, <2>2
<1> HIDE DEF off
<1>5. /\ off \o sent \in Seq(PortCalls)
      /\ \A S : /\ Some(off \o sent, S) <=> Some(off, S) \/ Some(sent, S)
                /\ Single(off, S) /\ Single(sent, S) /\ ~(Some(off, S) /\ Some(sent, S))
                       => Single(off \o sent, S)
    BY <1>3, <1>4, JoinedIn
<1>6. /\ todo' \in [Contexts -> Seq(PortCalls)] /\ todo'[c] = off \o sent
      /\ \A d \in Contexts : d # c => todo'[d] = todo[d]
    BY <1>1, <1>5, CallsSet DEF PortsInv
<1>7. /\ wrapper' \in [Contexts -> SUBSET Ports] /\ wrapper'[c] = wrapper[c] \ {q}
      /\ \A d \in Contexts : d # c => wrapper'[d] = wrapper[d]
    BY <1>1, <1>2
<1>8. UNCHANGED <<live, peer, portOwner, pending, closing, inbox, turn, contextStatus>>
    BY <1>1 DEF registry, threads
<1>9. calls' \in 0 .. MaxCalls
    BY <1>1, <1>2
<1>10. PortTypes'
    BY <1>1, <1>6, <1>7, <1>8, <1>9 DEF PortsInv, PortTypes, PortsTypeOK
<1>11. \A r \in live :
           /\ Some(todo'[c], Carrying(r)) => r \in wrapper[c] /\ r \notin wrapper'[c]
           /\ Single(todo'[c], Carrying(r)) /\ ~Some(todo'[c], Attaching(r))
           /\ Some(todo'[c], Parting(r)) \/ r \in wrapper'[c] \/ r \notin wrapper[c]
    BY <1>1, <1>2, <1>3, <1>4, <1>5, <1>6, <1>7
<1>12. \A d \in Contexts : /\ \A r \in live : r \in wrapper'[d] => r \in wrapper[d]
                           /\ d # c => todo'[d] = todo[d] /\ wrapper'[d] = wrapper[d]
    BY <1>6, <1>7
<1>13. PortPlaces'
    BY <1>1, <1>8, <1>11, <1>12, HandedOver
<1> QED BY <1>10, <1>13 DEF PortsInv

\* A context forgets the object of an endpoint and begins to close it.
LEMMA CloseBegun ==
    ASSUME PortsInv, NEW c \in Contexts, NEW p \in Ports, todo[c] = <<>>, p \in wrapper[c],
           wrapper' = [wrapper EXCEPT ![c] = @ \ {p}],
           todo' = [todo EXCEPT ![c] = <<ClosePort(p)>>],
           UNCHANGED <<registry, startedPorts, threads>>, calls' \in 0 .. MaxCalls
    PROVE  PortsInv'
<1> DEFINE s == <<ClosePort(p)>>
<1>1. todo' = [todo EXCEPT ![c] = s]
    OBVIOUS
<1>2. live \subseteq Ports /\ wrapper \in [Contexts -> SUBSET Ports]
    BY DEF PortsInv, PortTypes, PortsTypeOK
<1>3. ClosePort(p) \in PortCalls /\ ClosePort(p) \in Parting(p)
    BY DEF PortCalls, ClosePort, Parting
<1>4. \A r \in Ports : /\ ClosePort(p) \in Carrying(r) => r = p
                       /\ ClosePort(p) \notin Attaching(r)
    BY DEF ClosePort, Carrying, Attaching
<1>5. s \in Seq(PortCalls) /\ \A S : (Some(s, S) <=> ClosePort(p) \in S) /\ Single(s, S)
    BY <1>3, OneIn
<1> HIDE DEF s
<1>6. /\ todo' \in [Contexts -> Seq(PortCalls)] /\ todo'[c] = s
      /\ \A d \in Contexts : d # c => todo'[d] = todo[d]
    BY <1>1, <1>5, CallsSet DEF PortsInv
<1>7. /\ wrapper' \in [Contexts -> SUBSET Ports] /\ wrapper'[c] = wrapper[c] \ {p}
      /\ \A d \in Contexts : d # c => wrapper'[d] = wrapper[d]
    BY <1>1, <1>2
<1>8. UNCHANGED <<live, peer, portOwner, pending, closing, inbox, turn, contextStatus>>
    BY DEF registry, threads
<1>10. PortTypes'
    BY <1>6, <1>7, <1>8 DEF PortsInv, PortTypes, PortsTypeOK
<1>11. \A r \in live :
           /\ Some(todo'[c], Carrying(r)) => r \in wrapper[c] /\ r \notin wrapper'[c]
           /\ Single(todo'[c], Carrying(r)) /\ ~Some(todo'[c], Attaching(r))
           /\ Some(todo'[c], Parting(r)) \/ r \in wrapper'[c] \/ r \notin wrapper[c]
    BY <1>2, <1>3, <1>4, <1>5, <1>6, <1>7
<1>12. \A d \in Contexts : /\ \A r \in live : r \in wrapper'[d] => r \in wrapper[d]
                           /\ d # c => todo'[d] = todo[d] /\ wrapper'[d] = wrapper[d]
    BY <1>6, <1>7
<1>13. PortPlaces'
    BY <1>8, <1>11, <1>12, HandedOver
<1> QED BY <1>10, <1>13 DEF PortsInv

\* MessagePort.close.
LEMMA CloseScriptKeeps ==
    ASSUME PortsInv, NEW c \in Contexts, NEW p \in Ports, CloseCallback(c, p)
    PROVE  PortsInv'
<1>1. /\ todo[c] = <<>> /\ p \in wrapper[c] /\ calls < MaxCalls /\ calls' = calls + 1
      /\ todo' = [todo EXCEPT ![c] = <<ClosePort(p)>>]
      /\ wrapper' = [wrapper EXCEPT ![c] = @ \ {p}]
      /\ UNCHANGED <<registry, startedPorts, threads>>
    BY DEF CloseCallback, Author, BetweenCalls
<1>2. calls \in 0 .. MaxCalls /\ MaxCalls \in Nat
    BY PortsAssumption DEF PortsInv, PortTypes, PortsTypeOK
<1>3. calls' \in 0 .. MaxCalls
    BY <1>1, <1>2
<1> QED BY <1>1, <1>3, CloseBegun

\* close_worker_owned_message_ports.
LEMMA CloseOwnedKeeps ==
    ASSUME PortsInv, NEW c \in Contexts, CloseOwned(c)
    PROVE  PortsInv'
<1>1. PICK p \in wrapper[c] : /\ wrapper' = [wrapper EXCEPT ![c] = @ \ {p}]
                              /\ todo' = [todo EXCEPT ![c] = <<ClosePort(p)>>]
    BY DEF CloseOwned
<1>2. todo[c] = <<>> /\ UNCHANGED <<registry, startedPorts, threads, calls>>
    BY DEF CloseOwned
<1>3. p \in Ports /\ calls \in 0 .. MaxCalls
    BY DEF PortsInv, PortTypes, PortsTypeOK
<1> QED BY <1>1, <1>2, <1>3, CloseBegun

\* MessagePort.start.
LEMMA StartPortKeeps ==
    ASSUME PortsInv, NEW c \in Contexts, NEW p \in Ports, StartPort(c, p)
    PROVE  PortsInv'
<1> DEFINE s == <<Wake(p)>>
<1>1. /\ todo[c] = <<>> /\ p \in wrapper[c] \ startedPorts[c]
      /\ startedPorts' = [startedPorts EXCEPT ![c] = @ \cup {p}]
      /\ todo' = [todo EXCEPT ![c] = s]
      /\ UNCHANGED <<registry, wrapper, threads, calls>>
    BY DEF StartPort, Author, BetweenCalls
<1>2. /\ s \in Seq(PortCalls)
      /\ \A r \in Ports : /\ ~Some(s, Carrying(r)) /\ Single(s, Carrying(r))
                          /\ ~Some(s, Attaching(r))
    BY PlainOps
<1> HIDE DEF s
<1>3. /\ todo' \in [Contexts -> Seq(PortCalls)] /\ todo'[c] = s
      /\ \A d \in Contexts : d # c => todo'[d] = todo[d]
    BY <1>1, <1>2, CallsSet DEF PortsInv
<1>4. live \subseteq Ports /\ startedPorts \in [Contexts -> SUBSET Ports]
    BY DEF PortsInv, PortTypes, PortsTypeOK
<1>5. /\ startedPorts' \in [Contexts -> SUBSET Ports]
      /\ \A d \in Contexts : d # c => startedPorts'[d] = startedPorts[d]
    BY <1>1, <1>4
<1>6. UNCHANGED <<live, peer, portOwner, pending, closing, inbox, turn, contextStatus>>
    BY <1>1 DEF registry, threads
<1>7. PortTypes'
    BY <1>1, <1>3, <1>5, <1>6 DEF PortsInv, PortTypes, PortsTypeOK
<1>8. \A r : ~Some(todo[c], Parting(r))
    BY <1>1, NoneIn
<1>9. PortPlaces'
    BY <1>1, <1>2, <1>3, <1>4, <1>5, <1>6, <1>8, StillPlaces
<1> QED BY <1>7, <1>9 DEF PortsInv

\* The steps of a thread that leave the calls and the live endpoints alone.
LEMMA TurnKeeps ==
    ASSUME PortsInv, NEW c \in Contexts,
           UNCHANGED <<live, peer, portOwner, pending, startedPorts, todo, calls>>,
           \A d \in Contexts : /\ \A p \in live : p \in wrapper'[d] <=> p \in wrapper[d]
                               /\ contextStatus'[d] \in {"running", "terminating"} =>
                                      contextStatus[d] \in {"running", "terminating"},
           wrapper' \in [Contexts -> SUBSET Ports],
           closing' \subseteq closing, inbox' \in [Contexts -> Seq(Ports)],
           contextStatus' \in [Contexts -> {"running", "terminating", "dead"}],
           turn' \in [Contexts -> PortTurns],
           \A d \in Contexts : turn'[d].phase # "none" => turn'[d].port \in Ports
    PROVE  PortsInv'
<1>1. PortTypes'
    BY DEF PortsInv, PortTypes, PortsTypeOK
<1>2. PortPlaces'
    BY StillPlaces
<1> QED BY <1>1, <1>2 DEF PortsInv

\* The turns of a thread that begins or ends a delivery.
LEMMA TurnTypes ==
    ASSUME PortTypes, NEW c \in Contexts, NEW t \in PortTurns,
           t.phase # "none" => t.port \in Ports, turn' = [turn EXCEPT ![c] = t]
    PROVE  /\ turn' \in [Contexts -> PortTurns]
           /\ \A d \in Contexts : turn'[d].phase # "none" => turn'[d].port \in Ports
<1>1. turn' \in [Contexts -> PortTurns]
    BY DEF PortTypes
<1>2. turn'[c] = t /\ \A d \in Contexts : d # c => turn'[d] = turn[d]
    BY DEF PortTypes
<1>3. \A d \in Contexts : turn[d].phase # "none" => turn[d].port \in Ports
    BY DEF PortTypes
<1> QED BY <1>1, <1>2, <1>3

\* A thread that delivers nothing has a turn of its type.
LEMMA NoTurnType == NoTurn \in PortTurns /\ NoTurn.phase = "none" /\ NoTurn.port = NoPort
                    /\ NoTurn.more = FALSE
    BY DEF NoTurn, PortTurns

\* A wake is taken from the queue of its context.
LEMMA TakeWakeKeeps ==
    ASSUME PortsInv, NEW c \in Contexts, TakeWake(c)
    PROVE  PortsInv'
<1> DEFINE p == Head(inbox[c])
           rest == Tail(inbox[c])
           m == \E i \in DOMAIN rest : rest[i] = p
           t == IF p \in wrapper[c] THEN [port |-> p, phase |-> "task", more |-> m] ELSE NoTurn
<1>1. /\ inbox[c] # <<>> /\ inbox' = [inbox EXCEPT ![c] = rest] /\ turn' = [turn EXCEPT ![c] = t]
      /\ UNCHANGED <<registry, objects, contextStatus, todo, calls>>
    BY DEF TakeWake
<1>2. inbox \in [Contexts -> Seq(Ports)] /\ wrapper \in [Contexts -> SUBSET Ports]
    BY DEF PortsInv, PortTypes, PortsTypeOK
<1>3. p \in Ports /\ rest \in Seq(Ports)
    BY <1>1, <1>2
<1>4. m \in BOOLEAN
    OBVIOUS
<1> HIDE DEF m, p, rest
<1>5. t \in PortTurns /\ (t.phase # "none" => t.port \in Ports)
    <2>1. CASE p \in wrapper[c]
        BY <1>3, <1>4, <2>1 DEF PortTurns
    <2>2. CASE p \notin wrapper[c]
        BY <2>2, NoTurnType
    <2> QED BY <2>1, <2>2
<1> HIDE DEF t
<1>6. /\ turn' \in [Contexts -> PortTurns]
      /\ \A d \in Contexts : turn'[d].phase # "none" => turn'[d].port \in Ports
    BY <1>1, <1>5, TurnTypes DEF PortsInv
<1>7. inbox' \in [Contexts -> Seq(Ports)]
    BY <1>1, <1>2, <1>3
<1>8. UNCHANGED <<live, peer, portOwner, pending, closing, wrapper, startedPorts>>
    BY <1>1 DEF registry, objects
<1>9. contextStatus' \in [Contexts -> {"running", "terminating", "dead"}]
    BY <1>1 DEF PortsInv, PortTypes, PortsTypeOK
<1> QED BY <1>1, <1>2, <1>6, <1>7, <1>8, <1>9, TurnKeeps

\* After an event the turn goes on with the same port.
LEMMA AfterEventTypes ==
    ASSUME PortTypes, NEW c \in Contexts, turn[c].port \in Ports,
           turn' = AfterEvent(c)
    PROVE  /\ turn' \in [Contexts -> PortTurns]
           /\ \A d \in Contexts : turn'[d].phase # "none" => turn'[d].port \in Ports
           /\ turn'[c].port = turn[c].port /\ turn'[c].more = turn[c].more
           /\ \A d \in Contexts : d # c => turn'[d] = turn[d]
<1> DEFINE f == IF c \in Workers THEN "drain" ELSE "after"
           t == [turn[c] EXCEPT !.phase = f]
<1>1. turn[c] \in PortTurns
    BY DEF PortTypes
<1>2. turn' = [turn EXCEPT ![c] = t]
    BY DEF AfterEvent
<1>3. f \in {"drain", "after"}
    OBVIOUS
<1> HIDE DEF f
<1>4. t \in PortTurns /\ t.port = turn[c].port /\ t.more = turn[c].more
    BY <1>1, <1>3 DEF PortTurns
<1> HIDE DEF t
<1>5. /\ turn' \in [Contexts -> PortTurns]
      /\ \A d \in Contexts : turn'[d].phase # "none" => turn'[d].port \in Ports
    BY <1>2, <1>4, TurnTypes
<1>6. turn'[c] = t /\ \A d \in Contexts : d # c => turn'[d] = turn[d]
    BY <1>2 DEF PortTypes
<1> QED BY <1>4, <1>5, <1>6

\* poll_message_port.
LEMMA PollMessageKeeps ==
    ASSUME PortsInv, NEW c \in Contexts, NEW p \in Ports, turn[c].port = p,
           todo[c] = <<>>, PollMessage(c, p), UNCHANGED <<inbox, contextStatus, calls>>
    PROVE  PortsInv'
<1> DEFINE m == Head(pending[p])
           s == <<Receive(p, m)>>
<1>1. /\ pending[p] # <<>> /\ pending' = [pending EXCEPT ![p] = Tail(@)]
      /\ todo' = [todo EXCEPT ![c] = s] /\ turn' = AfterEvent(c)
      /\ UNCHANGED <<live, peer, portOwner, closing, wrapper, startedPorts>>
    BY DEF PollMessage, objects
<1>2. /\ live \subseteq Ports /\ NoPort \notin Ports
      /\ pending \in [Ports -> Seq(Ports \cup {NoPort})]
    BY PortsAssumption DEF PortsInv, PortTypes, PortsTypeOK
<1>3. /\ Tail(pending[p]) \in Seq(Ports \cup {NoPort}) /\ m \in Ports \cup {NoPort}
      /\ \A S : /\ Some(pending[p], S) <=> m \in S \/ Some(Tail(pending[p]), S)
                /\ Single(pending[p], S) => /\ Single(Tail(pending[p]), S)
                                            /\ ~(m \in S /\ Some(Tail(pending[p]), S))
    BY <1>1, <1>2, HeadAndTail
<1> HIDE DEF m
<1>4. Receive(p, m) \in PortCalls
    BY <1>3 DEF PortCalls, Receive
<1>5. \A r \in Ports : /\ Receive(p, m) \in Carrying(r) => r = m
                       /\ Receive(p, m) \notin Attaching(r)
    BY DEF Receive, Carrying, Attaching
<1>6. s \in Seq(PortCalls) /\ \A S : (Some(s, S) <=> Receive(p, m) \in S) /\ Single(s, S)
    BY <1>4, OneIn
<1> HIDE DEF s
<1>7. /\ todo' \in [Contexts -> Seq(PortCalls)] /\ todo'[c] = s
      /\ \A d \in Contexts : d # c => todo'[d] = todo[d]
    BY <1>1, <1>6, CallsSet DEF PortsInv
<1>8. /\ pending' \in [Ports -> Seq(Ports \cup {NoPort})] /\ pending'[p] = Tail(pending[p])
      /\ \A q \in Ports : q # p => pending'[q] = pending[q]
    BY <1>1, <1>2, <1>3
<1>9. PortTypes'
    <2>1. /\ turn' \in [Contexts -> PortTurns]
          /\ \A d \in Contexts : turn'[d].phase # "none" => turn'[d].port \in Ports
        BY <1>1, AfterEventTypes DEF PortsInv
    <2> QED BY <1>1, <1>7, <1>8, <2>1 DEF PortsInv, PortTypes, PortsTypeOK
<1>10. ASSUME NEW r \in live PROVE Alone(r)'
    <2>0. Alone(r) /\ r \in Ports
        BY <1>2 DEF PortsInv, PortPlaces
    <2>1. \A q \in Ports : /\ Some(pending'[q], {r}) => Some(pending[q], {r})
                           /\ Single(pending[q], {r}) => Single(pending'[q], {r})
        BY <1>3, <1>8
    <2>2. \A d \in Contexts : Single(todo'[d], Carrying(r))
        BY <1>6, <1>7, <2>0 DEF Alone
    <2>3. CASE r # m
        <3>1. \A d \in Contexts : Some(todo'[d], Carrying(r)) => Some(todo[d], Carrying(r))
            BY <1>5, <1>6, <1>7, <2>0, <2>3
        <3> QED BY <1>1, <2>0, <2>1, <2>2, <3>1, AloneKept
    <2>4. CASE r = m
        <3>1. Some(pending[p], {r}) /\ Single(pending[p], {r})
            BY <1>3, <2>0, <2>4 DEF Alone
        <3>2. ~Some(pending'[p], {r})
            BY <1>3, <1>8, <2>4, <3>1
        <3>3. \A q \in Ports : ~Some(pending'[q], {r})
            BY <1>8, <2>0, <3>1, <3>2 DEF Alone
        <3>4. \A d \in Contexts : r \notin wrapper'[d]
            BY <1>1, <2>0, <3>1 DEF Alone
        <3>5. \A d \in Contexts : d # c => ~Some(todo'[d], Carrying(r))
            BY <1>7, <2>0, <3>1 DEF Alone
        <3>6. \A q \in Ports : Single(pending'[q], {r})
            BY <2>0, <2>1 DEF Alone
        <3> QED BY <2>2, <3>3, <3>4, <3>5, <3>6 DEF Alone
    <2> QED BY <2>3, <2>4
<1>11. AttachedHere'
    BY <1>1, <1>2, <1>5, <1>6, <1>7 DEF PortsInv, PortPlaces, AttachedHere
<1>12. OwnerHolds'
    <2>1. \A r : ~Some(todo[c], Parting(r))
        BY NoneIn
    <2> QED BY <1>1, <1>7, <2>1 DEF PortsInv, PortPlaces, OwnerHolds
<1> QED BY <1>1, <1>9, <1>10, <1>11, <1>12 DEF PortsInv, PortPlaces

\* The other outcomes of a poll.
LEMMA PollKeeps ==
    ASSUME PortsInv, NEW c \in Contexts, Poll(c)
    PROVE  PortsInv'
<1> DEFINE p == turn[c].port
<1>1. /\ todo[c] = <<>> /\ UNCHANGED <<inbox, contextStatus, calls>>
      /\ turn[c].phase \in {"task", "drain"}
      /\ PollMessage(c, p) \/ PollClose(c, p) \/ PollIdle(c, p) \/ PollRemoved(c, p)
    BY DEF Poll, BetweenCalls
<1>2. p \in Ports
    BY <1>1 DEF PortsInv, PortTypes
<1>3. /\ inbox \in [Contexts -> Seq(Ports)] /\ wrapper \in [Contexts -> SUBSET Ports]
      /\ contextStatus \in [Contexts -> {"running", "terminating", "dead"}]
    BY DEF PortsInv, PortTypes, PortsTypeOK
<1>4. CASE PollMessage(c, p)
    BY <1>1, <1>2, <1>4, PollMessageKeeps
<1>5. CASE PollClose(c, p)
    <2>1. /\ UNCHANGED <<live, peer, portOwner, pending, wrapper, startedPorts, todo>>
          /\ closing' \subseteq closing /\ turn' = AfterEvent(c)
        BY <1>5 DEF PollClose, objects
    <2>2. /\ turn' \in [Contexts -> PortTurns]
          /\ \A d \in Contexts : turn'[d].phase # "none" => turn'[d].port \in Ports
        BY <1>2, <2>1, AfterEventTypes DEF PortsInv
    <2> QED BY <1>1, <1>3, <2>1, <2>2, TurnKeeps
<1>6. CASE PollIdle(c, p) \/ PollRemoved(c, p)
    <2>1. turn' = [turn EXCEPT ![c] = NoTurn]
        BY <1>6 DEF PollIdle, PollRemoved
    <2>2. /\ turn' \in [Contexts -> PortTurns]
          /\ \A d \in Contexts : turn'[d].phase # "none" => turn'[d].port \in Ports
        BY <2>1, NoTurnType, TurnTypes DEF PortsInv
    <2>3. UNCHANGED <<live, peer, portOwner, pending, closing, startedPorts, todo>>
        BY <1>6 DEF PollIdle, PollRemoved, registry, objects
    <2>4. wrapper' = wrapper \/ (p \notin live /\ wrapper' = [wrapper EXCEPT ![c] = @ \ {p}])
        BY <1>6 DEF PollIdle, PollRemoved, objects
    <2> HIDE DEF p
    <2>5. /\ wrapper' \in [Contexts -> SUBSET Ports]
          /\ \A d \in Contexts : \A r \in live : r \in wrapper'[d] <=> r \in wrapper[d]
        <3>1. CASE wrapper' = wrapper
            BY <1>3, <3>1
        <3>2. CASE p \notin live /\ wrapper' = [wrapper EXCEPT ![c] = @ \ {p}]
            BY <1>3, <3>2
        <3> QED BY <2>4, <3>1, <3>2
    <2> QED BY <1>1, <1>3, <2>2, <2>3, <2>5, TurnKeeps
<1> QED BY <1>1, <1>4, <1>5, <1>6

\* dispatch_one_authorized_message_port_event publishes the next task.
LEMMA FinishTurnKeeps ==
    ASSUME PortsInv, NEW c \in Contexts, FinishTurn(c)
    PROVE  PortsInv'
<1> DEFINE p == turn[c].port
           s == IF turn[c].more THEN <<>> ELSE <<Wake(p)>>
<1>1. /\ todo[c] = <<>> /\ turn[c].phase = "after" /\ turn' = [turn EXCEPT ![c] = NoTurn]
      /\ todo' = [todo EXCEPT ![c] = s]
      /\ UNCHANGED <<registry, objects, inbox, contextStatus, calls>>
    BY DEF FinishTurn, BetweenCalls
<1>2. p \in Ports
    BY <1>1 DEF PortsInv, PortTypes
<1>3. s = <<>> \/ \E r \in Ports : s \in {<<Wake(r)>>, <<Clear(r)>>}
    BY <1>2
<1> HIDE DEF s
<1>4. /\ s \in Seq(PortCalls)
      /\ \A r \in Ports : /\ ~Some(s, Carrying(r)) /\ Single(s, Carrying(r))
                          /\ ~Some(s, Attaching(r))
    BY <1>3, PlainOps
<1>5. /\ todo' \in [Contexts -> Seq(PortCalls)] /\ todo'[c] = s
      /\ \A d \in Contexts : d # c => todo'[d] = todo[d]
    BY <1>1, <1>4, CallsSet DEF PortsInv
<1>6. /\ turn' \in [Contexts -> PortTurns]
      /\ \A d \in Contexts : turn'[d].phase # "none" => turn'[d].port \in Ports
    BY <1>1, NoTurnType, TurnTypes DEF PortsInv
<1>7. UNCHANGED <<live, peer, portOwner, pending, closing, wrapper, startedPorts>>
    BY <1>1 DEF registry, objects
<1>8. PortTypes'
    BY <1>1, <1>5, <1>6, <1>7 DEF PortsInv, PortTypes, PortsTypeOK
<1>9. live \subseteq Ports /\ \A r : ~Some(todo[c], Parting(r))
    BY <1>1, NoneIn DEF PortsInv, PortTypes, PortsTypeOK
<1>10. PortPlaces'
    BY <1>1, <1>4, <1>5, <1>7, <1>9, StillPlaces
<1> QED BY <1>8, <1>10 DEF PortsInv

\* A context is terminated, and its receiver dropped.
LEMMA EndKeepsPorts ==
    ASSUME PortsInv, NEW c \in Contexts, Terminate(c) \/ DropReceiver(c)
    PROVE  PortsInv'
<1>1. /\ inbox \in [Contexts -> Seq(Ports)] /\ wrapper \in [Contexts -> SUBSET Ports]
      /\ contextStatus \in [Contexts -> {"running", "terminating", "dead"}]
      /\ turn \in [Contexts -> PortTurns]
      /\ \A d \in Contexts : turn[d].phase # "none" => turn[d].port \in Ports
    BY DEF PortsInv, PortTypes, PortsTypeOK
<1>2. UNCHANGED <<live, peer, portOwner, pending, closing, wrapper, startedPorts, todo, calls>>
    BY DEF Terminate, DropReceiver, registry, objects
<1>5. /\ turn' \in [Contexts -> PortTurns]
      /\ \A d \in Contexts : turn'[d].phase # "none" => turn'[d].port \in Ports
    <2>1. CASE turn' = turn
        BY <1>1, <2>1
    <2>2. CASE turn' = [turn EXCEPT ![c] = NoTurn]
        BY <2>2, NoTurnType, TurnTypes DEF PortsInv
    <2> QED BY <2>1, <2>2 DEF Terminate, DropReceiver
<1>3. inbox' \in [Contexts -> Seq(Ports)]
    <2>1. inbox' = inbox \/ inbox' = [inbox EXCEPT ![c] = <<>>]
        BY DEF Terminate, DropReceiver
    <2>2. <<>> \in Seq(Ports)
        OBVIOUS
    <2> QED BY <1>1, <2>1, <2>2
<1>4. /\ contextStatus' \in [Contexts -> {"running", "terminating", "dead"}]
      /\ \A d \in Contexts : contextStatus'[d] \in {"running", "terminating"} =>
                                   contextStatus[d] \in {"running", "terminating"}
    BY <1>1 DEF Terminate, DropReceiver
<1> QED BY <1>1, <1>2, <1>3, <1>4, <1>5, TurnKeeps

\* A registry call of a thread.
LEMMA CallKeepsPorts ==
    ASSUME PortsInv, NEW c \in Contexts, Call(c)
    PROVE  PortsInv'
    BY WakeKeeps, SendKeeps, ReleaseKeeps, AttachKeeps, EnqueueCallKeeps, CloseCallKeeps, ReceiveKeeps
    DEF Call

\* Every step keeps every endpoint in one place at most.
LEMMA PortsStep == PortsInv /\ [PortsNext]_portsVars => PortsInv'
<1> SUFFICES ASSUME PortsInv, [PortsNext]_portsVars PROVE PortsInv'
    OBVIOUS
<1>1. CASE UNCHANGED portsVars
    BY <1>1
    DEF portsVars, registry, objects, threads, PortsInv, PortTypes, PortsTypeOK, PortPlaces, Alone,
        AttachedHere, OwnerHolds
<1>2. ASSUME NEW c \in Contexts, Thread(c) \/ Script(c) \/ Terminate(c) PROVE PortsInv'
    BY <1>2, CallKeepsPorts, TakeWakeKeeps, PollKeeps, FinishTurnKeeps, CloseOwnedKeeps, EndKeepsPorts,
       PostMessageKeeps, StartPortKeeps, CloseScriptKeeps
    DEF Thread, Script
<1> QED BY <1>1, <1>2 DEF PortsNext

\* At first every endpoint is where it was created.
LEMMA PortsStart == PortsInit => PortsInv
<1> SUFFICES ASSUME PortsInit PROVE PortsInv
    OBVIOUS
<1>1. \A c \in Contexts : todo[c] = <<>> /\ turn[c] = NoTurn
    BY DEF PortsInit
<1>2. \A p \in Ports : pending[p] = <<>>
    BY DEF PortsInit
<1>3. PortTypes
    <2>1. \A p \in Ports : PeerOf(p) \in Ports
        BY DEF PeerOf, Ports
    <2>2. PortsTypeOK
        BY <2>1, PortsAssumption DEF PortsInit, PortsTypeOK
    <2>3. /\ todo \in [Contexts -> Seq(PortCalls)] /\ turn \in [Contexts -> PortTurns]
        BY NoTurnType DEF PortsInit
    <2>4. \A c \in Contexts : turn[c].phase = "none"
        BY <1>1, NoTurnType
    <2>5. \A p \in Ports : peer[p] = PeerOf(p)
        BY DEF PortsInit
    <2> QED BY <2>2, <2>3, <2>4, <2>5 DEF PortTypes
<1>4. /\ \A c \in Contexts : \A S : ~Some(todo[c], S) /\ Single(todo[c], S)
      /\ \A p \in Ports : \A S : ~Some(pending[p], S) /\ Single(pending[p], S)
    BY <1>1, <1>2, NoneIn
<1>5. \A c \in Contexts : wrapper[c] = {p \in Ports : Home[p] = c}
    BY DEF PortsInit
<1>6. live = Ports /\ portOwner = Home
    BY DEF PortsInit
<1>7. \A p \in live : Alone(p)
    <2>1. \A p, c, d : c \in Contexts /\ d \in Contexts /\ p \in wrapper[c] /\ p \in wrapper[d]
                           => c = d
        BY <1>5
    <2> QED BY <1>4, <2>1 DEF Alone
<1>8. AttachedHere /\ OwnerHolds
    BY <1>4, <1>5, <1>6 DEF AttachedHere, OwnerHolds
<1> QED BY <1>3, <1>7, <1>8 DEF PortsInv, PortPlaces

\* The invariant of the ports holds in every state.
THEOREM PortsInvariant ==
    PortsSpec => []PortsInv
    BY PortsStart, PortsStep, PTL DEF PortsSpec

\* A set whose members are all equal has one member at most.
LEMMA AtMostOne ==
    ASSUME NEW T, \A x, y \in T : x = y
    PROVE  Cardinality(T) \in {0, 1} /\ (T = {} => Cardinality(T) = 0)
<1>1. CASE T = {}
    BY <1>1, FS_EmptySet
<1>2. CASE T # {}
    <2>1. PICK x : T = {x}
        BY <1>2
    <2> QED BY <1>2, <2>1, FS_Singleton
<1> QED BY <1>1, <1>2

\* An endpoint in one place at most is counted once.
LEMMA AloneCounted ==
    ASSUME PortsInv, NEW p \in live PROVE Places(p) <= 1
<1>1. Alone(p) /\ p \in Ports
    BY DEF PortsInv, PortPlaces, PortTypes, PortsTypeOK
<1>2. \A c \in Contexts : todo[c] \in Seq(PortCalls) /\ DOMAIN todo[c] = 1 .. Len(todo[c])
    BY DEF PortsInv, PortTypes
<1>3. \A q \in Ports : DOMAIN pending[q] = 1 .. Len(pending[q])
    BY DEF PortsInv, PortTypes, PortsTypeOK
<1>4. \A at \in Queued(p) : /\ at = <<at[1], at[2]>> /\ at[1] \in Ports
                            /\ at[2] \in 1 .. Len(pending[at[1]]) /\ pending[at[1]][at[2]] \in {p}
    BY <1>3 DEF Queued
<1>5. \A at \in Moving(p) : /\ at = <<at[1], at[2]>> /\ at[1] \in Contexts
                            /\ at[2] \in 1 .. Len(todo[at[1]])
                            /\ todo[at[1]][at[2]] \in Carrying(p)
    BY <1>2 DEF Moving, Carrying
<1>6. \A x, y \in Held(p) : x = y
    BY <1>1 DEF Held, Alone
<1>7. \A x, y \in Queued(p) : x = y
    <2> SUFFICES ASSUME NEW x \in Queued(p), NEW y \in Queued(p) PROVE x = y
        OBVIOUS
    <2>1. x[1] = y[1]
        BY <1>1, <1>4 DEF Alone, Some
    <2>2. x[2] = y[2]
        BY <1>1, <1>4, <2>1 DEF Alone, Single
    <2> QED BY <1>4, <2>1, <2>2
<1>8. \A x, y \in Moving(p) : x = y
    <2> SUFFICES ASSUME NEW x \in Moving(p), NEW y \in Moving(p) PROVE x = y
        OBVIOUS
    <2>1. x[1] = y[1]
        BY <1>1, <1>5 DEF Alone, Some
    <2>2. x[2] = y[2]
        BY <1>1, <1>5, <2>1 DEF Alone, Single
    <2> QED BY <1>5, <2>1, <2>2
<1>9. /\ Held(p) # {} => \E c \in Contexts : p \in wrapper[c]
      /\ Queued(p) # {} => \E q \in Ports : Some(pending[q], {p})
      /\ Moving(p) # {} => \E c \in Contexts : Some(todo[c], Carrying(p))
    BY <1>4, <1>5 DEF Held, Some
<1>10. /\ Held(p) = {} \/ (Queued(p) = {} /\ Moving(p) = {})
       /\ Queued(p) = {} \/ Moving(p) = {}
    BY <1>1, <1>9 DEF Alone
<1>11. /\ Cardinality(Held(p)) \in {0, 1} /\ (Held(p) = {} => Cardinality(Held(p)) = 0)
       /\ Cardinality(Queued(p)) \in {0, 1} /\ (Queued(p) = {} => Cardinality(Queued(p)) = 0)
       /\ Cardinality(Moving(p)) \in {0, 1} /\ (Moving(p) = {} => Cardinality(Moving(p)) = 0)
    BY <1>6, <1>7, <1>8, AtMostOne
<1> QED BY <1>10, <1>11 DEF Places

\* A transfer moves an endpoint: whatever contexts and channels there are and
\* however many calls and deaths, it is never in two places, and a registered
\* owner holds it (postMessage, delivery, close and termination).
THEOREM EndpointsHeldOnce ==
    PortsSpec => []HeldOnce
<1>1. PortsInv => HeldOnce
    <2> SUFFICES ASSUME PortsInv PROVE HeldOnce
        OBVIOUS
    <2>1. PortsTypeOK
        BY DEF PortsInv, PortTypes
    <2>2. ASSUME NEW p \in live, NEW c \in Contexts, portOwner[p] = c,
                 contextStatus[c] # "dead"
          PROVE  \/ p \in wrapper[c]
                 \/ \E i \in DOMAIN todo[c] :
                       todo[c][i].op \in {"detach", "close"} /\ todo[c][i].port = p
        <3>0. contextStatus[c] \in {"running", "terminating"}
            BY <2>1, <2>2 DEF PortsTypeOK
        <3>1. p \in wrapper[c] \/ Some(todo[c], Parting(p))
            BY <2>2, <3>0 DEF PortsInv, PortPlaces, OwnerHolds
        <3>2. DOMAIN todo[c] = 1 .. Len(todo[c])
            BY DEF PortsInv, PortTypes
        <3> QED BY <3>1, <3>2 DEF Some, Parting
    <2> QED BY <2>1, <2>2, AloneCounted DEF HeldOnce
<1> QED BY <1>1, PortsInvariant, PTL

-----------------------------------------------------------------------------
(* A started port with work is being served or woken.                      *)

\* The context that started a port is its registered owner.
LEMMA StartedOwned ==
    ASSUME PortsInv, Registered, NEW c \in Contexts,
           NEW p \in live \cap wrapper[c] \cap startedPorts[c]
    PROVE  portOwner[p] = c
    BY DEF PortsInv, PortPlaces, AttachedHere, Registered

\* A registry call.
LEMMA CallWaits ==
    ASSUME PortsInv, Waited, NEW c \in Contexts, UNCHANGED turn,
           \A d \in Contexts : d # c => todo'[d] = todo[d],
           \A S : Some(todo[c], S) => Head(todo[c]) \in S \/ Some(Tail(todo[c]), S),
           \A S : Some(Tail(todo[c]), S) => Some(todo'[c], S),
           ~Some(todo'[c], Clearing), ~Some(todo'[c], Detaching),
           \A d \in Contexts : \A S : Some(inbox[d], S) => Some(inbox'[d], S),
           live' \subseteq live,
           \A p \in live' : \A d \in Contexts : p \in wrapper'[d] =>
               \/ portOwner'[p] = d \/ Some(todo'[d], Attaching(p))
               \/ /\ p \in wrapper[d] /\ portOwner'[p] = portOwner[p]
                  /\ d # c \/ Head(todo[c]) \notin Attaching(p),
           \A d \in Contexts : \A p \in live' \cap wrapper'[d] \cap startedPorts'[d] :
               HasWork(p)' =>
                   \/ Some(inbox'[d], {p}) \/ Some(todo'[c], Waking(p, d))
                   \/ /\ p \in wrapper[d] \cap startedPorts[d] /\ HasWork(p)
                      /\ Head(todo[c]) \notin Waking(p, d)
    PROVE  Waited'
<1>1. NoneCleared'
    BY DEF Waited, NoneCleared
<1>2. DetachFirst'
    BY DEF Waited, DetachFirst
<1>3. Registered'
    BY DEF Waited, Registered
<1>4. MoreQueued'
    BY DEF Waited, MoreQueued
<1>5. Served'
    <2> SUFFICES ASSUME NEW d \in Contexts, NEW p \in live' \cap wrapper'[d] \cap startedPorts'[d],
                        HasWork(p)', turn[d].port # p, ~Some(inbox'[d], {p}),
                        ~Some(todo'[c], Waking(p, d))
                 PROVE  \E e \in Contexts : Some(todo'[e], Waking(p, d))
        BY DEF Served
    <2>1. /\ p \in live \cap wrapper[d] \cap startedPorts[d] /\ HasWork(p)
          /\ Head(todo[c]) \notin Waking(p, d)
        OBVIOUS
    <2>2. ~Some(inbox[d], {p})
        OBVIOUS
    <2>3. PICK e \in Contexts : Some(todo[e], Waking(p, d))
        BY <2>1, <2>2 DEF Waited, Served
    <2> QED BY <2>1, <2>3
<1> QED BY <1>1, <1>2, <1>3, <1>4, <1>5 DEF Waited

\* A step of a thread with no call left to make.
LEMMA IdleWaits ==
    ASSUME Waited, NEW c \in Contexts, todo[c] = <<>>, UNCHANGED <<live, portOwner>>,
           \A d \in Contexts : d # c => todo'[d] = todo[d],
           ~Some(todo'[c], Clearing),
           \/ ~Some(todo'[c], Detaching)
           \/ /\ todo'[c] # <<>> /\ ~Some(Tail(todo'[c]), Detaching)
              /\ Some(Tail(todo'[c]), Carrying(Head(todo'[c]).port)),
           \A d \in Contexts : /\ \A p \in live : p \in wrapper'[d] => p \in wrapper[d]
                               /\ turn'[d].more => Some(inbox'[d], {turn'[d].port}),
           \A d \in Contexts : \A p \in live \cap wrapper'[d] \cap startedPorts'[d] :
               HasWork(p)' =>
                   \/ turn'[d].port = p \/ Some(inbox'[d], {p}) \/ Some(todo'[c], Waking(p, d))
                   \/ /\ p \in startedPorts[d] /\ HasWork(p)
                      /\ turn[d].port # p /\ ~Some(inbox[d], {p})
    PROVE  Waited'
<1>0. \A S : ~Some(todo[c], S)
    BY NoneIn
<1>1. NoneCleared'
    BY DEF Waited, NoneCleared
<1>2. DetachFirst'
    BY DEF Waited, DetachFirst
<1>3. Registered'
    BY <1>0 DEF Waited, Registered
<1>4. MoreQueued'
    BY DEF MoreQueued
<1>5. Served'
    <2> SUFFICES ASSUME NEW d \in Contexts, NEW p \in live \cap wrapper'[d] \cap startedPorts'[d],
                        HasWork(p)', turn'[d].port # p, ~Some(inbox'[d], {p}),
                        ~Some(todo'[c], Waking(p, d))
                 PROVE  \E e \in Contexts : Some(todo'[e], Waking(p, d))
        BY DEF Served
    <2>1. /\ p \in wrapper[d] \cap startedPorts[d] /\ HasWork(p) /\ turn[d].port # p
          /\ ~Some(inbox[d], {p})
        OBVIOUS
    <2>2. PICK e \in Contexts : Some(todo[e], Waking(p, d))
        BY <2>1 DEF Waited, Served
    <2> QED BY <1>0, <2>2
<1> QED BY <1>1, <1>2, <1>3, <1>4, <1>5 DEF Waited

\* What a call leaves has no detach after the first place.
LEMMA TailCalm ==
    ASSUME Waited, NEW c \in Contexts, todo[c] # <<>>,
           \A S : Some(todo[c], S) <=> Head(todo[c]) \in S \/ Some(Tail(todo[c]), S)
    PROVE  ~Some(Tail(todo[c]), Clearing) /\ ~Some(Tail(todo[c]), Detaching)
    BY DEF Waited, NoneCleared, DetachFirst

\* A wake that is sent on goes to the context that started the port.
LEMMA WakeWaits ==
    ASSUME PortsInv, Waited, NEW c \in Contexts, todo[c] # <<>>,
           Head(todo[c]).op = "wake", DoWake(c, Head(todo[c]).port)
    PROVE  Waited'
<1> DEFINE k == Head(todo[c])
           p == k.port
           sends == p \in live /\ HasWork(p) /\ portOwner[p] # NoContext
           ops == IF sends THEN <<Send(p, portOwner[p])>> ELSE <<>>
<1>1. k \in PortCalls /\ p \in Ports
    BY NextCall DEF PortsInv
<1>2. /\ live \subseteq Ports /\ portOwner \in [Ports -> Contexts \cup {NoContext}]
      /\ NoContext \notin Contexts
    BY PortsAssumption DEF PortsInv, PortTypes, PortsTypeOK
<1>3. /\ ops = <<>> \/ \E r \in Ports, d \in Contexts : ops = <<Send(r, d)>>
      /\ \A d \in Contexts : sends /\ portOwner[p] = d => ops = <<Send(p, d)>>
    BY <1>1, <1>2
<1>4. Then(c, ops) /\ UNCHANGED <<registry, objects, threads, calls>>
    BY DEF DoWake
<1> HIDE DEF ops
<1>5. ops \in Seq(PortCalls) /\ ~Some(ops, Detaching)
    BY <1>3, PlainOps
<1>6. ~Some(ops, Clearing)
    <2>1. \A r \in Ports, d \in Contexts : Send(r, d) \in PortCalls /\ Send(r, d) \notin Clearing
        BY DEF Send, Clearing, PortCalls
    <2> QED BY <1>3, <2>1, NoneIn, OneIn
<1>7. Leaves(c, ops)
    BY <1>4, <1>5, ThenLeaves DEF PortsInv
<1>8. ~Some(Tail(todo[c]), Clearing) /\ ~Some(Tail(todo[c]), Detaching)
    BY <1>7, TailCalm DEF Leaves
<1>9. /\ \A r : k \notin Attaching(r)
      /\ \A r, d : k \in Waking(r, d) => r = p
    BY DEF Attaching, Waking, Wakes
<1>10. UNCHANGED <<live, peer, portOwner, pending, closing, wrapper, startedPorts, inbox, turn>>
    BY <1>4 DEF registry, objects, threads
<1>11. \A r : HasWork(r)' <=> HasWork(r)
    BY <1>10 DEF HasWork
<1>12. ASSUME NEW d \in Contexts, p \in live \cap wrapper[d] \cap startedPorts[d], HasWork(p)
       PROVE  Some(ops, Waking(p, d))
    <2>1. portOwner[p] = d
        BY <1>12, StartedOwned DEF Waited
    <2>2. ops = <<Send(p, d)>>
        BY <1>2, <1>3, <1>12, <2>1
    <2>3. Send(p, d) \in Waking(p, d)
        BY <1>1 DEF Waking, Send, Wakes, PortCalls
    <2> QED BY <2>2, <2>3, OneIn
<1> HIDE DEF k, p, sends
<1>13. \A d \in Contexts : \A r \in live \cap wrapper[d] \cap startedPorts[d] :
           HasWork(r) => Some(todo'[c], Waking(r, d)) \/ k \notin Waking(r, d)
    BY <1>7, <1>9, <1>12 DEF Leaves
<1> QED
    BY <1>5, <1>6, <1>7, <1>8, <1>9, <1>10, <1>11, <1>13, CallWaits DEF Leaves, k

\* A wake that is sent is queued.
LEMMA SendWaits ==
    ASSUME PortsInv, Waited, Deaths = {}, NEW c \in Contexts, todo[c] # <<>>,
           Head(todo[c]).op = "send", DoSend(c, Head(todo[c]).port, Head(todo[c]).to)
    PROVE  Waited'
<1> DEFINE k == Head(todo[c])
           p == k.port
           t == k.to
           none == <<>>
<1>1. k \in PortCalls /\ p \in Ports /\ t \in Contexts
    BY NextCall DEF PortsInv
<1>2. contextStatus[t] # "dead"
    BY <1>1 DEF Deaths
<1>3. /\ Then(c, none) /\ UNCHANGED <<registry, objects, turn, contextStatus, calls>>
      /\ inbox' = [inbox EXCEPT ![t] = Append(@, p)]
    BY <1>2 DEF DoSend
<1>4. none \in Seq(PortCalls) /\ \A S : ~Some(none, S)
    BY NoneIn
<1> HIDE DEF none
<1>5. Leaves(c, none)
    BY <1>3, <1>4, ThenLeaves DEF PortsInv
<1>6. ~Some(Tail(todo[c]), Clearing) /\ ~Some(Tail(todo[c]), Detaching)
    BY <1>5, TailCalm DEF Leaves
<1>7. /\ \A r : k \notin Attaching(r)
      /\ \A r, d : k \in Waking(r, d) => r = p /\ d = t
    BY DEF Attaching, Waking, Wakes
<1> HIDE DEF k, p, t
<1>8. UNCHANGED <<live, peer, portOwner, pending, closing, wrapper, startedPorts, turn>>
    BY <1>3 DEF registry, objects
<1>9. \A r : HasWork(r)' <=> HasWork(r)
    BY <1>8 DEF HasWork
<1>10. /\ \A S : Some(inbox'[t], S) <=> Some(inbox[t], S) \/ p \in S
       /\ \A d \in Contexts : d # t => inbox'[d] = inbox[d]
    <2>1. inbox \in [Contexts -> Seq(Ports)]
        BY DEF PortsInv, PortTypes, PortsTypeOK
    <2>2. inbox'[t] = Append(inbox[t], p) /\ \A d \in Contexts : d # t => inbox'[d] = inbox[d]
        BY <1>1, <1>3, <2>1
    <2>3. inbox[t] \in Seq(Ports)
        BY <1>1, <2>1
    <2>4. \A S : Some(Append(inbox[t], p), S) <=> Some(inbox[t], S) \/ p \in S
        BY <1>1, <2>3, AppendedIn
    <2> QED BY <2>2, <2>4
<1>11. \A d \in Contexts : \A r : Some(inbox'[d], {r}) \/ k \notin Waking(r, d)
    BY <1>7, <1>10
<1> QED
    BY <1>4, <1>5, <1>6, <1>7, <1>8, <1>9, <1>10, <1>11, CallWaits DEF Leaves, k

\* Only an endpoint that no context holds is detached.
LEMMA ReleaseWaits ==
    ASSUME PortsInv, Waited, NEW c \in Contexts, todo[c] # <<>>,
           Head(todo[c]).op \in {"clear", "detach"}, DoRelease(c, Head(todo[c]).port)
    PROVE  Waited'
<1> DEFINE k == Head(todo[c])
           p == k.port
           none == <<>>
<1>1. k \in PortCalls /\ p \in Ports
    BY NextCall DEF PortsInv
<1>2. /\ Then(c, none)
      /\ UNCHANGED <<live, peer, pending, closing, objects, threads, calls>>
      /\ portOwner' = IF p \in live THEN [portOwner EXCEPT ![p] = NoContext] ELSE portOwner
    BY DEF DoRelease
<1>3. none \in Seq(PortCalls) /\ \A S : ~Some(none, S)
    BY NoneIn
<1> HIDE DEF none
<1>4. Leaves(c, none)
    BY <1>2, <1>3, ThenLeaves DEF PortsInv
<1>5. ~Some(Tail(todo[c]), Clearing) /\ ~Some(Tail(todo[c]), Detaching)
    BY <1>4, TailCalm DEF Leaves
<1>6. k \in Clearing \/ k \in Detaching
    BY <1>1 DEF Clearing, Detaching
<1>7. k \in Detaching
    BY <1>4, <1>6 DEF Leaves, Waited, NoneCleared
<1>8. Some(todo[c], Carrying(p))
    BY <1>4, <1>7 DEF Leaves, Waited, DetachFirst
<1>9. /\ live \subseteq Ports /\ portOwner \in [Ports -> Contexts \cup {NoContext}]
    BY DEF PortsInv, PortTypes, PortsTypeOK
<1>10. \A r \in live : r # p => portOwner'[r] = portOwner[r]
    BY <1>1, <1>2, <1>9
<1>11. p \in live => \A d \in Contexts : p \notin wrapper[d]
    BY <1>8 DEF PortsInv, PortPlaces, Alone
<1>12. (\A r : k \notin Attaching(r)) /\ \A r, d : k \notin Waking(r, d)
    BY DEF Attaching, Waking, Wakes
<1> HIDE DEF k, p
<1>13. UNCHANGED <<live, peer, pending, closing, wrapper, startedPorts, inbox, turn>>
    BY <1>2 DEF objects, threads
<1>14. \A r : HasWork(r)' <=> HasWork(r)
    BY <1>13 DEF HasWork
<1> QED
    BY <1>3, <1>4, <1>5, <1>10, <1>11, <1>12, <1>13, <1>14, CallWaits DEF Leaves, k

\* Attaching registers the context that holds the endpoint.
LEMMA AttachWaits ==
    ASSUME PortsInv, Waited, NEW c \in Contexts, todo[c] # <<>>,
           Head(todo[c]).op = "attach", DoAttach(c, Head(todo[c]).port)
    PROVE  Waited'
<1> DEFINE k == Head(todo[c])
           p == k.port
           none == <<>>
<1>1. k \in PortCalls /\ p \in Ports
    BY NextCall DEF PortsInv
<1>2. /\ Then(c, none)
      /\ UNCHANGED <<live, peer, pending, closing, objects, threads, calls>>
      /\ portOwner' = IF p \in live THEN [portOwner EXCEPT ![p] = c] ELSE portOwner
    BY DEF DoAttach
<1>3. none \in Seq(PortCalls) /\ \A S : ~Some(none, S)
    BY NoneIn
<1> HIDE DEF none
<1>4. Leaves(c, none)
    BY <1>2, <1>3, ThenLeaves DEF PortsInv
<1>5. ~Some(Tail(todo[c]), Clearing) /\ ~Some(Tail(todo[c]), Detaching)
    BY <1>4, TailCalm DEF Leaves
<1>6. k \in Attaching(p) /\ \A r : k \in Attaching(r) => r = p
    BY <1>1 DEF Attaching
<1>7. p \in live => p \in wrapper[c]
    BY <1>4, <1>6 DEF Leaves, PortsInv, PortPlaces, AttachedHere
<1>8. p \in live => \A d \in Contexts : p \in wrapper[d] => d = c
    BY <1>7 DEF PortsInv, PortPlaces, Alone
<1>9. /\ live \subseteq Ports /\ portOwner \in [Ports -> Contexts \cup {NoContext}]
    BY DEF PortsInv, PortTypes, PortsTypeOK
<1>10. \A r, d : k \notin Waking(r, d)
    BY DEF Waking, Wakes
<1> HIDE DEF k, p
<1>11. /\ p \in live => portOwner'[p] = c
       /\ \A r \in live : r # p => portOwner'[r] = portOwner[r] /\ k \notin Attaching(r)
    BY <1>1, <1>2, <1>6, <1>9
<1>12. UNCHANGED <<live, peer, pending, closing, wrapper, startedPorts, inbox, turn>>
    BY <1>2 DEF objects, threads
<1>13. \A r : HasWork(r)' <=> HasWork(r)
    BY <1>12 DEF HasWork
<1>14. \A r \in live : \A d \in Contexts : r \in wrapper[d] =>
           portOwner'[r] = d \/ (portOwner'[r] = portOwner[r] /\ k \notin Attaching(r))
    BY <1>8, <1>11
<1> QED
    BY <1>3, <1>4, <1>5, <1>10, <1>12, <1>13, <1>14, CallWaits DEF Leaves, k

\* An enqueued message is followed by a wake.
LEMMA EnqueueWaits ==
    ASSUME PortsInv, Waited, NEW c \in Contexts, todo[c] # <<>>,
           Head(todo[c]).op = "enqueue", DoEnqueue(c, Head(todo[c]).port, Head(todo[c]).message)
    PROVE  Waited'
<1> DEFINE k == Head(todo[c])
           p == k.port
           m == k.message
           ops == IF p \in live THEN <<Wake(p)>> ELSE Discard(<<m>>)
<1>1. k \in PortCalls /\ p \in Ports /\ m \in Ports \cup {NoPort}
    BY NextCall DEF PortsInv
<1>2. /\ Then(c, ops)
      /\ UNCHANGED <<live, peer, portOwner, closing, objects, threads, calls>>
      /\ pending' = IF p \in live THEN [pending EXCEPT ![p] = Append(@, m)] ELSE pending
    BY DEF DoEnqueue
<1>3. (\A r : k \notin Attaching(r)) /\ \A r, d : k \in Waking(r, d) => r = p
    BY DEF Attaching, Waking, Wakes
<1>4. /\ p \in live => ops = <<Wake(p)>>
      /\ p \notin live => ops = Discard(<<m>>)
    OBVIOUS
<1> HIDE DEF ops
<1>5. /\ Wake(p) \in PortCalls /\ Wake(p) \notin Clearing
      /\ \A d \in Contexts : Wake(p) \in Waking(p, d)
    BY <1>1 DEF PortCalls, Wake, Clearing, Waking, Wakes
<1>6. /\ ops \in Seq(PortCalls) /\ ~Some(ops, Detaching) /\ ~Some(ops, Clearing)
      /\ p \in live => \A d \in Contexts : Some(ops, Waking(p, d))
    <2>1. CASE p \in live
        <3>1. ops = <<Wake(p)>> /\ \A S : Some(ops, S) <=> Wake(p) \in S
            BY <1>4, <1>5, <2>1, OneIn
        <3>2. ops \in Seq(PortCalls) /\ ~Some(ops, Detaching)
            BY <1>1, <3>1, PlainOps
        <3> QED BY <1>5, <3>1, <3>2
    <2>2. CASE p \notin live
        BY <1>1, <1>4, <2>2, DisposedOne
    <2> QED BY <2>1, <2>2
<1> HIDE DEF k, p, m
<1>7. Leaves(c, ops)
    BY <1>2, <1>6, ThenLeaves DEF PortsInv
<1>8. ~Some(Tail(todo[c]), Clearing) /\ ~Some(Tail(todo[c]), Detaching)
    BY <1>7, TailCalm DEF Leaves
<1>9. pending \in [Ports -> Seq(Ports \cup {NoPort})] /\ live \subseteq Ports
    BY DEF PortsInv, PortTypes, PortsTypeOK
<1>10. UNCHANGED <<live, peer, portOwner, closing, wrapper, startedPorts, inbox, turn>>
    BY <1>2 DEF objects, threads
<1>11. \A r \in live : r # p => (HasWork(r)' <=> HasWork(r))
    BY <1>2, <1>9, <1>10 DEF HasWork
<1>12. p \in live => \A d \in Contexts : Some(todo'[c], Waking(p, d))
    BY <1>6, <1>7 DEF Leaves
<1>13. \A d \in Contexts : \A r \in live \cap wrapper[d] \cap startedPorts[d] :
           HasWork(r)' => \/ Some(todo'[c], Waking(r, d))
                          \/ HasWork(r) /\ k \notin Waking(r, d)
    BY <1>3, <1>11, <1>12
<1> QED
    BY <1>3, <1>6, <1>7, <1>8, <1>10, <1>13, CallWaits DEF Leaves, k

\* A close event is followed by a wake of the peer's owner.
LEMMA CloseWaits ==
    ASSUME PortsInv, Waited, NEW c \in Contexts, todo[c] # <<>>,
           Head(todo[c]).op = "close", DoClose(c, Head(todo[c]).port)
    PROVE  Waited'
<1> DEFINE k == Head(todo[c])
           p == k.port
           q == peer[p]
           told == p \in live /\ q \in live
           ops == IF told /\ portOwner[q] # NoContext THEN <<Send(q, portOwner[q])>> ELSE <<>>
           more == Discard(pending[p])
<1>1. k \in PortCalls /\ p \in Ports
    BY NextCall DEF PortsInv
<1>2. /\ live \subseteq Ports /\ NoContext \notin Contexts
      /\ portOwner \in [Ports -> Contexts \cup {NoContext}]
      /\ pending \in [Ports -> Seq(Ports \cup {NoPort})]
    BY PortsAssumption DEF PortsInv, PortTypes, PortsTypeOK
<1>3. /\ ops = <<>> \/ \E r \in Ports, d \in Contexts : ops = <<Send(r, d)>>
      /\ \A d \in Contexts : told /\ portOwner[q] = d => ops = <<Send(q, d)>>
    BY <1>2
<1>4. /\ live' = live \ {p}
      /\ closing' = (closing \ {p}) \cup (IF told THEN {q} ELSE {})
      /\ pending' = [pending EXCEPT ![p] = <<>>]
      /\ portOwner' = [portOwner EXCEPT ![p] = NoContext]
      /\ todo' = [todo EXCEPT ![c] = ops \o Tail(@) \o more]
      /\ UNCHANGED <<objects, threads, calls>>
    BY DEF DoClose
<1>5. (\A r : k \notin Attaching(r)) /\ \A r, d : k \notin Waking(r, d)
    BY DEF Attaching, Waking, Wakes
<1> HIDE DEF ops, more
<1>6. ops \in Seq(PortCalls) /\ ~Some(ops, Detaching)
    BY <1>3, PlainOps
<1>7. ~Some(ops, Clearing)
    <2>1. \A r \in Ports, d \in Contexts : Send(r, d) \in PortCalls /\ Send(r, d) \notin Clearing
        BY DEF Send, Clearing, PortCalls
    <2> QED BY <1>3, <2>1, NoneIn, OneIn
<1>8. pending[p] \in Seq(Ports \cup {NoPort})
    BY <1>1, <1>2
<1>9. more \in Seq(PortCalls)
    BY <1>8, Disposed DEF more
<1>10. ~Some(more, Detaching) /\ ~Some(more, Clearing)
    <2>1. \A s \in Ports : ClosePort(s) \notin Detaching /\ ClosePort(s) \notin Clearing
        BY DEF ClosePort, Detaching, Clearing
    <2> QED BY <1>8, <2>1, DisposedApart DEF more
<1>11. /\ \A d \in Contexts : d # c => todo'[d] = todo[d]
       /\ \A S : Some(todo[c], S) <=> k \in S \/ Some(Tail(todo[c]), S)
       /\ \A S : Some(todo'[c], S) <=> Some(ops, S) \/ Some(Tail(todo[c]), S) \/ Some(more, S)
    <2>1. PortTypes
        BY DEF PortsInv
    <2> QED BY <1>4, <1>6, <1>9, <2>1, CallsLeft
<1>12. ~Some(Tail(todo[c]), Clearing) /\ ~Some(Tail(todo[c]), Detaching)
    BY <1>11, TailCalm
<1>13. UNCHANGED <<wrapper, startedPorts, inbox, turn>>
    BY <1>4 DEF objects, threads
<1>14. ASSUME NEW d \in Contexts, told, q \in wrapper[d] \cap startedPorts[d]
       PROVE  Some(todo'[c], Waking(q, d))
    <2>1. portOwner[q] = d
        BY <1>14, StartedOwned DEF Waited
    <2>2. ops = <<Send(q, d)>>
        BY <1>3, <1>14, <2>1
    <2>3. q \in Ports
        BY <1>2, <1>14
    <2>4. Send(q, d) \in Waking(q, d)
        BY <2>3 DEF Waking, Send, Wakes, PortCalls
    <2>5. Some(ops, Waking(q, d))
        BY <2>2, <2>4, OneIn
    <2> QED BY <1>11, <2>5
<1> HIDE DEF k, p, q, told
<1>15. live' \subseteq live /\ \A r \in live' : portOwner'[r] = portOwner[r]
    BY <1>2, <1>4
<1>16. \A r \in live' : HasWork(r)' => HasWork(r) \/ (told /\ r = q)
    BY <1>2, <1>4 DEF HasWork
<1>17. \A d \in Contexts : \A r \in live' \cap wrapper[d] \cap startedPorts[d] :
           HasWork(r)' => Some(todo'[c], Waking(r, d)) \/ HasWork(r)
    BY <1>14, <1>16
<1> QED
    BY <1>5, <1>6, <1>7, <1>10, <1>11, <1>12, <1>13, <1>15, <1>17, CallWaits DEF k

\* A received port is not started and will be attached.
LEMMA ReceiveWaits ==
    ASSUME PortsInv, Waited, Deaths = {}, NEW c \in Contexts, todo[c] # <<>>,
           Head(todo[c]).op = "receive", DoReceive(c, Head(todo[c]).port, Head(todo[c]).message)
    PROVE  Waited'
<1> DEFINE k == Head(todo[c])
           m == k.message
<1>1. k \in PortCalls /\ m \in Ports \cup {NoPort}
    BY NextCall DEF PortsInv
<1>2. (\A r : k \notin Attaching(r)) /\ \A r, d : k \notin Waking(r, d)
    BY DEF Attaching, Waking, Wakes
<1>3. /\ live \subseteq Ports /\ NoPort \notin Ports
      /\ wrapper \in [Contexts -> SUBSET Ports]
      /\ startedPorts \in [Contexts -> SUBSET Ports]
    BY PortsAssumption DEF PortsInv, PortTypes, PortsTypeOK
<1> DEFINE Taken(ops) == /\ ops = <<Attach(m)>> /\ m # NoPort
                         /\ wrapper' = [wrapper EXCEPT ![c] = @ \cup {m}]
                         /\ startedPorts' = [startedPorts EXCEPT ![c] = @ \ {m}]
<1>4. PICK ops : /\ Then(c, ops)
                 /\ \/ ops \in {<<>>, Discard(<<m>>)} /\ UNCHANGED <<wrapper, startedPorts>>
                    \/ Taken(ops)
    BY DEF DoReceive, objects
<1>5. UNCHANGED <<registry, threads, calls>>
    BY DEF DoReceive
<1> HIDE DEF k, m
<1>7. /\ ops \in Seq(PortCalls) /\ ~Some(ops, Detaching) /\ ~Some(ops, Clearing)
      /\ Taken(ops) => Some(ops, Attaching(m))
    <2>1. CASE ops = <<>> /\ ~Taken(ops)
        BY <2>1, NoneIn
    <2>2. CASE ops = Discard(<<m>>) /\ ~Taken(ops)
        BY <1>1, <2>2, DisposedOne
    <2>3. CASE Taken(ops)
        <3>1. /\ Attach(m) \in PortCalls /\ Attach(m) \notin Detaching
              /\ Attach(m) \notin Clearing /\ Attach(m) \in Attaching(m)
            BY <1>1, <2>3 DEF PortCalls, Attach, Detaching, Clearing, Attaching
        <3>2. /\ <<Attach(m)>> \in Seq(PortCalls)
              /\ \A S : Some(<<Attach(m)>>, S) <=> Attach(m) \in S
            BY <3>1, OneIn
        <3> QED BY <2>3, <3>1, <3>2
    <2> QED BY <1>4, <2>1, <2>2, <2>3
<1>8. Leaves(c, ops)
    BY <1>4, <1>7, ThenLeaves DEF PortsInv
<1>9. ~Some(Tail(todo[c]), Clearing) /\ ~Some(Tail(todo[c]), Detaching)
    BY <1>8, TailCalm DEF Leaves
<1>10. UNCHANGED <<live, peer, portOwner, pending, closing, inbox, turn>>
    BY <1>5 DEF registry, threads
<1>11. \A r : HasWork(r)' <=> HasWork(r)
    BY <1>10 DEF HasWork
<1>12. \A d \in Contexts : \A r \in live :
           /\ r \in wrapper'[d] => r \in wrapper[d] \/ (d = c /\ Taken(ops) /\ r = m)
           /\ r \in wrapper'[d] \cap startedPorts'[d] => r \in wrapper[d] \cap startedPorts[d]
    BY <1>1, <1>3, <1>4
<1>13. Taken(ops) => Some(todo'[c], Attaching(m))
    BY <1>7, <1>8 DEF Leaves
<1>14. \A d \in Contexts : \A r \in live :
           r \in wrapper'[d] => r \in wrapper[d] \/ Some(todo'[d], Attaching(r))
    BY <1>12, <1>13
<1> QED
    BY <1>2, <1>7, <1>8, <1>9, <1>10, <1>11, <1>12, <1>14, CallWaits DEF Leaves, k

\* Every registry call keeps the ports woken.
LEMMA CallWakes ==
    ASSUME PortsInv, Waited, Deaths = {}, NEW c \in Contexts, Call(c)
    PROVE  Waited'
    BY WakeWaits, SendWaits, ReleaseWaits, AttachWaits, EnqueueWaits, CloseWaits, ReceiveWaits
    DEF Call

\* A port that is transferred is detached first.
LEMMA PostMessageWaits ==
    ASSUME PortsInv, Waited, NEW c \in Contexts, NEW p \in Ports,
           NEW q \in Ports \cup {NoPort}, PostMessage(c, p, q)
    PROVE  Waited'
<1> DEFINE to == IF p \in live THEN peer[p] ELSE NoPort
           sent == IF to \in {NoPort, q} THEN Discard(<<q>>) ELSE <<EnqueueMessage(to, q)>>
           off == IF q = NoPort THEN <<>> ELSE <<Detach(q)>>
<1>1. /\ todo[c] = <<>> /\ todo' = [todo EXCEPT ![c] = off \o sent]
      /\ wrapper' = [wrapper EXCEPT ![c] = @ \ {q}]
      /\ UNCHANGED <<registry, startedPorts, threads>>
    BY DEF PostMessage, Author, BetweenCalls
<1>2. /\ NoPort \notin Ports /\ wrapper \in [Contexts -> SUBSET Ports]
      /\ peer \in [Ports -> Ports \cup {NoPort}]
    BY PortsAssumption DEF PortsInv, PortTypes, PortsTypeOK
<1>3. /\ sent \in Seq(PortCalls) /\ ~Some(sent, Detaching) /\ ~Some(sent, Clearing)
      /\ q \in Ports => Some(sent, Carrying(q))
    <2>1. CASE to \in {NoPort, q}
        BY <2>1, DisposedOne, DisposedAll
    <2>2. CASE to \notin {NoPort, q}
        <3>1. to \in Ports
            BY <1>2, <2>2
        <3> HIDE DEF to
        <3>2. /\ EnqueueMessage(to, q) \in PortCalls
              /\ EnqueueMessage(to, q) \notin Detaching /\ EnqueueMessage(to, q) \notin Clearing
              /\ EnqueueMessage(to, q) \in Carrying(q)
            BY <3>1 DEF PortCalls, EnqueueMessage, Detaching, Clearing, Carrying
        <3>3. /\ <<EnqueueMessage(to, q)>> \in Seq(PortCalls)
              /\ \A S : Some(<<EnqueueMessage(to, q)>>, S) <=> EnqueueMessage(to, q) \in S
            BY <3>2, OneIn
        <3> QED BY <2>2, <3>2, <3>3
    <2> QED BY <2>1, <2>2
<1> HIDE DEF sent, to
<1>4. /\ off \in Seq(PortCalls) /\ ~Some(off, Clearing)
      /\ q = NoPort => off = <<>>
      /\ q # NoPort => /\ Head(off \o sent) = Detach(q) /\ Tail(off \o sent) = sent
                       /\ off \o sent # <<>>
    <2>1. CASE q = NoPort
        BY <2>1, NoneIn
    <2>2. CASE q # NoPort
        <3>1. Detach(q) \in PortCalls /\ Detach(q) \notin Clearing
            BY <2>2 DEF PortCalls, Detach, Clearing
        <3>2. /\ <<Detach(q)>> \in Seq(PortCalls)
              /\ \A S : Some(<<Detach(q)>>, S) <=> Detach(q) \in S
            BY <3>1, OneIn
        <3>3. /\ Head(<<Detach(q)>> \o sent) = Detach(q)
              /\ Tail(<<Detach(q)>> \o sent) = sent /\ <<Detach(q)>> \o sent # <<>>
            BY <1>3, <3>1
        <3> QED BY <2>2, <3>1, <3>2, <3>3
    <2> QED BY <2>1, <2>2
<1>5. off \o sent \in Seq(PortCalls) /\ \A S : Some(off \o sent, S) <=> Some(off, S) \/ Some(sent, S)
    BY <1>3, <1>4, JoinedIn
<1> HIDE DEF off
<1>6. todo'[c] = off \o sent /\ \A d \in Contexts : d # c => todo'[d] = todo[d]
    BY <1>1, <1>5, CallsSet DEF PortsInv
<1>7. \A d \in Contexts : wrapper'[d] \subseteq wrapper[d]
    BY <1>1, <1>2
<1>8. UNCHANGED <<live, peer, portOwner, pending, closing, inbox, turn, contextStatus>>
    BY <1>1 DEF registry, threads
<1>9. \A r : HasWork(r)' <=> HasWork(r)
    BY <1>8 DEF HasWork
<1>10. Detach(q).port = q
    BY DEF Detach
<1>11. \/ ~Some(todo'[c], Detaching)
       \/ /\ todo'[c] # <<>> /\ ~Some(Tail(todo'[c]), Detaching)
          /\ Some(Tail(todo'[c]), Carrying(Head(todo'[c]).port))
    <2>1. CASE q = NoPort
        BY <1>3, <1>4, <1>5, <1>6, <2>1, NoneIn
    <2>2. CASE q # NoPort
        BY <1>3, <1>4, <1>6, <1>10, <2>2
    <2> QED BY <2>1, <2>2
<1>12. ~Some(todo'[c], Clearing)
    BY <1>3, <1>4, <1>5, <1>6
<1>13. \A d \in Contexts : turn'[d].more => Some(inbox'[d], {turn'[d].port})
    BY <1>8 DEF Waited, MoreQueued
<1> QED
    BY <1>1, <1>6, <1>7, <1>8, <1>9, <1>11, <1>12, <1>13, IdleWaits

\* Starting a port wakes it.
LEMMA StartPortWaits ==
    ASSUME PortsInv, Waited, NEW c \in Contexts, NEW p \in Ports,
           StartPort(c, p)
    PROVE  Waited'
<1> DEFINE s == <<Wake(p)>>
<1>1. /\ todo[c] = <<>> /\ startedPorts' = [startedPorts EXCEPT ![c] = @ \cup {p}]
      /\ todo' = [todo EXCEPT ![c] = s] /\ UNCHANGED <<registry, wrapper, threads, calls>>
    BY DEF StartPort, Author, BetweenCalls
<1>2. /\ Wake(p) \in PortCalls /\ Wake(p) \notin Clearing /\ Wake(p) \notin Detaching
      /\ \A d : Wake(p) \in Waking(p, d)
    BY DEF PortCalls, Wake, Clearing, Detaching, Waking, Wakes
<1>3. s \in Seq(PortCalls) /\ \A S : Some(s, S) <=> Wake(p) \in S
    BY <1>2, OneIn
<1> HIDE DEF s
<1>4. todo'[c] = s /\ \A d \in Contexts : d # c => todo'[d] = todo[d]
    BY <1>1, <1>3, CallsSet DEF PortsInv
<1>5. startedPorts \in [Contexts -> SUBSET Ports]
    BY DEF PortsInv, PortTypes, PortsTypeOK
<1>6. \A d \in Contexts : \A r \in startedPorts'[d] : r = p \/ r \in startedPorts[d]
    BY <1>1, <1>5
<1>7. UNCHANGED <<live, portOwner, pending, closing, inbox, turn>>
    BY <1>1 DEF registry, threads
<1>8. \A r : HasWork(r)' <=> HasWork(r)
    BY <1>7 DEF HasWork
<1>9. \A d \in Contexts : turn'[d].more => Some(inbox'[d], {turn'[d].port})
    BY <1>7 DEF Waited, MoreQueued
<1>10. ~Some(todo'[c], Clearing) /\ ~Some(todo'[c], Detaching)
    BY <1>2, <1>3, <1>4
<1>11. \A d \in Contexts : wrapper'[d] = wrapper[d] /\ Some(todo'[c], Waking(p, d))
    BY <1>1, <1>2, <1>3, <1>4
<1>12. \A d \in Contexts : \A r \in live \cap wrapper'[d] \cap startedPorts'[d] :
           HasWork(r)' =>
               \/ turn'[d].port = r \/ Some(inbox'[d], {r}) \/ Some(todo'[c], Waking(r, d))
               \/ /\ r \in startedPorts[d] /\ HasWork(r)
                  /\ turn[d].port # r /\ ~Some(inbox[d], {r})
    BY <1>6, <1>7, <1>8, <1>11
<1> QED
    BY <1>1, <1>4, <1>7, <1>9, <1>10, <1>11, <1>12, IdleWaits

\* Closing a port takes its object away.
LEMMA CloseScriptWaits ==
    ASSUME PortsInv, Waited, NEW c \in Contexts, NEW p \in Ports, CloseCallback(c, p)
    PROVE  Waited'
<1> DEFINE s == <<ClosePort(p)>>
<1>1. /\ todo[c] = <<>> /\ wrapper' = [wrapper EXCEPT ![c] = @ \ {p}]
      /\ todo' = [todo EXCEPT ![c] = s] /\ UNCHANGED <<registry, startedPorts, threads>>
    BY DEF CloseCallback, Author, BetweenCalls
<1>2. /\ ClosePort(p) \in PortCalls /\ ClosePort(p) \notin Clearing
      /\ ClosePort(p) \notin Detaching
    BY DEF PortCalls, ClosePort, Clearing, Detaching
<1>3. s \in Seq(PortCalls) /\ \A S : Some(s, S) <=> ClosePort(p) \in S
    BY <1>2, OneIn
<1> HIDE DEF s
<1>4. todo'[c] = s /\ \A d \in Contexts : d # c => todo'[d] = todo[d]
    BY <1>1, <1>3, CallsSet DEF PortsInv
<1>5. wrapper \in [Contexts -> SUBSET Ports]
    BY DEF PortsInv, PortTypes, PortsTypeOK
<1>6. \A d \in Contexts : wrapper'[d] \subseteq wrapper[d]
    BY <1>1, <1>5
<1>7. UNCHANGED <<live, portOwner, pending, closing, startedPorts, inbox, turn>>
    BY <1>1 DEF registry, threads
<1>8. \A r : HasWork(r)' <=> HasWork(r)
    BY <1>7 DEF HasWork
<1>9. \A d \in Contexts : turn'[d].more => Some(inbox'[d], {turn'[d].port})
    BY <1>7 DEF Waited, MoreQueued
<1> QED
    BY <1>1, <1>2, <1>3, <1>4, <1>6, <1>7, <1>8, <1>9, IdleWaits

\* A wake that is taken begins the delivery of its port.
LEMMA TakeWakeWaits ==
    ASSUME PortsInv, Waited, NEW c \in Contexts, TakeWake(c)
    PROVE  Waited'
<1> DEFINE p == Head(inbox[c])
           rest == Tail(inbox[c])
           m == \E i \in DOMAIN rest : rest[i] = p
           t == IF p \in wrapper[c] THEN [port |-> p, phase |-> "task", more |-> m] ELSE NoTurn
<1>1. /\ todo[c] = <<>> /\ turn[c] = NoTurn
      /\ inbox[c] # <<>> /\ inbox' = [inbox EXCEPT ![c] = rest] /\ turn' = [turn EXCEPT ![c] = t]
      /\ UNCHANGED <<registry, objects, contextStatus, todo, calls>>
    BY DEF TakeWake, BetweenCalls
<1>2. /\ inbox \in [Contexts -> Seq(Ports)] /\ live \subseteq Ports
      /\ turn \in [Contexts -> PortTurns] /\ NoPort \notin Ports
    BY PortsAssumption DEF PortsInv, PortTypes, PortsTypeOK
<1>3. /\ rest \in Seq(Ports)
      /\ \A S : Some(inbox[c], S) <=> p \in S \/ Some(rest, S)
    BY <1>1, <1>2, HeadAndTail
<1>4. m => Some(rest, {p})
    <2>1. DOMAIN rest = 1 .. Len(rest)
        BY <1>3
    <2> HIDE DEF rest, p
    <2> QED BY <2>1 DEF Some
<1> HIDE DEF m, p, rest
<1>5. /\ p \in wrapper[c] => t.port = p /\ (t.more = m)
      /\ p \notin wrapper[c] => t.port = NoPort /\ t.more = FALSE
    BY NoTurnType
<1> HIDE DEF t
<1>6. /\ turn'[c] = t /\ inbox'[c] = rest
      /\ \A d \in Contexts : d # c => turn'[d] = turn[d] /\ inbox'[d] = inbox[d]
    BY <1>1, <1>2
<1>7. UNCHANGED <<live, portOwner, pending, closing, wrapper, startedPorts, todo>>
    BY <1>1 DEF registry, objects
<1>8. \A r : HasWork(r)' <=> HasWork(r)
    BY <1>7 DEF HasWork
<1>9. \A d \in Contexts : turn'[d].more => Some(inbox'[d], {turn'[d].port})
    <2>1. t.more => Some(rest, {t.port})
        BY <1>4, <1>5
    <2> QED BY <1>6, <2>1 DEF Waited, MoreQueued
<1>10. \A S : ~Some(todo'[c], S)
    BY <1>1, <1>7, NoneIn
<1>11. \A r \in live : turn[c].port # r
    BY <1>1, <1>2, NoTurnType
<1>12. \A r \in wrapper[c] : Some(inbox[c], {r}) => Some(inbox'[c], {r}) \/ turn'[c].port = r
    BY <1>3, <1>5, <1>6
<1>13. \A d \in Contexts : \A r \in live \cap wrapper[d] :
           \/ turn'[d].port = r \/ Some(inbox'[d], {r})
           \/ turn[d].port # r /\ ~Some(inbox[d], {r})
    BY <1>6, <1>11, <1>12
<1> QED
    BY <1>1, <1>7, <1>8, <1>9, <1>10, <1>13, IdleWaits

\* A delivery ends only when its port has no work or is gone.
LEMMA PollWaits ==
    ASSUME PortsInv, Waited, NEW c \in Contexts, Poll(c)
    PROVE  Waited'
<1> DEFINE p == turn[c].port
<1>1. /\ todo[c] = <<>> /\ UNCHANGED <<inbox, contextStatus, calls>>
      /\ turn[c].phase \in {"task", "drain"}
      /\ PollMessage(c, p) \/ PollClose(c, p) \/ PollIdle(c, p) \/ PollRemoved(c, p)
    BY DEF Poll, BetweenCalls
<1>2. /\ p \in Ports /\ live \subseteq Ports /\ wrapper \in [Contexts -> SUBSET Ports]
      /\ pending \in [Ports -> Seq(Ports \cup {NoPort})]
      /\ turn \in [Contexts -> PortTurns]
    BY <1>1 DEF PortsInv, PortTypes, PortsTypeOK
<1>3. \A S : ~Some(todo[c], S)
    BY <1>1, NoneIn
<1>4. CASE PollMessage(c, p)
    <2> DEFINE k == Receive(p, Head(pending[p]))
    <2>1. /\ pending[p] # <<>> /\ pending' = [pending EXCEPT ![p] = Tail(@)]
          /\ todo' = [todo EXCEPT ![c] = <<k>>] /\ turn' = AfterEvent(c)
          /\ UNCHANGED <<live, peer, portOwner, closing, wrapper, startedPorts>>
        BY <1>4 DEF PollMessage, objects
    <2>2. Head(pending[p]) \in Ports \cup {NoPort}
        BY <1>2, <2>1
    <2>3. k \in PortCalls /\ k \notin Clearing /\ k \notin Detaching
        BY <1>2, <2>2 DEF Receive, PortCalls, Clearing, Detaching
    <2> HIDE DEF k
    <2>4. <<k>> \in Seq(PortCalls) /\ \A S : Some(<<k>>, S) <=> k \in S
        BY <2>3, OneIn
    <2>5. todo'[c] = <<k>> /\ \A d \in Contexts : d # c => todo'[d] = todo[d]
        BY <2>1, <2>4, CallsSet DEF PortsInv
    <2>6. \A d \in Contexts : turn'[d].port = turn[d].port /\ turn'[d].more = turn[d].more
        BY <1>2, <2>1, AfterEventTypes DEF PortsInv
    <2>7. \A r \in live : HasWork(r)' => HasWork(r)
        BY <1>2, <2>1 DEF HasWork
    <2>8. \A d \in Contexts : turn'[d].more => Some(inbox'[d], {turn'[d].port})
        BY <1>1, <2>6 DEF Waited, MoreQueued
    <2>9. ~Some(todo'[c], Clearing) /\ ~Some(todo'[c], Detaching)
        BY <2>3, <2>4, <2>5
    <2>10. \A d \in Contexts : \A r \in live \cap wrapper'[d] \cap startedPorts'[d] :
               HasWork(r)' =>
                   \/ turn'[d].port = r \/ Some(inbox'[d], {r}) \/ Some(todo'[c], Waking(r, d))
                   \/ /\ r \in startedPorts[d] /\ HasWork(r)
                      /\ turn[d].port # r /\ ~Some(inbox[d], {r})
        BY <1>1, <2>1, <2>6, <2>7
    <2>11. UNCHANGED <<live, portOwner, wrapper>>
        BY <2>1
    <2> QED BY <1>1, <2>5, <2>8, <2>9, <2>10, <2>11, IdleWaits
<1>5. CASE PollClose(c, p)
    <2>1. /\ UNCHANGED <<live, peer, portOwner, pending, wrapper, startedPorts, todo>>
          /\ closing' = closing \ {p} /\ turn' = AfterEvent(c)
        BY <1>5 DEF PollClose, objects
    <2>2. \A d \in Contexts : turn'[d].port = turn[d].port /\ turn'[d].more = turn[d].more
        BY <1>2, <2>1, AfterEventTypes DEF PortsInv
    <2>3. \A r \in live : HasWork(r)' => HasWork(r)
        BY <2>1 DEF HasWork
    <2>4. \A d \in Contexts : turn'[d].more => Some(inbox'[d], {turn'[d].port})
        BY <1>1, <2>2 DEF Waited, MoreQueued
    <2> QED BY <1>1, <1>3, <2>1, <2>2, <2>3, <2>4, IdleWaits
<1>6. CASE PollIdle(c, p) \/ PollRemoved(c, p)
    <2>1. /\ turn' = [turn EXCEPT ![c] = NoTurn]
          /\ UNCHANGED <<live, peer, portOwner, pending, closing, startedPorts, todo>>
        BY <1>6 DEF PollIdle, PollRemoved, registry, objects
    <2>2. wrapper' = wrapper \/ wrapper' = [wrapper EXCEPT ![c] = @ \ {p}]
        BY <1>6 DEF PollIdle, PollRemoved, objects
    <2>3. p \in live /\ p \in startedPorts[c] => ~HasWork(p)
        BY <1>6 DEF PollIdle, PollRemoved
    <2> HIDE DEF p
    <2>4. \A d \in Contexts : wrapper'[d] \subseteq wrapper[d]
        BY <1>2, <2>2
    <2>5. turn'[c] = NoTurn /\ \A d \in Contexts : d # c => turn'[d] = turn[d]
        BY <1>2, <2>1
    <2>6. \A r : HasWork(r)' <=> HasWork(r)
        BY <2>1 DEF HasWork
    <2>7. \A d \in Contexts : turn'[d].more => Some(inbox'[d], {turn'[d].port})
        BY <1>1, <2>5, NoTurnType DEF Waited, MoreQueued
    <2>8. \A d \in Contexts : \A r \in live \cap startedPorts[d] :
              HasWork(r) => turn'[d].port = r \/ turn[d].port # r
        BY <2>3, <2>5 DEF p
    <2> QED BY <1>1, <1>3, <2>1, <2>4, <2>6, <2>7, <2>8, IdleWaits
<1> QED BY <1>1, <1>4, <1>5, <1>6

\* A page's delivery ends with a further task of its port queued or about to be.
LEMMA FinishTurnWaits ==
    ASSUME PortsInv, Waited, NEW c \in Contexts, FinishTurn(c)
    PROVE  Waited'
<1> DEFINE p == turn[c].port
           s == IF turn[c].more THEN <<>> ELSE <<Wake(p)>>
<1>1. /\ todo[c] = <<>> /\ turn[c].phase = "after" /\ turn' = [turn EXCEPT ![c] = NoTurn]
      /\ todo' = [todo EXCEPT ![c] = s]
      /\ UNCHANGED <<registry, objects, inbox, contextStatus, calls>>
    BY DEF FinishTurn, BetweenCalls
<1>2. p \in Ports /\ turn \in [Contexts -> PortTurns]
    BY <1>1 DEF PortsInv, PortTypes
<1>3. /\ Wake(p) \in PortCalls /\ Wake(p) \notin Clearing /\ Wake(p) \notin Detaching
      /\ \A d : Wake(p) \in Waking(p, d)
    BY <1>2 DEF PortCalls, Wake, Clearing, Detaching, Waking, Wakes
<1>4. /\ turn[c].more => s = <<>>
      /\ ~turn[c].more => s = <<Wake(p)>>
    OBVIOUS
<1> HIDE DEF s
<1>5. /\ s \in Seq(PortCalls) /\ ~Some(s, Clearing) /\ ~Some(s, Detaching)
      /\ ~turn[c].more => \A d : Some(s, Waking(p, d))
    <2>1. CASE turn[c].more
        <3>1. s = <<>>
            BY <1>4, <2>1
        <3> QED BY <2>1, <3>1, NoneIn
    <2>2. CASE ~turn[c].more
        <3>1. /\ <<Wake(p)>> \in Seq(PortCalls)
              /\ \A S : Some(<<Wake(p)>>, S) <=> Wake(p) \in S
            BY <1>3, OneIn
        <3> QED BY <1>3, <1>4, <2>2, <3>1
    <2> QED BY <2>1, <2>2
<1>6. todo'[c] = s /\ \A d \in Contexts : d # c => todo'[d] = todo[d]
    BY <1>1, <1>5, CallsSet DEF PortsInv
<1>7. turn'[c] = NoTurn /\ \A d \in Contexts : d # c => turn'[d] = turn[d]
    BY <1>1, <1>2
<1>8. UNCHANGED <<live, portOwner, pending, closing, wrapper, startedPorts, inbox>>
    BY <1>1 DEF registry, objects
<1>9. \A r : HasWork(r)' <=> HasWork(r)
    BY <1>8 DEF HasWork
<1>10. \A d \in Contexts : turn'[d].more => Some(inbox'[d], {turn'[d].port})
    BY <1>7, <1>8, NoTurnType DEF Waited, MoreQueued
<1>11. turn[c].more => Some(inbox[c], {p})
    BY DEF Waited, MoreQueued
<1>12. \A d \in Contexts : \A r \in live :
           \/ turn'[d].port = r \/ Some(inbox'[d], {r}) \/ Some(todo'[c], Waking(r, d))
           \/ turn[d].port # r /\ ~Some(inbox[d], {r})
    BY <1>5, <1>6, <1>7, <1>8, <1>11
<1>13. ~Some(todo'[c], Clearing) /\ ~Some(todo'[c], Detaching)
    BY <1>5, <1>6
<1>14. \A d \in Contexts : \A r \in live \cap wrapper'[d] \cap startedPorts'[d] :
           HasWork(r)' =>
               \/ turn'[d].port = r \/ Some(inbox'[d], {r}) \/ Some(todo'[c], Waking(r, d))
               \/ /\ r \in startedPorts[d] /\ HasWork(r)
                  /\ turn[d].port # r /\ ~Some(inbox[d], {r})
    BY <1>8, <1>9, <1>12
<1>15. todo[c] = <<>> /\ UNCHANGED <<live, portOwner, wrapper>>
    BY <1>1, <1>8
<1> QED
    BY <1>6, <1>10, <1>13, <1>14, <1>15, IdleWaits

\* Every step of the running contexts keeps the ports woken.
LEMMA WakesStep == PortsInv /\ WakesInv /\ [PortsNext]_portsVars => WakesInv'
<1> SUFFICES ASSUME PortsInv, WakesInv, [PortsNext]_portsVars, (Deaths = {})'
             PROVE  Waited'
    BY DEF WakesInv
<1>1. CASE UNCHANGED portsVars
    <2>1. UNCHANGED <<live, portOwner, pending, closing, wrapper, startedPorts, inbox, turn, todo,
                      contextStatus>>
        BY <1>1 DEF portsVars, registry, objects, threads
    <2>2. Waited
        BY <2>1 DEF WakesInv, Deaths
    <2> QED
        BY <2>1, <2>2
        DEF Waited, NoneCleared, DetachFirst, Registered, MoreQueued, Served, HasWork
<1>2. ASSUME NEW c \in Contexts, Thread(c) \/ Script(c) \/ Terminate(c) PROVE Waited'
    <2>1. contextStatus \in [Contexts -> {"running", "terminating", "dead"}]
        BY DEF PortsInv, PortTypes, PortsTypeOK
    <2>2. contextStatus'[c] = "running"
        BY DEF Deaths
    <2>3. CASE CloseOwned(c) \/ DropReceiver(c) \/ Terminate(c)
        BY <2>1, <2>2, <2>3 DEF CloseOwned, DropReceiver, Terminate, threads
    <2>4. CASE Call(c)
        <3>1. UNCHANGED contextStatus
            BY <2>4
            DEF Call, DoWake, DoSend, DoRelease, DoAttach, DoEnqueue, DoClose,
                DoReceive, threads
        <3>2. Deaths = {}
            BY <3>1 DEF Deaths
        <3> QED BY <2>4, <3>2, CallWakes DEF WakesInv
    <2>5. CASE TakeWake(c) \/ Poll(c) \/ FinishTurn(c)
        <3>1. UNCHANGED contextStatus
            BY <2>5 DEF TakeWake, Poll, FinishTurn
        <3>2. Waited
            BY <3>1 DEF Deaths, WakesInv
        <3> QED BY <2>5, <3>2, TakeWakeWaits, PollWaits, FinishTurnWaits
    <2>6. CASE Script(c)
        <3>1. UNCHANGED contextStatus
            BY <2>6 DEF Script, PostMessage, StartPort, CloseCallback, threads
        <3>2. Waited
            BY <3>1 DEF Deaths, WakesInv
        <3> QED BY <2>6, <3>2, PostMessageWaits, StartPortWaits, CloseScriptWaits DEF Script
    <2> QED BY <1>2, <2>3, <2>4, <2>5, <2>6 DEF Thread
<1> QED BY <1>1, <1>2 DEF PortsNext

\* At first no port is started.
LEMMA WakesInit == PortsInit => WakesInv
<1> SUFFICES ASSUME PortsInit PROVE Waited
    BY DEF WakesInv
<1>1. \A c \in Contexts : \A S : ~Some(todo[c], S)
    BY NoneIn DEF PortsInit
<1>2. \A c \in Contexts : turn[c].more = FALSE /\ startedPorts[c] = {}
    BY NoTurnType DEF PortsInit
<1>3. Registered
    BY DEF PortsInit, Registered
<1> QED
    BY <1>1, <1>2, <1>3 DEF Waited, NoneCleared, DetachFirst, MoreQueued, Served

\* While no context has gone away, no started port with messages or a close
\* event waits for a wake that nobody will send, whatever the contexts, the
\* channels and the number of calls (wake_message_port_if_pending, start, the
\* page's next task).
THEOREM StartedPortsWoken ==
    PortsSpec => []StartedPortsAreWoken
<1>1. PortsInv /\ WakesInv => StartedPortsAreWoken
    <2> SUFFICES ASSUME PortsInv, Waited, NEW c \in Contexts,
                        NEW p \in live \cap wrapper[c] \cap startedPorts[c], HasWork(p)
                 PROVE  \/ turn[c].port = p
                        \/ \E i \in DOMAIN inbox[c] : inbox[c][i] = p
                        \/ \E d \in Contexts : \E i \in DOMAIN todo[d] : Wakes(todo[d][i], p, c)
        BY DEF WakesInv, StartedPortsAreWoken
    <2>1. /\ DOMAIN inbox[c] = 1 .. Len(inbox[c])
          /\ \A d \in Contexts : DOMAIN todo[d] = 1 .. Len(todo[d])
        BY DEF PortsInv, PortTypes, PortsTypeOK
    <2>2. \/ turn[c].port = p \/ Some(inbox[c], {p})
          \/ \E d \in Contexts : Some(todo[d], Waking(p, c))
        BY DEF Waited, Served
    <2>3. Some(inbox[c], {p}) => \E i \in DOMAIN inbox[c] : inbox[c][i] = p
        BY <2>1 DEF Some
    <2>4. \A d \in Contexts :
              Some(todo[d], Waking(p, c)) => \E i \in DOMAIN todo[d] : Wakes(todo[d][i], p, c)
        BY <2>1 DEF Some, Waking
    <2> QED BY <2>2, <2>3, <2>4
<1>2. PortsInv /\ WakesInv /\ [PortsNext]_portsVars => WakesInv'
    BY WakesStep
<1>3. PortsInit => WakesInv
    BY WakesInit
<1> QED BY <1>1, <1>2, <1>3, PortsInvariant, PTL DEF PortsSpec
=============================================================================
