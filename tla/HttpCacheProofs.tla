--------------------------- MODULE HttpCacheProofs ---------------------------
(***************************************************************************)
(* What the unlocked file operations of the HTTP cache guarantee, for any  *)
(* number of writers, lookups, removals and crashes; and, in the second    *)
(* part, what the joint session history keeps for any tree of browsing     *)
(* contexts.  The two share no constant and no variable.                   *)
(***************************************************************************)
EXTENDS HttpCache, SessionHistory, Sequences, WellFoundedInduction, TLAPS

-----------------------------------------------------------------------------
(* A hit is a finished body.  That is not inductive: the metadata a lookup *)
(* reads, and any name it still holds, has to be a finished body's, and so *)
(* has the body of every writer that is past its flush.                    *)

Published == {"finish", "temp", "rename", "replaced"}

MetaFinished == meta # NoBody => meta \in complete
WritersFinished == \A w \in Writers : pc[w] \in Published => w \in complete
SeenFinished == \A r \in Lookups : seen[r] # NoBody => seen[r] \in complete
HitOfSeen == \A r \in Lookups :
    /\ pc[r] \in {"idle", "open"} => hit[r].body = NoBody
    /\ hit[r].body # NoBody => hit[r].whole /\ hit[r].body = seen[r]

CacheInv ==
    /\ TypeOK
    /\ MetaFinished /\ WritersFinished /\ SeenFinished /\ HitOfSeen

\* A directory has files exactly when one of its three kinds is there.
LEMMA FilesEmpty ==
    (Files = {}) <=> (meta = NoBody /\ bodies = {} /\ temps = {})
BY DEF Files

\* The same of the next state.
LEMMA FilesEmptyNext ==
    (Files' = {}) <=> (meta' = NoBody /\ bodies' = {} /\ temps' = {})
BY DEF Files

\* The empty store satisfies the invariant.
LEMMA CacheInit == Init => CacheInv
<1> SUFFICES ASSUME Init PROVE CacheInv
    OBVIOUS
<1>1. TypeOK
    BY FilesEmpty, CacheAssumption DEF Init, TypeOK, Steps, NoHit, Actors
<1>2. MetaFinished /\ WritersFinished /\ SeenFinished /\ HitOfSeen
    BY DEF Init, MetaFinished, WritersFinished, SeenFinished, HitOfSeen, NoHit, Actors, Published
<1> QED
    BY <1>1, <1>2 DEF CacheInv

\* Every step of a writer keeps the invariant.
LEMMA WriteKeeps ==
    ASSUME CacheInv, NEW w \in Writers, Write(w)
    PROVE  CacheInv'
<1> USE DEF CacheInv, Go, files
<1>a. w \in Actors /\ w \notin Lookups /\ w # NoBody /\ Lookups \subseteq Actors /\ Writers \subseteq Actors
    BY CacheAssumption DEF Actors
<1> DEFINE Rest == MetaFinished /\ WritersFinished /\ SeenFinished /\ HitOfSeen
<1>1. CASE CreateDirectory(w)
    <2>1. TypeOK'
        BY <1>1, <1>a, FilesEmpty, FilesEmptyNext DEF CreateDirectory, TypeOK, Steps
    <2>2. Rest'
        BY <1>1, <1>a DEF CreateDirectory, TypeOK, MetaFinished, WritersFinished, SeenFinished, HitOfSeen, Published
    <2> QED BY <2>1, <2>2
<1>2. CASE CreateBody(w)
    <2>1. TypeOK'
        BY <1>2, <1>a, FilesEmpty, FilesEmptyNext DEF CreateBody, TypeOK, Steps
    <2>2. Rest'
        BY <1>2, <1>a DEF CreateBody, TypeOK, MetaFinished, WritersFinished, SeenFinished, HitOfSeen, Published
    <2> QED BY <2>1, <2>2
<1>3. CASE FlushBody(w)
    <2>1. TypeOK'
        BY <1>3, <1>a, FilesEmpty, FilesEmptyNext DEF FlushBody, TypeOK, Steps
    <2>2. Rest'
        BY <1>3, <1>a DEF FlushBody, TypeOK, MetaFinished, WritersFinished, SeenFinished, HitOfSeen, Published
    <2> QED BY <2>1, <2>2
<1>4. CASE AbandonBody(w)
    <2>1. TypeOK'
        BY <1>4, <1>a, FilesEmpty, FilesEmptyNext DEF AbandonBody, TypeOK, Steps
    <2>2. Rest'
        BY <1>4, <1>a DEF AbandonBody, TypeOK, MetaFinished, WritersFinished, SeenFinished, HitOfSeen, Published
    <2> QED BY <2>1, <2>2
<1>5. CASE ReadPublished(w)
    <2>1. TypeOK'
        BY <1>5, <1>a, FilesEmpty, FilesEmptyNext DEF ReadPublished, TypeOK, Steps
    <2>2. Rest'
        BY <1>5, <1>a DEF ReadPublished, TypeOK, MetaFinished, WritersFinished, SeenFinished, HitOfSeen, Published
    <2> QED BY <2>1, <2>2
<1>6. CASE WriteTemp(w, "drop")
    <2>1. TypeOK'
        BY <1>6, <1>a, FilesEmpty, FilesEmptyNext DEF WriteTemp, TypeOK, Steps
    <2>2. Rest'
        BY <1>6, <1>a DEF WriteTemp, TypeOK, MetaFinished, WritersFinished, SeenFinished, HitOfSeen, Published
    <2> QED BY <2>1, <2>2
<1>7. CASE RenameTemp(w, w, "replaced", "drop")
    <2>1. TypeOK'
        BY <1>7, <1>a, FilesEmpty, FilesEmptyNext DEF RenameTemp, TypeOK, Steps
    <2>2. Rest'
        BY <1>7, <1>a DEF RenameTemp, TypeOK, MetaFinished, WritersFinished, SeenFinished, HitOfSeen, Published
    <2> QED BY <2>1, <2>2
<1>8. CASE RemoveReplaced(w)
    <2>1. TypeOK'
        BY <1>8, <1>a, FilesEmpty, FilesEmptyNext DEF RemoveReplaced, TypeOK, Steps
    <2>2. Rest'
        BY <1>8, <1>a DEF RemoveReplaced, TypeOK, MetaFinished, WritersFinished, SeenFinished, HitOfSeen, Published
    <2> QED BY <2>1, <2>2
<1>9. CASE DropBody(w)
    <2>1. TypeOK'
        BY <1>9, <1>a, FilesEmpty, FilesEmptyNext DEF DropBody, TypeOK, Steps
    <2>2. Rest'
        BY <1>9, <1>a DEF DropBody, TypeOK, MetaFinished, WritersFinished, SeenFinished, HitOfSeen, Published
    <2> QED BY <2>1, <2>2
<1>10. CASE DropDirectory(w)
    <2>1. TypeOK'
        BY <1>10, <1>a, FilesEmpty, FilesEmptyNext DEF DropDirectory, TypeOK, Steps
    <2>2. Rest'
        BY <1>10, <1>a DEF DropDirectory, TypeOK, MetaFinished, WritersFinished, SeenFinished, HitOfSeen, Published
    <2> QED BY <2>1, <2>2
<1> QED
    BY <1>1, <1>2, <1>3, <1>4, <1>5, <1>6, <1>7, <1>8, <1>9, <1>10 DEF Write

\* Every step of a lookup keeps it: the metadata it reads or republishes names
\* a finished body.
LEMMA LookupKeeps ==
    ASSUME CacheInv, NEW r \in Lookups, Lookup(r)
    PROVE  CacheInv'
<1> USE DEF CacheInv, Go, files
<1>a. r \in Actors /\ r \notin Writers /\ Lookups \subseteq Actors /\ Writers \subseteq Actors
    BY CacheAssumption DEF Actors
<1> DEFINE Rest == MetaFinished /\ WritersFinished /\ SeenFinished /\ HitOfSeen
<1>1. CASE LoadMetadata(r)
    <2>1. TypeOK'
        BY <1>1, <1>a, FilesEmpty, FilesEmptyNext DEF LoadMetadata, TypeOK, Steps
    <2>2. Rest'
        BY <1>1, <1>a DEF LoadMetadata, TypeOK, MetaFinished, WritersFinished, SeenFinished, HitOfSeen, Published
    <2> QED BY <2>1, <2>2
<1>2. CASE OpenBody(r)
    <2>1. CASE seen[r] \in bodies
        <3>1. seen[r] \in Writers /\ seen[r] # NoBody /\ (seen[r] \in complete) = TRUE
            BY <1>a, <2>1, CacheAssumption DEF TypeOK, SeenFinished, Actors
        <3>2. hit' = [hit EXCEPT ![r] = [body |-> seen[r], whole |-> TRUE]]
            BY <1>2, <2>1, <3>1 DEF OpenBody
        <3>3. pc' = [pc EXCEPT ![r] = "opened"] /\ UNCHANGED <<files, complete, seen, ended>>
            BY <1>2, <2>1 DEF OpenBody
        <3>4. TypeOK'
            BY <3>1, <3>2, <3>3, <1>a, FilesEmpty, FilesEmptyNext DEF TypeOK, Steps
        <3>5. Rest'
            BY <3>1, <3>2, <3>3, <1>a
            DEF TypeOK, MetaFinished, WritersFinished, SeenFinished, HitOfSeen, Published
        <3> QED BY <3>4, <3>5
    <2>2. CASE seen[r] \notin bodies
        <3>1. TypeOK'
            BY <1>2, <2>2, <1>a, FilesEmpty, FilesEmptyNext DEF OpenBody, TypeOK, Steps
        <3>2. Rest'
            BY <1>2, <2>2, <1>a
            DEF OpenBody, TypeOK, MetaFinished, WritersFinished, SeenFinished, HitOfSeen, Published
        <3> QED BY <3>1, <3>2
    <2> QED BY <2>1, <2>2
<1>3. CASE ForgetMetadata(r)
    <2>1. TypeOK'
        BY <1>3, <1>a, FilesEmpty, FilesEmptyNext DEF ForgetMetadata, TypeOK, Steps
    <2>2. Rest'
        BY <1>3, <1>a DEF ForgetMetadata, TypeOK, MetaFinished, WritersFinished, SeenFinished, HitOfSeen, Published
    <2> QED BY <2>1, <2>2
<1>4. CASE CheckBodyFile(r)
    <2>1. TypeOK'
        BY <1>4, <1>a, FilesEmpty, FilesEmptyNext DEF CheckBodyFile, TypeOK, Steps
    <2>2. Rest'
        BY <1>4, <1>a DEF CheckBodyFile, TypeOK, MetaFinished, WritersFinished, SeenFinished, HitOfSeen, Published
    <2> QED BY <2>1, <2>2
<1>5. CASE WriteTemp(r, "touched")
    <2>1. TypeOK'
        BY <1>5, <1>a, FilesEmpty, FilesEmptyNext DEF WriteTemp, TypeOK, Steps
    <2>2. Rest'
        BY <1>5, <1>a DEF WriteTemp, TypeOK, MetaFinished, WritersFinished, SeenFinished, HitOfSeen, Published
    <2> QED BY <2>1, <2>2
<1>6. CASE RenameTemp(r, seen[r], "touched", "touched")
    <2>1. TypeOK'
        BY <1>6, <1>a, FilesEmpty, FilesEmptyNext DEF RenameTemp, TypeOK, Steps
    <2>2. Rest'
        BY <1>6, <1>a DEF RenameTemp, TypeOK, MetaFinished, WritersFinished, SeenFinished, HitOfSeen, Published
    <2> QED BY <2>1, <2>2
<1> QED
    BY <1>1, <1>2, <1>3, <1>4, <1>5, <1>6 DEF Lookup

\* Removals only take files away.
LEMMA RemoveKeeps ==
    ASSUME CacheInv, NEW x \in Removers, RemoveEntry(x)
    PROVE  CacheInv'
<1> USE DEF CacheInv, Go, files
<1>a. /\ x \in Actors /\ x \notin Writers /\ x \notin Lookups
      /\ Lookups \subseteq Actors /\ Writers \subseteq Actors
    BY CacheAssumption DEF Actors
<1> DEFINE Rest == MetaFinished /\ WritersFinished /\ SeenFinished /\ HitOfSeen
<1>1. CASE ListDirectory(x)
    <2>1. TypeOK'
        BY <1>1, <1>a, FilesEmpty, FilesEmptyNext DEF ListDirectory, TypeOK, Steps
    <2>2. Rest'
        BY <1>1, <1>a DEF ListDirectory, TypeOK, MetaFinished, WritersFinished, SeenFinished, HitOfSeen, Published
    <2> QED BY <2>1, <2>2
<1>2. CASE RemoveDirectory(x)
    <2>1. TypeOK'
        BY <1>2, <1>a, FilesEmpty, FilesEmptyNext DEF RemoveDirectory, TypeOK, Steps
    <2>2. Rest'
        BY <1>2, <1>a DEF RemoveDirectory, TypeOK, MetaFinished, WritersFinished, SeenFinished, HitOfSeen, Published
    <2> QED BY <2>1, <2>2
<1>3. ASSUME NEW f \in doomed[x] \cup Files, RemoveFile(x, f)
      PROVE  CacheInv'
    <2>0. /\ meta' \in {meta, NoBody} /\ bodies' \subseteq bodies /\ temps' \subseteq temps
          /\ UNCHANGED <<dir, complete, seen, hit, ended>>
          /\ pc' = [pc EXCEPT ![x] = "removing"]
        BY <1>3 DEF RemoveFile
    <2>1. TypeOK'
        BY <2>0, <1>a, FilesEmpty, FilesEmptyNext DEF TypeOK, Steps
    <2>2. Rest'
        BY <2>0, <1>a DEF TypeOK, MetaFinished, WritersFinished, SeenFinished, HitOfSeen, Published
    <2> QED BY <2>1, <2>2
<1> QED
    BY <1>1, <1>2, <1>3 DEF RemoveEntry

\* A crash leaves the files as they are, and stuttering changes nothing.
LEMMA CacheStep == CacheInv /\ [Next]_vars => CacheInv'
<1> SUFFICES ASSUME CacheInv, [Next]_vars PROVE CacheInv'
    OBVIOUS
<1>1. ASSUME NEW a \in Actors, Crash(a) PROVE CacheInv'
    BY <1>1, FilesEmpty, FilesEmptyNext
    DEF Crash, CacheInv, files, TypeOK, MetaFinished, WritersFinished, SeenFinished, HitOfSeen
<1>2. CASE UNCHANGED vars
    BY <1>2, FilesEmpty, FilesEmptyNext
    DEF vars, CacheInv, files, TypeOK, MetaFinished, WritersFinished, SeenFinished, HitOfSeen
<1> QED
    BY <1>1, <1>2, WriteKeeps, LookupKeeps, RemoveKeeps DEF Next

\* The invariant holds in every state of the store.
LEMMA CacheAlways == Spec => []CacheInv
    BY CacheInit, CacheStep, PTL DEF Spec

\* "Crashes during body writes leave an ignored unpublished body stream rather
\* than a readable partial response", for any number of writers, lookups,
\* removals and crashes (writer.rs finish, store.rs load_reader).
THEOREM HitsAreFinished == Spec => []HitsAreWhole
<1>1. CacheInv => HitsAreWhole
    BY DEF CacheInv, HitOfSeen, HitsAreWhole
<1> QED
    BY <1>1, CacheAlways, PTL

-----------------------------------------------------------------------------
(* The published body exists.  A writer deletes the body it has seen       *)
(* published, so every name a writer has seen must be that of a writer     *)
(* that has published already; and since each writer publishes once, what  *)
(* is published when it deletes is another body.                           *)

PublishedBefore == {"replaced", "done"}

MetaReadable ==
    meta # NoBody => meta \in bodies /\ pc[meta] \in PublishedBefore
OwnBodyThere ==
    \A w \in Writers : pc[w] \in {"writing", "finish", "temp", "rename"} => w \in bodies
SeenPublished ==
    \A w \in Writers : seen[w] # NoBody => pc[seen[w]] \in PublishedBefore
ReplacedIsOld ==
    \A w \in Writers : pc[w] = "replaced" /\ seen[w] # NoBody => meta # seen[w]

ReadableParts == MetaReadable /\ OwnBodyThere /\ SeenPublished /\ ReplacedIsOld
ReadableInv == OnlyWritersAndReaders => ReadableParts

\* Writers keep the published body in place.
LEMMA WriteKeepsReadable ==
    ASSUME CacheInv, ReadableInv, NEW w \in Writers, Write(w)
    PROVE  ReadableInv'
<1> USE DEF Go, files
<1>a. w \in Actors /\ w \notin Lookups /\ w \notin Removers /\ w # NoBody /\ Writers \subseteq Actors
    BY CacheAssumption DEF Actors
<1>b. TypeOK
    BY DEF CacheInv
<1>c. NoBody \notin Writers
    BY CacheAssumption DEF Actors
<1>0. PICK to : pc' = [pc EXCEPT ![w] = to]
    BY DEF Write, CreateDirectory, CreateBody, FlushBody, AbandonBody, ReadPublished, WriteTemp,
           RenameTemp, RemoveReplaced, DropBody, DropDirectory
<1>1. OnlyWritersAndReaders' => OnlyWritersAndReaders
    BY <1>0, <1>a, <1>b DEF OnlyWritersAndReaders, Republished, TypeOK
<1> SUFFICES ASSUME ReadableParts PROVE ReadableParts'
    BY <1>1 DEF ReadableInv
<1> USE <1>a, <1>b, <1>c DEF ReadableParts, TypeOK, MetaReadable, OwnBodyThere, SeenPublished,
        ReplacedIsOld, PublishedBefore
<1>2. CASE CreateDirectory(w)
    BY <1>2 DEF CreateDirectory
<1>3. CASE CreateBody(w)
    BY <1>3 DEF CreateBody
<1>4. CASE FlushBody(w)
    BY <1>4 DEF FlushBody
<1>5. CASE AbandonBody(w)
    BY <1>5 DEF AbandonBody
<1>6. CASE ReadPublished(w)
    BY <1>6 DEF ReadPublished
<1>7. CASE WriteTemp(w, "drop")
    BY <1>7 DEF WriteTemp
<1>8. CASE RenameTemp(w, w, "replaced", "drop")
    BY <1>8 DEF RenameTemp
<1>9. CASE RemoveReplaced(w)
    BY <1>9 DEF RemoveReplaced
<1>10. CASE DropBody(w)
    BY <1>10 DEF DropBody
<1>11. CASE DropDirectory(w)
    BY <1>11 DEF DropDirectory
<1> QED
    BY <1>2, <1>3, <1>4, <1>5, <1>6, <1>7, <1>8, <1>9, <1>10, <1>11 DEF Write

\* A lookup that republishes is excluded; another one at most takes the metadata
\* away.
LEMMA LookupKeepsReadable ==
    ASSUME CacheInv, ReadableInv, NEW r \in Lookups, Lookup(r)
    PROVE  ReadableInv'
<1> USE DEF Go, files
<1>a. r \in Actors /\ r \notin Writers /\ r \notin Removers /\ Writers \subseteq Actors
    BY CacheAssumption DEF Actors
<1>b. TypeOK
    BY DEF CacheInv
<1>c. NoBody \notin Writers
    BY CacheAssumption DEF Actors
<1> SUFFICES ASSUME OnlyWritersAndReaders' PROVE ReadableParts'
    BY DEF ReadableInv
<1>0. PICK to : pc' = [pc EXCEPT ![r] = to]
    BY DEF Lookup, LoadMetadata, OpenBody, ForgetMetadata, CheckBodyFile, WriteTemp, RenameTemp
<1>1. pc'[r] \notin {"temp", "rename", "touched"}
    BY DEF OnlyWritersAndReaders, Republished
<1>2. pc[r] \notin {"temp", "rename", "touched"}
    BY <1>0, <1>1, <1>a, <1>b
    DEF Lookup, LoadMetadata, OpenBody, ForgetMetadata, CheckBodyFile, WriteTemp, RenameTemp, TypeOK
<1>3. OnlyWritersAndReaders
    BY <1>0, <1>2, <1>a, <1>b DEF OnlyWritersAndReaders, Republished, TypeOK
<1>4. ReadableParts
    BY <1>3 DEF ReadableInv
<1>5. /\ meta' \in {meta, NoBody} /\ UNCHANGED bodies
      /\ \A w \in Writers : pc'[w] = pc[w] /\ seen'[w] = seen[w]
    BY <1>0, <1>2, <1>a, <1>b
    DEF Lookup, LoadMetadata, OpenBody, ForgetMetadata, CheckBodyFile, WriteTemp, RenameTemp, TypeOK
<1> QED
    BY <1>4, <1>5, <1>a, <1>b, <1>c
    DEF ReadableParts, TypeOK, MetaReadable, OwnBodyThere, SeenPublished, ReplacedIsOld

\* A removal that has begun is excluded.
LEMMA RemoveKeepsReadable ==
    ASSUME CacheInv, ReadableInv, NEW x \in Removers, RemoveEntry(x)
    PROVE  ReadableInv'
<1>1. x \in Actors
    BY DEF Actors
<1>2. pc'[x] # "idle"
    BY <1>1 DEF RemoveEntry, ListDirectory, RemoveDirectory, RemoveFile, Go, CacheInv, TypeOK
<1> QED
    BY <1>2 DEF ReadableInv, OnlyWritersAndReaders

\* The empty store publishes nothing.
LEMMA ReadableInit == Init => ReadableInv
    BY DEF Init, ReadableInv, ReadableParts, MetaReadable, OwnBodyThere, SeenPublished,
           ReplacedIsOld, Actors

\* Every step keeps the published body readable.
LEMMA ReadableStep == CacheInv /\ ReadableInv /\ [Next]_vars => ReadableInv'
<1> SUFFICES ASSUME CacheInv, ReadableInv, [Next]_vars PROVE ReadableInv'
    OBVIOUS
<1>1. ASSUME NEW a \in Actors, Crash(a) PROVE ReadableInv'
    BY <1>1
    DEF Crash, files, ReadableInv, OnlyWritersAndReaders, Republished, ReadableParts, MetaReadable,
        OwnBodyThere, SeenPublished, ReplacedIsOld
<1>2. CASE UNCHANGED vars
    BY <1>2
    DEF vars, files, ReadableInv, OnlyWritersAndReaders, Republished, ReadableParts, MetaReadable,
        OwnBodyThere, SeenPublished, ReplacedIsOld
<1> QED
    BY <1>1, <1>2, WriteKeepsReadable, LookupKeepsReadable, RemoveKeepsReadable DEF Next

\* While only writers and plain lookups use an entry, its published metadata
\* names a finished body that exists, for any number of writers and crashes
\* (finish publishes first and deletes only the body it read beforehand).
THEOREM PublishedBodySurvives == Spec => []PublishedBodyExists
<1>1. CacheInv /\ ReadableInv => PublishedBodyExists
    BY DEF CacheInv, MetaFinished, ReadableInv, ReadableParts, MetaReadable, PublishedBodyExists
<1> QED
    BY <1>1, CacheAlways, CacheInit, CacheStep, ReadableInit, ReadableStep, PTL DEF Spec

-----------------------------------------------------------------------------
(***************************************************************************)
(* The session history.                                                    *)
(***************************************************************************)
\* Every context but the root may have been recorded under its parent.
TreeOK == parents \subseteq Contexts \ {Root}

\* The closure of the parents of d: the solution of the recursion in Descendants.
Closed(S, d) ==
    /\ d \in parents => ParentOf[d] \in S
    /\ \A x \in S \cap parents : ParentOf[x] \in S
Ancestors(d) == {a \in Contexts : \A S \in SUBSET Contexts : Closed(S, d) => a \in S}

\* The closure of a recorded context is its parent and the closure of that.
LEMMA AncestorsUnfold ==
    ASSUME parents \subseteq Contexts \ {Root}, NEW d \in parents
    PROVE  Ancestors(d) = {ParentOf[d]} \cup Ancestors(ParentOf[d])
<1> DEFINE p == ParentOf[d]
<1>0. d \in Contexts /\ p \in Contexts /\ \A x \in parents : ParentOf[x] \in Contexts
  BY HistoryAssumption
<1> HIDE DEF p
<1>1. ASSUME NEW a \in {p} \cup Ancestors(p) PROVE a \in Ancestors(d)
  <2>1. SUFFICES ASSUME NEW S \in SUBSET Contexts, Closed(S, d) PROVE a \in S
    BY <1>0, <1>1 DEF Ancestors
  <2>2. p \in S /\ Closed(S, p)
    BY <2>1 DEF Closed, p
  <2> QED BY <1>1, <2>2 DEF Ancestors
<1>2. ASSUME NEW a \in Ancestors(d) PROVE a \in {p} \cup Ancestors(p)
  <2> DEFINE S == {p} \cup Ancestors(p)
  <2>1. S \in SUBSET Contexts
    BY <1>0 DEF Ancestors
  <2>2. p \in parents => ParentOf[p] \in Ancestors(p)
    BY <1>0 DEF Ancestors, Closed
  <2>3. \A x \in Ancestors(p) \cap parents : ParentOf[x] \in Ancestors(p)
    BY <1>0 DEF Ancestors, Closed
  <2>4. Closed(S, d)
    BY <2>2, <2>3 DEF Closed, p
  <2> HIDE DEF S
  <2>5. a \in S
    BY <1>2, <2>1, <2>4 DEF Ancestors
  <2> QED BY <2>5 DEF S
<1> QED BY <1>1, <1>2 DEF p

\* A context that is not recorded has nothing above it.
LEMMA AncestorsNone ==
    ASSUME NEW d, d \notin parents PROVE Ancestors(d) = {}
<1>1. Closed({}, d)
  BY DEF Closed
<1> QED BY <1>1 DEF Ancestors

\* descendants: a context hangs under c if its parent is c or hangs under c.
LEMMA DescendantsUnfold ==
    ASSUME TreeOK, NEW c \in Contexts
    PROVE  /\ Descendants(c) \subseteq parents
           /\ \A d \in parents : d \in Descendants(c) <=>
                 ParentOf[d] = c \/ ParentOf[d] \in Descendants(c)
<1> DEFINE Step(g) == [d \in Contexts |->
                          IF d \notin parents THEN {} ELSE {ParentOf[d]} \cup g[ParentOf[d]]]
           A == CHOOSE g : g = Step(g)
           G == [d \in Contexts |-> Ancestors(d)]
<1>1. Descendants(c) = {d \in parents : c \in A[d]}
  BY DEF Descendants
<1>2. /\ parents \subseteq Contexts \ {Root}
      /\ \A d \in parents : d \in Contexts /\ ParentOf[d] \in Contexts
  BY HistoryAssumption DEF TreeOK
<1>3. G = Step(G)
  BY <1>2, AncestorsUnfold, AncestorsNone
<1>4. A = Step(A)
  <2> HIDE DEF G, Step
  <2> QED BY <1>3
<1> HIDE DEF A, G
<1>5. \A d \in parents : A[d] = {ParentOf[d]} \cup A[ParentOf[d]]
  BY <1>2, <1>4
<1>6. \A d \in Contexts \ parents : A[d] = {}
  BY <1>4
<1>7. \A d \in parents : c \in A[ParentOf[d]] <=> ParentOf[d] \in Descendants(c)
  BY <1>1, <1>2, <1>6
<1> QED BY <1>1, <1>5, <1>7

-----------------------------------------------------------------------------
(* The entries of one step.                                                *)

Entry == [key : Nat, document : Nat]
Partial == UNION {[D -> Entry] : D \in SUBSET Contexts}

\* A frame is there exactly when its parent shows the document that holds it.
Framed(e, P, h) ==
    \A c \in P : h[c] # 0 => (c \in DOMAIN e <=> At(e, ParentOf[c]).document = h[c])

\* Keys and documents are drawn in order.
Bounded(e, n) == \A c \in DOMAIN e : e[c].key \in 1..n /\ e[c].document \in 1..n

Agree(e, g) == \A c \in DOMAIN e \cap DOMAIN g : e[c].key = g[c].key => e[c] = g[c]

HolderOK == holder \in [Contexts -> Nat] /\ \A c \in Contexts : holder[c] <= fresh

\* The entries of a step are a function on some of the contexts.
LEMMA PartialDef ==
    ASSUME NEW e
    PROVE  e \in Partial <=> DOMAIN e \subseteq Contexts /\ e \in [DOMAIN e -> Entry]
BY DEF Partial

\* Contexts are a tree: none hangs under itself.
LEMMA NoLoop ==
    ASSUME TreeOK, NEW c \in Contexts
    PROVE  c \notin Descendants(c)
<1> DEFINE S == Descendants(c)
<1>1. SUFFICES ASSUME c \in S PROVE FALSE
  OBVIOUS
<1>2. S \subseteq parents /\ \A d \in S : ParentOf[d] = c \/ ParentOf[d] \in S
  BY DescendantsUnfold
<1>3. S \in SUBSET (Contexts \ {Root})
  BY <1>2 DEF TreeOK
<1> HIDE DEF S
<1>4. PICK d \in S : ParentOf[d] \notin S
  BY <1>1, <1>3, HistoryAssumption
<1> QED BY <1>1, <1>2, <1>4

\* The frames of the document that an entry replaces.
Leaving(e, c, x) ==
    IF c \in DOMAIN e /\ e[c].document # x.document THEN Descendants(c) ELSE {}

\* Put: where the entry goes, and what leaves with the old one.
LEMMA PutValues ==
    ASSUME TreeOK, NEW e \in Partial, NEW c \in Contexts, NEW x \in Entry,
           NEW p, p = Put(e, c, x),
           NEW gone, gone = Leaving(e, c, x)
    PROVE  /\ p \in Partial /\ c \notin gone
           /\ DOMAIN p = (DOMAIN e \ gone) \cup {c}
           /\ p[c] = x /\ \A d \in DOMAIN p \ {c} : p[d] = e[d]
<1> DEFINE kept == [d \in DOMAIN e \ gone |-> e[d]]
<1>1. c \notin gone
  BY NoLoop DEF Leaving
<1>2. e \in [DOMAIN e -> Entry] /\ DOMAIN e \subseteq Contexts
  BY PartialDef
<1>3. p = [d \in DOMAIN kept \cup {c} |-> IF d = c THEN x ELSE kept[d]]
  <2>1. CASE c \in DOMAIN e /\ e[c].document # x.document
    BY <2>1 DEF Leaving, Put, With, Without
  <2>2. CASE ~(c \in DOMAIN e /\ e[c].document # x.document)
    <3>1. kept = e
      BY <1>2, <2>2 DEF Leaving
    <3> QED BY <2>2, <3>1 DEF Put, With
  <2> QED BY <2>1, <2>2
<1>4. DOMAIN p = (DOMAIN e \ gone) \cup {c}
  BY <1>1, <1>3
<1>5. p[c] = x /\ \A d \in DOMAIN p \ {c} : p[d] = e[d]
  BY <1>1, <1>3, <1>4
<1>6. p \in [DOMAIN p -> Entry]
  BY <1>2, <1>3, <1>4, <1>5
<1>7. p \in Partial
  BY <1>2, <1>4, <1>6, PartialDef
<1> QED BY <1>1, <1>4, <1>5, <1>7

\* The same without saying what leaves.
LEMMA PutEntries ==
    ASSUME TreeOK, NEW e \in Partial, NEW c \in Contexts, NEW x \in Entry,
           NEW p, p = Put(e, c, x)
    PROVE  /\ p \in Partial /\ DOMAIN p \subseteq DOMAIN e \cup {c}
           /\ c \in DOMAIN p /\ p[c] = x
           /\ \A d \in DOMAIN p \ {c} : p[d] = e[d]
<1>1. PICK gone : gone = Leaving(e, c, x)
  OBVIOUS
<1>2. /\ p \in Partial
      /\ DOMAIN p = (DOMAIN e \ gone) \cup {c}
      /\ p[c] = x /\ \A d \in DOMAIN p \ {c} : p[d] = e[d]
  BY <1>1, PutValues
<1> QED BY <1>2

\* An entry for another document, or for the one that was there, keeps every
\* frame with its document; a context that had none is held by none.
LEMMA PutFrames ==
    ASSUME TreeOK, HolderOK, NEW e \in Partial, NEW c \in Contexts,
           NEW x \in Entry, fresh \in Nat,
           Framed(e, parents, holder), Bounded(e, fresh),
           x.key \in 1..(fresh + 1),
           x.document = fresh + 1 \/ (c \in DOMAIN e /\ x.document = e[c].document),
           NEW h, h = IF c \in DOMAIN e THEN holder ELSE [holder EXCEPT ![c] = 0]
    PROVE  Framed(Put(e, c, x), parents, h) /\ Bounded(Put(e, c, x), fresh + 1)
<1>0. PICK gone : gone = Leaving(e, c, x)
  OBVIOUS
<1>1. PICK p : p = Put(e, c, x)
  OBVIOUS
<1>2. /\ p \in Partial /\ c \notin gone
      /\ DOMAIN p = (DOMAIN e \ gone) \cup {c}
      /\ p[c] = x /\ \A d \in DOMAIN p \ {c} : p[d] = e[d]
  <2>1. TreeOK /\ e \in Partial /\ c \in Contexts /\ x \in Entry
    OBVIOUS
  <2> QED BY ONLY <1>0, <1>1, <2>1, PutValues
<1>3. /\ DOMAIN e \subseteq Contexts
      /\ \A d \in DOMAIN e : e[d].document \in 1..fresh /\ e[d].key \in 1..fresh
  BY PartialDef DEF Bounded
<1>6. ASSUME NEW d \in parents, h[d] # 0
      PROVE  d \in DOMAIN p <=> At(p, ParentOf[d]).document = h[d]
  <2>0. /\ d \in Contexts /\ h[d] = holder[d] /\ (c \in DOMAIN e \/ d # c)
    BY <1>6 DEF HolderOK, TreeOK
  <2>1. /\ d \in DOMAIN e <=> At(e, ParentOf[d]).document = holder[d]
        /\ holder[d] # 0 /\ holder[d] \in Nat /\ holder[d] <= fresh
    BY <1>6, <2>0 DEF Framed, HolderOK
  <2>2. CASE c \in DOMAIN e /\ x.document = e[c].document
    <3>1. DOMAIN p = DOMAIN e
      BY <1>0, <1>2, <2>2 DEF Leaving
    <3>2. At(p, ParentOf[d]).document = At(e, ParentOf[d]).document
      BY <1>2, <2>2, <3>1 DEF At
    <3> QED BY <2>0, <2>1, <3>1, <3>2
  <2>3. CASE c \in DOMAIN e /\ x.document # e[c].document
    <3>0. /\ x.document = fresh + 1 /\ gone = Descendants(c)
          /\ d \in gone <=> ParentOf[d] = c \/ ParentOf[d] \in gone
          /\ DOMAIN p = DOMAIN e \ gone
      BY <1>0, <1>2, <1>3, <2>3, DescendantsUnfold DEF Leaving
    <3>1. CASE ParentOf[d] = c
      BY <1>2, <2>0, <2>1, <3>0, <3>1 DEF At
    <3>2. CASE ParentOf[d] # c /\ ParentOf[d] \in gone
      <4>1. ParentOf[d] \notin DOMAIN p /\ d \notin DOMAIN p
        BY <1>2, <3>0, <3>2
      <4> QED BY <2>0, <2>1, <4>1 DEF At, NoEntry
    <3>3. CASE ParentOf[d] # c /\ ParentOf[d] \notin gone
      <4>1. d \in DOMAIN p <=> d \in DOMAIN e
        BY <1>2, <3>0, <3>3
      <4>2. At(p, ParentOf[d]) = At(e, ParentOf[d])
        BY <1>2, <3>0, <3>3 DEF At
      <4> QED BY <2>0, <2>1, <4>1, <4>2
    <3> QED BY <3>1, <3>2, <3>3
  <2>4. CASE c \notin DOMAIN e
    <3>0. x.document = fresh + 1 /\ DOMAIN p = DOMAIN e \cup {c} /\ d # c
      BY <1>0, <1>2, <2>0, <2>4 DEF Leaving
    <3>1. CASE ParentOf[d] = c
      <4>1. At(e, c).document = 0 /\ At(p, c) = x
        BY <1>2, <2>4, <3>0 DEF At, NoEntry
      <4> QED BY <2>0, <2>1, <3>0, <3>1, <4>1
    <3>2. CASE ParentOf[d] # c
      <4>1. At(p, ParentOf[d]) = At(e, ParentOf[d])
        BY <1>2, <3>0, <3>2 DEF At
      <4> QED BY <2>0, <2>1, <3>0, <4>1
    <3> QED BY <3>1, <3>2
  <2> QED BY <2>2, <2>3, <2>4
<1>7. Framed(p, parents, h)
  BY <1>6 DEF Framed
<1>8. Bounded(p, fresh + 1)
  <2>1. SUFFICES ASSUME NEW d \in DOMAIN p
                 PROVE  p[d].key \in 1..(fresh + 1) /\ p[d].document \in 1..(fresh + 1)
    BY DEF Bounded
  <2>2. CASE d = c
    BY <1>2, <1>3, <2>2
  <2>3. CASE d # c
    BY <1>2, <1>3, <2>3
  <2> QED BY <2>2, <2>3
<1> QED BY <1>1, <1>7, <1>8

-----------------------------------------------------------------------------
(* The timeline.                                                           *)

Step == [id : Nat, entries : Partial]

Sized ==
    /\ steps \in Seq(Step) /\ current \in DOMAIN steps /\ Len(steps) \in 1..MaxSteps
    /\ fresh \in 1..MaxFresh /\ revision \in 1..fresh /\ planned \in 0..MaxPlans

StepOK(s, P, h, n) ==
    Framed(s.entries, P, h) /\ Bounded(s.entries, n) /\ s.id \in 1..n

StepsOK == \A i \in DOMAIN steps : StepOK(steps[i], parents, holder, fresh)

\* Two steps: a key names one entry, an id one step.
PairsOK ==
    \A i, j \in DOMAIN steps :
        /\ Agree(steps[i].entries, steps[j].entries)
        /\ steps[i].id = steps[j].id => i = j

HistoryInv == Sized /\ TreeOK /\ HolderOK /\ StepsOK /\ PairsOK

\* The steps of other renderers have no entries.
LEMMA OpaqueSteps ==
    ASSUME NEW n \in Nat \ {0}, NEW m \in Nat
    PROVE  /\ Opaque(n, m) \in Seq(Step) /\ Len(Opaque(n, m)) = n
           /\ DOMAIN Opaque(n, m) = 1..n
           /\ \A i \in 1..n : /\ Opaque(n, m)[i] \in Step /\ Opaque(n, m)[i].id = m + i
                              /\ DOMAIN Opaque(n, m)[i].entries = {}
<1>1. PICK e : e = [c \in {} |-> NoEntry]
  OBVIOUS
<1>2. e \in Partial /\ DOMAIN e = {}
  BY <1>1, PartialDef
<1>3. Opaque(n, m) = [i \in 1..n |-> [id |-> m + i, entries |-> e]]
  BY <1>1 DEF Opaque
<1>4. \A i \in 1..n : [id |-> m + i, entries |-> e] \in Step
  BY <1>2 DEF Step
<1>5. Opaque(n, m) \in [1..n -> Step]
  BY <1>3, <1>4
<1>6. Opaque(n, m) \in Seq(Step) /\ Len(Opaque(n, m)) = n
  BY <1>5
<1>7. ASSUME NEW i \in 1..n
      PROVE  /\ Opaque(n, m)[i] \in Step /\ Opaque(n, m)[i].id = m + i
             /\ DOMAIN Opaque(n, m)[i].entries = {}
  <2>1. Opaque(n, m)[i] = [id |-> m + i, entries |-> e]
    BY <1>3
  <2> QED BY <1>2, <1>4, <2>1
<1> QED BY <1>3, <1>6, <1>7

\* Nothing is shown at first.
LEMMA HistoryStart ==
    ASSUME HistoryInit
    PROVE  HistoryInv
<1>1. PICK n \in 1..MaxOpaque : /\ n <= MaxFresh /\ steps = Opaque(n, 0) /\ current \in 1..n
                               /\ fresh = n /\ revision = n
  BY DEF HistoryInit
<1>2. parents = {} /\ planned = 0 /\ holder = [c \in Contexts |-> 0]
  BY DEF HistoryInit
<1>3. /\ MaxFresh \in Nat \ {0} /\ MaxSteps \in Nat \ {0} /\ MaxPlans \in Nat
      /\ MaxOpaque \in 1..MaxSteps /\ n \in Nat \ {0}
  BY HistoryAssumption
<1>4. /\ steps \in Seq(Step) /\ Len(steps) = n /\ DOMAIN steps = 1..n
      /\ \A i \in 1..n : /\ steps[i].id = i /\ DOMAIN steps[i].entries = {}
  <2>1. /\ steps \in Seq(Step) /\ Len(steps) = n /\ DOMAIN steps = 1..n
        /\ \A i \in 1..n : /\ steps[i].id = 0 + i /\ DOMAIN steps[i].entries = {}
    BY <1>1, <1>3, 0 \in Nat, OpaqueSteps
  <2> QED BY <2>1
<1>5. Sized
  BY <1>1, <1>2, <1>3, <1>4 DEF Sized
<1>6. TreeOK /\ HolderOK
  BY <1>1, <1>2, <1>3 DEF TreeOK, HolderOK
<1>7. StepsOK
  BY <1>1, <1>2, <1>3, <1>4 DEF StepsOK, StepOK, Framed, Bounded
<1>8. PairsOK
  BY <1>4 DEF PairsOK, Agree
<1> QED BY <1>5, <1>6, <1>7, <1>8 DEF HistoryInv

\* What the entries of a step are known to be.
LEMMA StepFacts ==
    ASSUME HistoryInv, NEW i \in DOMAIN steps
    PROVE  /\ steps[i] \in Step /\ steps[i].entries \in Partial /\ steps[i].id \in 1..fresh
           /\ Framed(steps[i].entries, parents, holder)
           /\ Bounded(steps[i].entries, fresh)
<1>1. steps \in Seq(Step) /\ StepOK(steps[i], parents, holder, fresh)
  BY DEF HistoryInv, Sized, StepsOK
<1>2. steps[i] \in Step
  BY <1>1
<1> QED BY <1>1, <1>2 DEF StepOK, Step

\* Drawing a number leaves the older ones in bounds.
LEMMA BoundedGrows ==
    ASSUME NEW e, NEW n \in Nat, NEW m \in Nat, n <= m, Bounded(e, n)
    PROVE  Bounded(e, m)
<1>1. \A k \in 1..n : k \in 1..m
  OBVIOUS
<1> QED BY <1>1 DEF Bounded

\* So a step stays as it should be, if fewer contexts are held.
LEMMA StepGrows ==
    ASSUME NEW s, NEW P, NEW g, NEW h, NEW n \in Nat, NEW m \in Nat, n <= m,
           \A c \in P : h[c] # 0 => h[c] = g[c], StepOK(s, P, g, n)
    PROVE  StepOK(s, P, h, m)
<1>1. Bounded(s.entries, m) /\ s.id \in 1..m
  BY BoundedGrows DEF StepOK
<1>2. Framed(s.entries, P, h)
  BY DEF StepOK, Framed
<1> QED BY <1>1, <1>2 DEF StepOK

\* The entries a navigation commits.
LEMMA NavigationEntry ==
    ASSUME HistoryInv, NEW c \in Contexts, NEW e, e = steps[current].entries,
           NEW x \in Replacements(c)
    PROVE  /\ x \in Entry /\ x.key \in 1..(fresh + 1)
           /\ x.document = fresh + 1 \/ (c \in DOMAIN e /\ x.document = e[c].document)
           /\ x.key = fresh + 1 \/ (c \in DOMAIN e /\ x.key = e[c].key)
<1>1. current \in DOMAIN steps /\ fresh \in Nat /\ fresh >= 1
  BY DEF HistoryInv, Sized
<1>2. c \in DOMAIN e => e[c].key \in 1..fresh /\ e[c].document \in 1..fresh
  BY <1>1, StepFacts DEF Bounded
<1>3. CASE c \in DOMAIN e
  BY <1>1, <1>2, <1>3 DEF NewEntries, Replacements, Entries, Entry, At
<1>4. CASE c \notin DOMAIN e
  BY <1>1, <1>4 DEF NewEntries, Replacements, Entries, Entry, At, NoEntry
<1> QED BY <1>3, <1>4

\* A context held by no document has nothing to be shown with.
LEMMA StrayedKeeps ==
    ASSUME HolderOK, NEW c \in Contexts, fresh \in Nat
    PROVE  /\ Strayed(c) = IF c \in DOMAIN steps[current].entries THEN holder
                           ELSE [holder EXCEPT ![c] = 0]
           /\ Strayed(c) \in [Contexts -> Nat]
           /\ \A d \in Contexts : /\ Strayed(c)[d] <= fresh
                                  /\ Strayed(c)[d] # 0 => Strayed(c)[d] = holder[d]
BY DEF HolderOK, Strayed, Has, Entries

\* push: the steps ahead of the current one go, a new one comes, under a new id
\* and with a key no step has.
LEMMA PushKeeps ==
    ASSUME HistoryInv, NEW c \in Contexts, NEW x, Push(c, x)
    PROVE  HistoryInv'
<1>1. /\ x \in NewEntries(c) /\ fresh < MaxFresh /\ current < MaxSteps
      /\ current' = current + 1 /\ fresh' = fresh + 1 /\ revision' = fresh + 1
      /\ holder' = Strayed(c) /\ UNCHANGED <<parents, planned>>
      /\ steps' = Append(SubSeq(steps, 1, current),
                          [id |-> fresh + 1, entries |-> Put(steps[current].entries, c, x)])
  BY DEF Push, Has, Entries
<1>2. /\ steps \in Seq(Step) /\ current \in DOMAIN steps /\ Len(steps) \in 1..MaxSteps
      /\ current \in Nat /\ current >= 1 /\ current <= Len(steps)
      /\ fresh \in Nat /\ fresh >= 1 /\ MaxFresh \in Nat /\ MaxSteps \in Nat
      /\ TreeOK /\ HolderOK
  BY HistoryAssumption DEF HistoryInv, Sized
<1>3. PICK e : e = steps[current].entries
  OBVIOUS
<1>4. e \in Partial /\ Framed(e, parents, holder) /\ Bounded(e, fresh)
  BY <1>2, <1>3, StepFacts
<1>5. /\ x \in Entry /\ x.key \in 1..(fresh + 1) /\ x.key = fresh + 1
      /\ x.document = fresh + 1 \/ (c \in DOMAIN e /\ x.document = e[c].document)
  <2>1. x.key = fresh + 1
    BY <1>1 DEF NewEntries
  <2>2. x \in Replacements(c)
    BY <1>1 DEF Replacements
  <2> QED BY <1>1, <1>3, <2>1, <2>2, NavigationEntry
<1>6. PICK p : p = Put(e, c, x)
  OBVIOUS
<1>7. /\ p \in Partial /\ DOMAIN p \subseteq DOMAIN e \cup {c} /\ p[c] = x
      /\ \A d \in DOMAIN p \ {c} : p[d] = e[d]
  BY <1>2, <1>4, <1>5, <1>6, PutEntries
<1>8. /\ Framed(p, parents, holder') /\ Bounded(p, fresh + 1)
      /\ holder' \in [Contexts -> Nat]
      /\ \A d \in Contexts : holder'[d] <= fresh /\ (holder'[d] # 0 => holder'[d] = holder[d])
  <2>1. /\ holder' = IF c \in DOMAIN e THEN holder ELSE [holder EXCEPT ![c] = 0]
        /\ holder' \in [Contexts -> Nat]
        /\ \A d \in Contexts : holder'[d] <= fresh /\ (holder'[d] # 0 => holder'[d] = holder[d])
    BY <1>1, <1>2, <1>3, StrayedKeeps
  <2> QED BY <1>1, <1>2, <1>4, <1>5, <1>6, <2>1, PutFrames
<1>9. PICK s : s = [id |-> fresh + 1, entries |-> p]
  OBVIOUS
<1>10. s \in Step /\ s.id = fresh + 1 /\ s.entries = p
  BY <1>2, <1>7, <1>9 DEF Step
<1>11. /\ steps' \in Seq(Step) /\ Len(steps') = current + 1
       /\ DOMAIN steps' = 1..(current + 1) /\ steps'[current + 1] = s
       /\ \A i \in 1..current : steps'[i] = steps[i] /\ i \in DOMAIN steps
  <2>1. steps' = Append(SubSeq(steps, 1, current), s)
    BY <1>1, <1>3, <1>6, <1>9
  <2>2. /\ SubSeq(steps, 1, current) \in Seq(Step) /\ Len(SubSeq(steps, 1, current)) = current
        /\ \A i \in 1..current : SubSeq(steps, 1, current)[i] = steps[i] /\ i \in DOMAIN steps
    BY <1>2
  <2> QED BY <1>2, <1>10, <2>1, <2>2
<1>12. ASSUME NEW i \in DOMAIN steps' PROVE (i \in 1..current) \/ i = current + 1
  BY <1>2, <1>11
<1>13. Sized'
  <2>1. planned \in 0..MaxPlans
    BY DEF Sized, HistoryInv
  <2>2. current + 1 \in 1..(current + 1) /\ current + 1 \in 1..MaxSteps
    BY <1>1, <1>2
  <2>3. fresh + 1 \in 1..MaxFresh /\ fresh + 1 \in 1..(fresh + 1)
    BY <1>1, <1>2
  <2> QED BY <1>1, <1>11, <2>1, <2>2, <2>3 DEF Sized
<1>14. TreeOK' /\ HolderOK'
  BY <1>1, <1>2, <1>8 DEF TreeOK, HolderOK
<1>15. ASSUME NEW i \in DOMAIN steps' PROVE StepOK(steps'[i], parents, holder', fresh + 1)
  <2>1. CASE i = current + 1
    BY <1>2, <1>8, <1>10, <1>11, <2>1 DEF StepOK
  <2>2. CASE i \in 1..current
    <3>1. StepOK(steps[i], parents, holder, fresh)
      BY <1>11, <2>2 DEF HistoryInv, StepsOK
    <3> QED BY <1>2, <1>8, <1>11, <2>2, <3>1, StepGrows DEF TreeOK
  <2> QED BY <1>12, <2>1, <2>2
<1>16. ASSUME NEW i \in DOMAIN steps', NEW j \in DOMAIN steps'
       PROVE  /\ Agree(steps'[i].entries, steps'[j].entries)
              /\ steps'[i].id = steps'[j].id => i = j
  <2>1. ASSUME NEW k \in 1..current
        PROVE  /\ Agree(steps[k].entries, p) /\ Agree(p, steps[k].entries)
               /\ steps[k].id \in 1..fresh /\ k \in DOMAIN steps
    <3>1. k \in DOMAIN steps
      BY <1>11
    <3>2. /\ Agree(steps[k].entries, e) /\ Agree(e, steps[k].entries)
          /\ Bounded(steps[k].entries, fresh) /\ steps[k].id \in 1..fresh
      BY <1>2, <1>3, <3>1, StepFacts DEF HistoryInv, PairsOK
    <3>3. \A d \in DOMAIN steps[k].entries : steps[k].entries[d].key # fresh + 1
      BY <1>2, <3>2 DEF Bounded
    <3> QED BY <1>5, <1>7, <3>1, <3>2, <3>3 DEF Agree
  <2>2. CASE i = current + 1 /\ j = current + 1
    BY <2>2 DEF Agree
  <2>3. CASE i = current + 1 /\ j \in 1..current
    BY <1>2, <1>10, <1>11, <2>1, <2>3
  <2>4. CASE i \in 1..current /\ j = current + 1
    BY <1>2, <1>10, <1>11, <2>1, <2>4
  <2>5. CASE i \in 1..current /\ j \in 1..current
    BY <1>11, <2>1, <2>5 DEF HistoryInv, PairsOK
  <2> QED BY <1>12, <2>2, <2>3, <2>4, <2>5
<1> QED BY <1>1, <1>13, <1>14, <1>15, <1>16 DEF HistoryInv, StepsOK, PairsOK

\* Rewriting the steps of a timeline in place.
LEMMA Rewritten ==
    ASSUME NEW S, NEW s \in Seq(S), NEW t \in [DOMAIN s -> S]
    PROVE  t \in Seq(S) /\ DOMAIN t = DOMAIN s /\ Len(t) = Len(s)
<1>1. DOMAIN s = 1..Len(s) /\ Len(s) \in Nat
  OBVIOUS
<1>2. t \in [1..Len(s) -> S]
  BY <1>1
<1> QED BY <1>1, <1>2

\* replace: the steps that hold the replaced entry held the same document, so
\* each of them loses the same frames, and none keeps the old key.
LEMMA ReplaceKeeps ==
    ASSUME HistoryInv, NEW c \in Contexts, NEW x, Replace(c, x)
    PROVE  HistoryInv'
<1>3. PICK e : e = steps[current].entries
  OBVIOUS
<1>1. /\ fresh < MaxFresh
      /\ x \in Replacements(c)
      /\ fresh' = fresh + 1 /\ revision' = fresh + 1
      /\ holder' = Strayed(c) /\ UNCHANGED <<current, parents, planned>>
  BY <1>3 DEF Replace, Entries
<1>2. /\ steps \in Seq(Step) /\ current \in DOMAIN steps
      /\ fresh \in Nat /\ fresh >= 1 /\ MaxFresh \in Nat
      /\ TreeOK /\ HolderOK
  BY HistoryAssumption DEF HistoryInv, Sized
<1>4. PICK k : k = IF c \in DOMAIN e THEN e[c].key ELSE 0
  OBVIOUS
<1>5. /\ x \in Entry /\ x.key \in 1..(fresh + 1) /\ (x.key = fresh + 1 \/ x.key = k)
      /\ x.document = fresh + 1 \/ (c \in DOMAIN e /\ x.document = e[c].document)
  BY <1>1, <1>3, <1>4, NavigationEntry
<1> DEFINE Hit(i) == i = current \/ (c \in DOMAIN steps[i].entries /\ steps[i].entries[c].key = k)
           New(i) == [steps[i] EXCEPT !.entries = Put(steps[i].entries, c, x)]
<1>0. \A i \in DOMAIN steps : c \in DOMAIN steps[i].entries => steps[i].entries[c].key \in 1..fresh
  BY StepFacts DEF Bounded
<1>6. steps' = [i \in DOMAIN steps |-> IF Hit(i) THEN New(i) ELSE steps[i]]
  <2>1. steps' = [i \in DOMAIN steps |->
                    IF i = current \/ (Has(c) /\ At(steps[i].entries, c).key = Entries[c].key)
                    THEN New(i) ELSE steps[i]]
    BY DEF Replace
  <2>2. ASSUME NEW i \in DOMAIN steps
        PROVE  (Has(c) /\ At(steps[i].entries, c).key = Entries[c].key) <=>
               (c \in DOMAIN steps[i].entries /\ steps[i].entries[c].key = k)
    <3>1. CASE c \in DOMAIN e
      BY <1>0, <1>2, <1>3, <1>4, <3>1 DEF Has, Entries, At, NoEntry
    <3>2. CASE c \notin DOMAIN e
      BY <1>0, <1>3, <1>4, <3>2 DEF Has, Entries
    <3> QED BY <3>1, <3>2
  <2> QED BY <2>1, <2>2
<1>16. /\ holder' = IF c \in DOMAIN e THEN holder ELSE [holder EXCEPT ![c] = 0]
       /\ holder' \in [Contexts -> Nat]
       /\ \A d \in Contexts : holder'[d] <= fresh /\ (holder'[d] # 0 => holder'[d] = holder[d])
  BY <1>1, <1>2, <1>3, StrayedKeeps
<1>7. ASSUME NEW i \in DOMAIN steps, Hit(i)
      PROVE  /\ New(i) \in Step /\ New(i).id = steps[i].id
             /\ StepOK(New(i), parents, holder', fresh + 1)
             /\ DOMAIN New(i).entries \subseteq DOMAIN steps[i].entries \cup {c}
             /\ New(i).entries[c] = x
             /\ \A d \in DOMAIN New(i).entries \ {c} : New(i).entries[d] = steps[i].entries[d]
  <2>1. /\ steps[i] \in Step /\ steps[i].id \in 1..fresh
        /\ steps[i].entries \in Partial /\ Framed(steps[i].entries, parents, holder)
        /\ Bounded(steps[i].entries, fresh)
    BY StepFacts
  <2>2. /\ c \in DOMAIN e <=> c \in DOMAIN steps[i].entries
        /\ c \in DOMAIN e => steps[i].entries[c] = e[c]
    <3>1. CASE c \in DOMAIN e
      BY <1>2, <1>3, <1>4, <1>7, <3>1 DEF HistoryInv, PairsOK, Agree
    <3>2. CASE c \notin DOMAIN e
      BY <1>0, <1>2, <1>3, <1>4, <1>7, <3>2
    <3> QED BY <3>1, <3>2
  <2>3. PICK p : p = Put(steps[i].entries, c, x)
    OBVIOUS
  <2>4. /\ p \in Partial /\ DOMAIN p \subseteq DOMAIN steps[i].entries \cup {c} /\ p[c] = x
        /\ \A d \in DOMAIN p \ {c} : p[d] = steps[i].entries[d]
    BY <1>2, <1>5, <2>1, <2>3, PutEntries
  <2>5. /\ \/ x.document = fresh + 1
           \/ c \in DOMAIN steps[i].entries /\ x.document = steps[i].entries[c].document
        /\ holder' = IF c \in DOMAIN steps[i].entries THEN holder ELSE [holder EXCEPT ![c] = 0]
    BY <1>5, <1>16, <2>2
  <2>6. Framed(p, parents, holder') /\ Bounded(p, fresh + 1)
    BY <1>2, <1>5, <2>1, <2>3, <2>5, PutFrames
  <2>7. New(i) \in Step /\ New(i).id = steps[i].id /\ New(i).entries = p
    BY <2>1, <2>3, <2>4 DEF Step
  <2>8. New(i).id \in 1..(fresh + 1)
    BY <1>2, <2>1, <2>7
  <2> HIDE DEF New
  <2> QED BY <2>4, <2>6, <2>7, <2>8 DEF StepOK
<1> HIDE DEF New
<1>8. ASSUME NEW i \in DOMAIN steps
      PROVE  /\ steps'[i] = IF Hit(i) THEN New(i) ELSE steps[i]
             /\ steps'[i] \in Step /\ steps'[i].id = steps[i].id
             /\ StepOK(steps'[i], parents, holder', fresh + 1)
  <2>1. steps'[i] = IF Hit(i) THEN New(i) ELSE steps[i]
    BY <1>6
  <2>2. CASE Hit(i)
    BY <1>7, <2>1, <2>2
  <2>3. CASE ~Hit(i)
    <3>1. StepOK(steps[i], parents, holder, fresh) /\ steps[i] \in Step
      BY StepFacts DEF HistoryInv, StepsOK
    <3>2. StepOK(steps[i], parents, holder', fresh + 1)
      BY <1>2, <1>16, <3>1, StepGrows DEF TreeOK
    <3> HIDE DEF Hit
    <3> QED BY <2>1, <2>3, <3>1, <3>2
  <2> QED BY <2>1, <2>2, <2>3
<1>9. steps' \in Seq(Step) /\ DOMAIN steps' = DOMAIN steps /\ Len(steps') = Len(steps)
  <2>1. steps' \in [DOMAIN steps -> Step]
    BY <1>6, <1>8
  <2> QED BY <1>2, <2>1, Rewritten
<1>10. Sized'
  BY <1>1, <1>2, <1>9 DEF Sized, HistoryInv
<1>11. TreeOK' /\ HolderOK'
  BY <1>1, <1>2, <1>16 DEF TreeOK, HolderOK
<1>12. StepsOK'
  BY <1>1, <1>8, <1>9 DEF StepsOK
<1>13. ASSUME NEW i \in DOMAIN steps, NEW j \in DOMAIN steps
       PROVE  Agree(steps'[i].entries, steps'[j].entries)
  <2>1. SUFFICES ASSUME NEW d \in DOMAIN steps'[i].entries \cap DOMAIN steps'[j].entries,
                        steps'[i].entries[d].key = steps'[j].entries[d].key
                 PROVE  steps'[i].entries[d] = steps'[j].entries[d]
    BY DEF Agree
  <2>2. Agree(steps[i].entries, steps[j].entries)
    BY DEF HistoryInv, PairsOK
  <2>3. ASSUME NEW m \in DOMAIN steps, d \in DOMAIN steps'[m].entries
        PROVE  /\ d # c => d \in DOMAIN steps[m].entries /\ steps'[m].entries[d] = steps[m].entries[d]
               /\ d = c => IF Hit(m) THEN steps'[m].entries[d] = x
                           ELSE /\ steps'[m].entries[d] = steps[m].entries[d]
                                /\ c \in DOMAIN steps[m].entries
                                /\ steps[m].entries[c].key # k
                                /\ steps[m].entries[c].key \in 1..fresh
    <3>1. CASE Hit(m)
      <4>1. steps'[m] = New(m)
        BY <1>8, <3>1
      <4> QED BY <1>7, <2>3, <3>1, <4>1
    <3>2. CASE ~Hit(m)
      <4>1. steps'[m] = steps[m]
        BY <1>8, <3>2
      <4>2. Bounded(steps[m].entries, fresh)
        BY StepFacts
      <4> QED BY <2>3, <3>2, <4>1, <4>2 DEF Bounded
    <3> QED BY <3>1, <3>2
  <2>4. CASE d # c
    BY <2>1, <2>2, <2>3, <2>4 DEF Agree
  <2>5. CASE d = c /\ Hit(i) /\ Hit(j)
    BY <2>1, <2>3, <2>5
  <2>6. CASE d = c /\ ~Hit(i) /\ ~Hit(j)
    BY <2>1, <2>2, <2>3, <2>6 DEF Agree
  <2>7. CASE d = c /\ Hit(i) /\ ~Hit(j)
    <3>1. steps'[i].entries[d] = x
      BY <2>1, <2>3, <2>7
    <3>2. steps'[j].entries[d].key # k /\ steps'[j].entries[d].key \in 1..fresh
      BY <2>1, <2>3, <2>7
    <3> QED BY <1>2, <1>5, <2>1, <3>1, <3>2
  <2>8. CASE d = c /\ ~Hit(i) /\ Hit(j)
    <3>1. steps'[j].entries[d] = x
      BY <2>1, <2>3, <2>8
    <3>2. steps'[i].entries[d].key # k /\ steps'[i].entries[d].key \in 1..fresh
      BY <2>1, <2>3, <2>8
    <3> QED BY <1>2, <1>5, <2>1, <3>1, <3>2
  <2> QED BY <2>4, <2>5, <2>6, <2>7, <2>8
<1>14. PairsOK'
  BY <1>8, <1>9, <1>13 DEF PairsOK, HistoryInv
<1> QED BY <1>10, <1>11, <1>12, <1>14 DEF HistoryInv

\* Where attach puts an initial document.
LEMMA AttachPlaces ==
    ASSUME HistoryInv, NEW c \in Contexts, ~Has(c)
    PROVE  /\ AttachedAt(c) \subseteq DOMAIN steps
           /\ \A i \in AttachedAt(c) : c \notin DOMAIN steps[i].entries
           /\ HoldingDocument(c) \in 0..fresh
           /\ c # Root /\ ShownAt(c) = {} /\ HoldingDocument(c) # 0
              => \A i \in DOMAIN steps :
                    i \in AttachedAt(c) <=>
                    At(steps[i].entries, ParentOf[c]).document = HoldingDocument(c)
<1>1. current \in DOMAIN steps /\ fresh \in Nat /\ fresh >= 1
  BY DEF HistoryInv, Sized
<1>2. HoldingDocument(c) \in 0..fresh
  <2>1. Bounded(steps[current].entries, fresh)
    BY <1>1, StepFacts
  <2> QED BY <1>1, <2>1 DEF HoldingDocument, At, NoEntry, Entries, Bounded
<1>3. ASSUME c # Root, ShownAt(c) = {}, HoldingDocument(c) # 0, NEW i \in DOMAIN steps
      PROVE  i \in AttachedAt(c) <=>
             At(steps[i].entries, ParentOf[c]).document = HoldingDocument(c)
  <2>1. At(steps[current].entries, ParentOf[c]).document = HoldingDocument(c)
    BY <1>3 DEF HoldingDocument, Entries
  <2>2. c \notin DOMAIN steps[i].entries
    BY <1>3 DEF ShownAt
  <2> QED BY <1>3, <2>1, <2>2 DEF AttachedAt
<1>4. /\ AttachedAt(c) \subseteq DOMAIN steps
      /\ \A i \in AttachedAt(c) : c \notin DOMAIN steps[i].entries
  BY DEF AttachedAt
<1> QED BY <1>2, <1>3, <1>4

\* attach: a frame is put into exactly the steps of the document that holds it,
\* and a main document that comes late holds the frames that are where it is.
LEMMA AttachKeeps ==
    ASSUME HistoryInv, NEW c \in Contexts, Attach(c)
    PROVE  HistoryInv'
<1> DEFINE x == [key |-> fresh + 1, document |-> fresh + 1]
           H == HoldingDocument(c)
           New(i) == [steps[i] EXCEPT !.entries = With(steps[i].entries, c, x)]
<1>0. PICK A : A = AttachedAt(c)
  OBVIOUS
<1>1. /\ ~Has(c) /\ fresh < MaxFresh /\ fresh' = fresh + 1
      /\ parents' = parents \cup ({c} \ {Root})
      /\ holder' = [d \in Contexts |->
                       IF d = c THEN (IF ShownAt(c) = {} THEN H ELSE 0)
                       ELSE IF d \in parents /\ ParentOf[d] = c /\ ShownAt(d) = A
                            THEN fresh + 1 ELSE holder[d]]
      /\ UNCHANGED <<current, revision, planned>>
      /\ steps' = [i \in DOMAIN steps |-> IF i \in A THEN New(i) ELSE steps[i]]
  BY <1>0 DEF Attach
<1>2. /\ steps \in Seq(Step) /\ current \in DOMAIN steps
      /\ fresh \in Nat /\ fresh >= 1 /\ MaxFresh \in Nat
      /\ TreeOK /\ HolderOK
  BY HistoryAssumption DEF HistoryInv, Sized
<1>3. /\ A \subseteq DOMAIN steps /\ H \in 0..fresh
      /\ \A i \in A : c \notin DOMAIN steps[i].entries
      /\ c # Root /\ ShownAt(c) = {} /\ H # 0
         => \A i \in DOMAIN steps :
               i \in A <=> At(steps[i].entries, ParentOf[c]).document = H
  BY <1>0, <1>1, AttachPlaces
<1>4. c # Root => ParentOf[c] # c
  <2>1. ASSUME c # Root PROVE {c} \in SUBSET (Contexts \ {Root}) /\ {c} # {}
    BY <2>1
  <2> QED BY <2>1, HistoryAssumption
<1>5. x \in Entry /\ x.key = fresh + 1 /\ x.document = fresh + 1
  BY <1>2 DEF Entry
<1> HIDE DEF x, H
<1>6. /\ holder' \in [Contexts -> Nat] /\ \A d \in Contexts : holder'[d] <= fresh + 1
  <2>1. \A d \in Contexts : holder[d] \in Nat /\ holder[d] <= fresh
    BY <1>2 DEF HolderOK
  <2>2. ASSUME NEW d \in Contexts PROVE holder'[d] \in Nat /\ holder'[d] <= fresh + 1
    BY <1>1, <1>2, <1>3, <2>1
  <2> QED BY <1>1, <2>2
<1>7. ASSUME NEW i \in DOMAIN steps, i \in A
      PROVE  /\ New(i) \in Step /\ New(i).id = steps[i].id
             /\ DOMAIN New(i).entries = DOMAIN steps[i].entries \cup {c}
             /\ New(i).entries[c] = x
             /\ \A d \in DOMAIN steps[i].entries : New(i).entries[d] = steps[i].entries[d]
  <2>1. /\ steps[i] \in Step /\ steps[i].entries \in Partial
    BY StepFacts
  <2>2. PICK p : p = With(steps[i].entries, c, x)
    OBVIOUS
  <2>3. /\ DOMAIN p = DOMAIN steps[i].entries \cup {c} /\ p[c] = x
        /\ \A d \in DOMAIN steps[i].entries : p[d] = steps[i].entries[d]
    BY <1>3, <1>7, <2>2 DEF With
  <2>4. p \in Partial
    <3>1. DOMAIN steps[i].entries \subseteq Contexts /\ \A d \in DOMAIN steps[i].entries :
             steps[i].entries[d] \in Entry
      BY <2>1, PartialDef
    <3>2. p \in [DOMAIN p -> Entry]
      BY <1>5, <2>2, <2>3, <3>1 DEF With
    <3> QED BY <2>3, <3>1, <3>2, PartialDef
  <2>5. New(i) \in Step /\ New(i).id = steps[i].id /\ New(i).entries = p
    BY <2>1, <2>2, <2>4 DEF Step
  <2> QED BY <2>3, <2>5
<1> HIDE DEF New
<1>8. ASSUME NEW i \in DOMAIN steps
      PROVE  /\ steps'[i] = IF i \in A THEN New(i) ELSE steps[i]
             /\ steps'[i] \in Step /\ steps'[i].id = steps[i].id
             /\ DOMAIN steps'[i].entries = DOMAIN steps[i].entries \cup (IF i \in A THEN {c} ELSE {})
             /\ \A d \in DOMAIN steps[i].entries : steps'[i].entries[d] = steps[i].entries[d]
             /\ i \in A => steps'[i].entries[c] = x
  <2>1. steps'[i] = IF i \in A THEN New(i) ELSE steps[i]
    BY <1>1
  <2>2. CASE i \in A
    BY <1>7, <2>1, <2>2
  <2>3. CASE i \notin A
    BY <2>1, <2>3, StepFacts
  <2> QED BY <2>1, <2>2, <2>3
<1>9. steps' \in Seq(Step) /\ DOMAIN steps' = DOMAIN steps /\ Len(steps') = Len(steps)
  <2>1. steps' \in [DOMAIN steps -> Step]
    BY <1>1, <1>8
  <2> QED BY <1>2, <2>1, Rewritten
<1>10. Sized'
  BY <1>1, <1>2, <1>9 DEF Sized, HistoryInv
<1>11. TreeOK' /\ HolderOK'
  BY <1>1, <1>2, <1>6 DEF TreeOK, HolderOK
<1>12. ASSUME NEW i \in DOMAIN steps PROVE StepOK(steps'[i], parents', holder', fresh')
  <2>1. PICK e : e = steps[i].entries
    OBVIOUS
  <2>2. PICK p : p = steps'[i].entries
    OBVIOUS
  <2>3. /\ e \in Partial /\ DOMAIN e \subseteq Contexts /\ Framed(e, parents, holder)
        /\ Bounded(e, fresh) /\ steps[i].id \in 1..fresh /\ (i \in A => c \notin DOMAIN e)
    BY <1>3, <2>1, StepFacts, PartialDef
  <2>4. /\ DOMAIN p = DOMAIN e \cup (IF i \in A THEN {c} ELSE {})
        /\ \A d \in DOMAIN e : p[d] = e[d]
        /\ i \in A => p[c] = x
    BY <1>8, <2>1, <2>2
  <2>5. /\ \A d \in Contexts \ {c} : At(p, d) = At(e, d)
        /\ At(p, c) = IF i \in A THEN x ELSE At(e, c)
    BY <2>4 DEF At
  <2>6. ASSUME NEW d \in parents', holder'[d] # 0
        PROVE  d \in DOMAIN p <=> At(p, ParentOf[d]).document = holder'[d]
    <3>0. d \in Contexts \ {Root} /\ ParentOf[d] \in Contexts
      BY <1>1, <1>2, HistoryAssumption DEF TreeOK
    <3>1. CASE d = c
      <4>1. ShownAt(c) = {} /\ holder'[c] = H /\ H # 0
        BY <1>1, <2>6, <3>1
      <4>2. At(p, ParentOf[c]) = At(e, ParentOf[c])
        BY <1>4, <2>5, <3>0, <3>1
      <4>3. c \notin DOMAIN e
        BY <2>1, <4>1 DEF ShownAt
      <4> QED BY <1>3, <2>1, <2>4, <3>0, <3>1, <4>1, <4>2, <4>3
    <3>2. CASE d # c /\ ParentOf[d] = c /\ ShownAt(d) = A
      <4>1. d \in parents /\ holder'[d] = fresh + 1
        BY <1>1, <3>0, <3>2
      <4>2. d \in DOMAIN p <=> i \in A
        BY <2>1, <2>4, <3>2 DEF ShownAt
      <4>3. At(e, c).document # fresh + 1
        BY <1>2, <2>3 DEF At, NoEntry, Bounded
      <4> QED BY <1>5, <2>5, <3>2, <4>1, <4>2, <4>3
    <3>3. CASE d # c /\ ~(ParentOf[d] = c /\ ShownAt(d) = A)
      <4>1. d \in parents /\ holder'[d] = holder[d]
        BY <1>1, <3>0, <3>3
      <4>2. /\ d \in DOMAIN e <=> At(e, ParentOf[d]).document = holder[d]
            /\ d \in DOMAIN p <=> d \in DOMAIN e
            /\ holder[d] # 0 /\ holder[d] <= fresh /\ holder[d] \in Nat
        BY <1>2, <2>3, <2>4, <2>6, <3>0, <3>3, <4>1 DEF Framed, HolderOK
      <4>3. CASE ParentOf[d] = c /\ i \in A
        <5>1. At(e, c).document = 0 /\ At(p, c).document = fresh + 1
          BY <1>5, <2>3, <2>5, <4>3 DEF At, NoEntry
        <5> QED BY <1>2, <4>1, <4>2, <4>3, <5>1
      <4>4. CASE ~(ParentOf[d] = c /\ i \in A)
        BY <2>5, <3>0, <4>1, <4>2, <4>4
      <4> QED BY <4>3, <4>4
    <3> QED BY <3>1, <3>2, <3>3
  <2>7. Framed(p, parents', holder')
    BY <2>6 DEF Framed
  <2>8. Bounded(p, fresh')
    <3>1. SUFFICES ASSUME NEW d \in DOMAIN p
                   PROVE  p[d].key \in 1..(fresh + 1) /\ p[d].document \in 1..(fresh + 1)
      BY <1>1 DEF Bounded
    <3>2. CASE d \in DOMAIN e
      BY <1>2, <2>3, <2>4, <3>2 DEF Bounded
    <3>3. CASE d \notin DOMAIN e
      BY <1>2, <1>5, <2>4, <3>3
    <3> QED BY <3>2, <3>3
  <2> QED BY <1>1, <1>2, <1>8, <2>2, <2>3, <2>7, <2>8 DEF StepOK
<1>13. ASSUME NEW i \in DOMAIN steps, NEW j \in DOMAIN steps
       PROVE  /\ Agree(steps'[i].entries, steps'[j].entries)
              /\ steps'[i].id = steps'[j].id => i = j
  <2>1. Agree(steps[i].entries, steps[j].entries) /\ (steps[i].id = steps[j].id => i = j)
    BY DEF HistoryInv, PairsOK
  <2>2. /\ \A d \in DOMAIN steps[i].entries : steps[i].entries[d].key # fresh + 1
        /\ \A d \in DOMAIN steps[j].entries : steps[j].entries[d].key # fresh + 1
    BY <1>2, StepFacts DEF Bounded
  <2> QED BY <1>3, <1>5, <1>8, <2>1, <2>2 DEF Agree
<1> QED BY <1>9, <1>10, <1>11, <1>12, <1>13 DEF HistoryInv, StepsOK, PairsOK

\* install_session_history_position: only the live document's entry is left.
LEMMA InstallKeeps ==
    ASSUME HistoryInv, NEW n \in 1..MaxOpaque, NEW i \in 1..n, InstallPosition(n, i)
    PROVE  HistoryInv'
<1>1. PICK e : e = [c \in DOMAIN Entries \cap {Root} |-> Entries[c]]
  OBVIOUS
<1>2. PICK old : old = Opaque(n, fresh)
  OBVIOUS
<1>3. /\ fresh + n <= MaxFresh /\ current' = i /\ fresh' = fresh + n /\ revision' = fresh + n
      /\ parents' = {} /\ holder' = [c \in Contexts |-> 0] /\ planned' = planned
      /\ steps' = [old EXCEPT ![i].entries = e]
  BY <1>1, <1>2 DEF InstallPosition
<1>4. /\ current \in DOMAIN steps /\ fresh \in Nat /\ fresh >= 1 /\ MaxFresh \in Nat
      /\ MaxSteps \in Nat \ {0} /\ MaxOpaque \in 1..MaxSteps /\ n \in Nat \ {0}
      /\ planned \in 0..MaxPlans
  BY HistoryAssumption DEF HistoryInv, Sized
<1>5. /\ old \in Seq(Step) /\ Len(old) = n /\ DOMAIN old = 1..n
      /\ \A j \in 1..n : /\ old[j] \in Step /\ old[j].id = fresh + j
                         /\ DOMAIN old[j].entries = {}
  BY <1>2, <1>4, OpaqueSteps
<1>6. e \in Partial /\ Bounded(e, fresh)
  <2>1. Entries \in Partial /\ Bounded(Entries, fresh)
    BY <1>4, StepFacts DEF Entries
  <2>2. DOMAIN Entries \subseteq Contexts /\ Entries \in [DOMAIN Entries -> Entry]
    BY <2>1, PartialDef
  <2>3. DOMAIN e \subseteq DOMAIN Entries /\ \A c \in DOMAIN e : e[c] = Entries[c]
    BY <1>1
  <2>4. e \in [DOMAIN e -> Entry]
    BY <1>1, <2>2, <2>3
  <2> QED BY <2>1, <2>2, <2>3, <2>4, PartialDef DEF Bounded
<1>7. ASSUME NEW j \in 1..n
      PROVE  /\ steps'[j] \in Step /\ steps'[j].id = fresh + j
             /\ steps'[j].entries = IF j = i THEN e ELSE old[j].entries
             /\ j # i => DOMAIN steps'[j].entries = {}
  <2>1. CASE j = i
    <3>1. steps'[j] = [old[j] EXCEPT !.entries = e]
      BY <1>3, <1>5, <2>1
    <3> QED BY <1>5, <1>6, <2>1, <3>1 DEF Step
  <2>2. CASE j # i
    BY <1>3, <1>5, <2>2
  <2> QED BY <2>1, <2>2
<1>8. steps' \in Seq(Step) /\ DOMAIN steps' = 1..n /\ Len(steps') = n
  <2>1. steps' \in [DOMAIN old -> Step] /\ DOMAIN steps' = 1..n
    BY <1>3, <1>5, <1>7
  <2> QED BY <1>5, <2>1, Rewritten
<1>9. Sized'
  BY <1>3, <1>4, <1>8 DEF Sized
<1>10. TreeOK' /\ HolderOK'
  BY <1>3, <1>4 DEF TreeOK, HolderOK
<1>11. ASSUME NEW j \in 1..n PROVE StepOK(steps'[j], parents', holder', fresh')
  <2>1. Bounded(steps'[j].entries, fresh')
    BY <1>3, <1>4, <1>6, <1>7 DEF Bounded
  <2>2. Framed(steps'[j].entries, parents', holder')
    BY <1>3 DEF Framed
  <2> QED BY <1>3, <1>4, <1>7, <2>1, <2>2 DEF StepOK
<1>12. ASSUME NEW j \in 1..n, NEW k \in 1..n
       PROVE  /\ Agree(steps'[j].entries, steps'[k].entries)
              /\ steps'[j].id = steps'[k].id => j = k
  BY <1>4, <1>7 DEF Agree
<1> QED BY <1>8, <1>9, <1>10, <1>11, <1>12 DEF HistoryInv, StepsOK, PairsOK

\* detach: with a context goes everything recorded under it, from every step.
LEMMA DetachKeeps ==
    ASSUME HistoryInv, NEW c \in Contexts \ {Root}, Detach(c)
    PROVE  HistoryInv'
<1> DEFINE R == Descendants(c) \cup {c}
           New(i) == [steps[i] EXCEPT !.entries = Without(steps[i].entries, R)]
<1>1. /\ steps' = [i \in DOMAIN steps |-> New(i)] /\ parents' = parents \ R
      /\ UNCHANGED <<current, revision, holder, fresh, planned>>
  BY DEF Detach
<1>2. /\ steps \in Seq(Step) /\ current \in DOMAIN steps /\ TreeOK /\ HolderOK
  BY DEF HistoryInv, Sized
<1>3. \A d \in parents : ParentOf[d] \in R => d \in R
  BY <1>2, DescendantsUnfold DEF TreeOK
<1>4. ASSUME NEW i \in DOMAIN steps
      PROVE  /\ New(i) \in Step /\ New(i).id = steps[i].id
             /\ DOMAIN New(i).entries = DOMAIN steps[i].entries \ R
             /\ \A d \in DOMAIN New(i).entries : New(i).entries[d] = steps[i].entries[d]
  <2>1. /\ steps[i] \in Step /\ steps[i].entries \in Partial
    BY StepFacts
  <2>2. PICK p : p = Without(steps[i].entries, R)
    OBVIOUS
  <2>3. /\ DOMAIN p = DOMAIN steps[i].entries \ R
        /\ \A d \in DOMAIN p : p[d] = steps[i].entries[d]
    BY <2>2 DEF Without
  <2>4. p \in Partial
    <3>1. DOMAIN steps[i].entries \subseteq Contexts /\ \A d \in DOMAIN steps[i].entries :
             steps[i].entries[d] \in Entry
      BY <2>1, PartialDef
    <3>2. p \in [DOMAIN p -> Entry]
      BY <2>2, <2>3, <3>1 DEF Without
    <3> QED BY <2>3, <3>1, <3>2, PartialDef
  <2>5. New(i) \in Step /\ New(i).id = steps[i].id /\ New(i).entries = p
    BY <2>1, <2>2, <2>4 DEF Step
  <2> QED BY <2>3, <2>5
<1> HIDE DEF New, R
<1>5. ASSUME NEW i \in DOMAIN steps
      PROVE  /\ steps'[i] = New(i) /\ steps'[i] \in Step /\ steps'[i].id = steps[i].id
             /\ DOMAIN steps'[i].entries = DOMAIN steps[i].entries \ R
             /\ \A d \in DOMAIN steps'[i].entries : steps'[i].entries[d] = steps[i].entries[d]
  BY <1>1, <1>4
<1>6. steps' \in Seq(Step) /\ DOMAIN steps' = DOMAIN steps /\ Len(steps') = Len(steps)
  <2>1. steps' \in [DOMAIN steps -> Step]
    BY <1>1, <1>5
  <2> QED BY <1>2, <2>1, Rewritten
<1>7. Sized'
  BY <1>1, <1>2, <1>6 DEF Sized, HistoryInv
<1>8. TreeOK' /\ HolderOK'
  BY <1>1, <1>2, <1>3 DEF TreeOK, HolderOK
<1>9. ASSUME NEW i \in DOMAIN steps PROVE StepOK(steps'[i], parents', holder', fresh')
  <2>1. PICK e : e = steps[i].entries
    OBVIOUS
  <2>2. PICK p : p = steps'[i].entries
    OBVIOUS
  <2>3. /\ Framed(e, parents, holder) /\ Bounded(e, fresh) /\ steps[i].id \in 1..fresh
    BY <2>1, StepFacts
  <2>4. DOMAIN p = DOMAIN e \ R /\ \A d \in DOMAIN p : p[d] = e[d]
    BY <1>5, <2>1, <2>2
  <2>5. ASSUME NEW d \in parents', holder'[d] # 0
        PROVE  d \in DOMAIN p <=> At(p, ParentOf[d]).document = holder'[d]
    <3>1. d \in parents /\ d \notin R /\ ParentOf[d] \notin R
      BY <1>1, <1>3
    <3>2. At(p, ParentOf[d]) = At(e, ParentOf[d])
      BY <2>4, <3>1 DEF At
    <3> QED BY <1>1, <2>3, <2>4, <2>5, <3>1, <3>2 DEF Framed
  <2>6. Framed(p, parents', holder')
    BY <2>5 DEF Framed
  <2>7. Bounded(p, fresh')
    BY <1>1, <2>3, <2>4 DEF Bounded
  <2> QED BY <1>1, <1>5, <2>2, <2>3, <2>6, <2>7 DEF StepOK
<1>10. ASSUME NEW i \in DOMAIN steps, NEW j \in DOMAIN steps
       PROVE  /\ Agree(steps'[i].entries, steps'[j].entries)
              /\ steps'[i].id = steps'[j].id => i = j
  <2>1. Agree(steps[i].entries, steps[j].entries) /\ (steps[i].id = steps[j].id => i = j)
    BY DEF HistoryInv, PairsOK
  <2> QED BY <1>5, <2>1 DEF Agree
<1> QED BY <1>6, <1>7, <1>8, <1>9, <1>10 DEF HistoryInv, StepsOK, PairsOK

\* prune_all_but_current: one step is left, as it was.
LEMMA PruneKeeps ==
    ASSUME HistoryInv, PruneAllButCurrent
    PROVE  HistoryInv'
<1>1. /\ steps' = <<steps[current]>> /\ current' = 1 /\ fresh < MaxFresh
      /\ fresh' = fresh + 1 /\ revision' = fresh + 1
      /\ UNCHANGED <<parents, holder, planned>>
  BY DEF PruneAllButCurrent
<1>2. /\ current \in DOMAIN steps /\ fresh \in Nat /\ MaxFresh \in Nat /\ fresh >= 1
      /\ MaxSteps \in Nat \ {0} /\ TreeOK /\ HolderOK /\ planned \in 0..MaxPlans
  BY HistoryAssumption DEF HistoryInv, Sized
<1>3. steps[current] \in Step /\ StepOK(steps[current], parents, holder, fresh)
  BY <1>2, StepFacts DEF HistoryInv, StepsOK
<1>4. /\ steps' \in Seq(Step) /\ DOMAIN steps' = {1} /\ Len(steps') = 1
      /\ steps'[1] = steps[current]
  BY <1>1, <1>3
<1>5. StepOK(steps[current], parents, holder, fresh + 1)
  BY <1>2, <1>3, StepGrows
<1>6. Sized'
  BY <1>1, <1>2, <1>4 DEF Sized
<1>7. TreeOK' /\ HolderOK'
  BY <1>1, <1>2 DEF TreeOK, HolderOK
<1>8. StepsOK' /\ PairsOK'
  BY <1>1, <1>4, <1>5 DEF StepsOK, PairsOK, Agree
<1> QED BY <1>6, <1>7, <1>8 DEF HistoryInv

\* Planning, committing and stuttering leave the steps as they are.
LEMMA TraversalKeeps ==
    ASSUME HistoryInv, UNCHANGED <<steps, parents, holder>>,
           \/ UNCHANGED <<current, revision, fresh, planned>>
           \/ \E i \in DOMAIN steps : PlanTraversal(i)
           \/ \E plan \in plans : CommitTraversal(plan)
    PROVE  HistoryInv'
<1>1. /\ current \in DOMAIN steps /\ fresh \in Nat /\ MaxFresh \in Nat /\ fresh >= 1
      /\ fresh \in 1..MaxFresh /\ revision \in 1..fresh /\ MaxPlans \in Nat
      /\ planned \in 0..MaxPlans /\ TreeOK /\ HolderOK
  BY HistoryAssumption DEF HistoryInv, Sized
<1>2. /\ current' \in DOMAIN steps /\ fresh' \in 1..MaxFresh /\ revision' \in 1..fresh'
      /\ planned' \in 0..MaxPlans /\ fresh <= fresh' /\ fresh' \in Nat
  <2>1. CASE UNCHANGED <<current, revision, fresh, planned>>
    BY <1>1, <2>1
  <2>2. CASE \E i \in DOMAIN steps : PlanTraversal(i)
    <3>1. /\ planned < MaxPlans /\ planned' = planned + 1
          /\ UNCHANGED <<current, revision, fresh>>
      BY <2>2 DEF PlanTraversal, timeline
    <3> QED BY <1>1, <3>1
  <2>3. CASE \E plan \in plans : CommitTraversal(plan)
    <3>1. PICK plan \in plans : CommitTraversal(plan)
      BY <2>3
    <3>2. CASE IsTraversalPlanCurrent(plan)
      <4>1. /\ current' = CHOOSE i \in DOMAIN steps : steps[i].id = plan.target
            /\ fresh < MaxFresh /\ fresh' = fresh + 1 /\ revision' = fresh + 1
            /\ planned' = planned
        BY <3>1, <3>2 DEF CommitTraversal
      <4>2. \E i \in DOMAIN steps : steps[i].id = plan.target
        BY <3>2 DEF IsTraversalPlanCurrent
      <4>3. current' \in DOMAIN steps
        BY <4>1, <4>2
      <4> QED BY <1>1, <4>1, <4>3
    <3>3. CASE ~IsTraversalPlanCurrent(plan)
      <4>1. UNCHANGED <<current, revision, fresh, planned>>
        BY <3>1, <3>3 DEF CommitTraversal
      <4> QED BY <1>1, <4>1
    <3> QED BY <3>2, <3>3
  <2> QED BY <2>1, <2>2, <2>3
<1>3. Sized'
  BY <1>2 DEF HistoryInv, Sized
<1>4. TreeOK'
  BY <1>1 DEF TreeOK
<1>5. HolderOK'
  BY <1>1, <1>2 DEF HolderOK
<1>6. StepsOK'
  BY <1>1, <1>2, StepGrows DEF HistoryInv, StepsOK
<1>7. PairsOK'
  BY DEF HistoryInv, PairsOK
<1> QED BY <1>3, <1>4, <1>5, <1>6, <1>7 DEF HistoryInv

\* One step of the timeline, whichever.
LEMMA HistoryStep ==
    ASSUME HistoryInv, [HistoryNext]_historyVars
    PROVE  HistoryInv'
<1>1. CASE UNCHANGED historyVars
  BY <1>1, TraversalKeeps DEF historyVars, timeline
<1>2. CASE \E i \in DOMAIN steps : PlanTraversal(i)
  <2>1. UNCHANGED <<steps, parents, holder>>
    BY <1>2 DEF PlanTraversal, timeline
  <2> QED BY <1>2, <2>1, TraversalKeeps
<1>3. CASE \E plan \in plans : CommitTraversal(plan)
  <2>1. UNCHANGED <<steps, parents, holder>>
    BY <1>3 DEF CommitTraversal
  <2> QED BY <1>3, <2>1, TraversalKeeps
<1>4. CASE (\E c \in Contexts : Attach(c)) \/ (\E c \in Contexts \ {Root} : Detach(c))
  BY <1>4, AttachKeeps, DetachKeeps
<1>5. CASE \E c \in Contexts : \E x : Push(c, x) \/ Replace(c, x)
  BY <1>5, PushKeeps, ReplaceKeeps
<1>6. CASE PruneAllButCurrent
  BY <1>6, PruneKeeps
<1>7. CASE \E n \in 1..MaxOpaque : \E i \in 1..n : InstallPosition(n, i)
  BY <1>7, InstallKeeps
<1> QED BY <1>1, <1>2, <1>3, <1>4, <1>5, <1>6, <1>7 DEF HistoryNext

\* The inductive invariant of the timeline holds in every state.
THEOREM HistoryInvariant == HistorySpec => []HistoryInv
<1>1. HistoryInit => HistoryInv
  BY HistoryStart
<1>2. HistoryInv /\ [HistoryNext]_historyVars => HistoryInv'
  BY HistoryStep
<1> QED BY <1>1, <1>2, PTL DEF HistorySpec

\* A frame has an entry in exactly the steps where its parent shows the document
\* it was attached in, and a key names one entry of its context (attach, push,
\* replace, detach), for any contexts, whatever was traversed in between.
THEOREM FramesStayInDocuments ==
    HistorySpec => []FramesFollowDocuments
<1>1. HistoryInv => FramesFollowDocuments
  <2>1. SUFFICES ASSUME HistoryInv PROVE FramesFollowDocuments
    OBVIOUS
  <2>2. \A i \in DOMAIN steps : Framed(steps[i].entries, parents, holder)
    BY <2>1, StepFacts
  <2>3. HistoryTypeOK
    <3>1. \A i \in DOMAIN steps : DOMAIN steps[i].entries \subseteq Contexts
      BY <2>1, StepFacts, PartialDef
    <3> QED BY <2>1, <3>1 DEF HistoryInv, Sized, TreeOK, HistoryTypeOK
  <2>4. \A i, j \in DOMAIN steps : Agree(steps[i].entries, steps[j].entries)
    BY <2>1 DEF HistoryInv, PairsOK
  <2> QED BY <2>2, <2>3, <2>4 DEF FramesFollowDocuments, Framed, Agree
<1> QED BY <1>1, HistoryInvariant, PTL

\* A plan that disappears under a new revision is the one committed.
LEMMA CommitIsAdmitted ==
    ASSUME HistoryInv, [HistoryNext]_historyVars, NEW plan \in plans,
           plan \notin plans', revision' # revision
    PROVE  Changes(Entries, steps'[current'].entries) = plan.changes
<1>1. PICK p \in plans : CommitTraversal(p)
  BY DEF HistoryNext, InstallPosition, Attach, Detach, Push, Replace, PruneAllButCurrent, PlanTraversal,
         historyVars
<1>2. p = plan /\ IsTraversalPlanCurrent(plan)
  BY <1>1 DEF CommitTraversal
<1>3. /\ current' = CHOOSE i \in DOMAIN steps : steps[i].id = plan.target
      /\ steps' = steps
  BY <1>1, <1>2 DEF CommitTraversal
<1>4. PICK k \in DOMAIN steps : /\ steps[k].id = plan.target
                               /\ Changes(Entries, steps[k].entries) = plan.changes
  BY <1>2 DEF IsTraversalPlanCurrent
<1>5. current' \in DOMAIN steps /\ steps[current'].id = plan.target
  BY <1>3, <1>4
<1>6. current' = k
  BY <1>4, <1>5 DEF HistoryInv, PairsOK
<1> QED BY <1>3, <1>4, <1>6

\* A committed traversal moves every context exactly as the admitted plan said
\* (is_traversal_plan_current, commit_traversal), however many plans are out and
\* whatever happened since.
THEOREM CommitsFollowPlans ==
    HistorySpec => CommitsAsAdmitted
<1>1. HistoryInv /\ [HistoryNext]_historyVars =>
         [\A plan \in plans :
             plan \notin plans' /\ revision' # revision
             => Changes(Entries, steps'[current'].entries) = plan.changes]_historyVars
  BY CommitIsAdmitted
<1> QED BY <1>1, HistoryInvariant, PTL DEF HistorySpec, CommitsAsAdmitted
=============================================================================
