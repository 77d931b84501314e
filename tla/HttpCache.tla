------------------------------ MODULE HttpCache ------------------------------
(***************************************************************************)
(* One entry directory of the HTTP cache store (moli-http-cache), used by  *)
(* concurrent requests and processes without any lock: every step is one   *)
(* file-system operation.  Writers stream a body into a file with a unique *)
(* name and publish it by renaming metadata; lookups read the metadata,    *)
(* open the body it names and republish the metadata (touch on a hit,      *)
(* refresh after a 304); eviction, clear and remove_entry delete the       *)
(* directory file by file; any of them may crash between two steps.        *)
(*                                                                         *)
(* A body file is named by its writer.  Metadata is the name of its body:  *)
(* headers and times are left out, so touch and refresh coincide.          *)
(***************************************************************************)
EXTENDS Naturals, FiniteSets

CONSTANTS Writers,      \* body writers, each of one response
          Lookups,      \* cache lookups
          Removers,     \* removals of the whole entry (or its eviction)
          NoBody,
          MaxRepublish, \* bound: lookups that go on to touch or refresh
          MaxCrashes    \* bound: operations cut off by a crash

Actors == Writers \cup Lookups \cup Removers

ASSUME CacheAssumption ==
    /\ Writers \cap (Lookups \cup Removers) = {} /\ Lookups \cap Removers = {}
    /\ NoBody \notin Actors
    /\ IsFiniteSet(Actors)
    /\ MaxRepublish \in Nat /\ MaxCrashes \in Nat

VARIABLES
    dir,       \* whether the entry directory exists
    meta,      \* the body the published metadata names, or NoBody
    bodies,    \* body files in the directory
    temps,     \* temporary metadata files, named by the operation that owns each
    complete,  \* bodies whose writer has written and flushed everything
    pc,        \* where each operation is
    seen,      \* the body named by the metadata an operation has read
    doomed,    \* what a removal has listed and not deleted yet
    hit,       \* what a lookup returned: the body it opened, complete or not
    ended      \* operations that crashed

files == <<dir, meta, bodies, temps>>
vars == <<files, complete, pc, seen, doomed, hit, ended>>

MetaFile == [kind |-> "meta", of |-> NoBody]
BodyFile(w) == [kind |-> "body", of |-> w]
TempFile(a) == [kind |-> "temp", of |-> a]
Files == (IF meta = NoBody THEN {} ELSE {MetaFile})
         \cup {BodyFile(w) : w \in bodies} \cup {TempFile(a) : a \in temps}

NoHit == [body |-> NoBody, whole |-> TRUE]

Init ==
    /\ dir = FALSE /\ meta = NoBody /\ bodies = {} /\ temps = {}
    /\ complete = {}
    /\ pc = [a \in Actors |-> "idle"]
    /\ seen = [a \in Actors |-> NoBody]
    /\ doomed = [r \in Removers |-> {}]
    /\ hit = [r \in Lookups |-> NoHit]
    /\ ended = {}

Go(a, from, to) == a \notin ended /\ pc[a] = from /\ pc' = [pc EXCEPT ![a] = to]

-----------------------------------------------------------------------------
(* Writing and publishing a body.                                          *)

\* create_body_writer creates the directory, then a new file in it.
CreateDirectory(w) ==
    /\ Go(w, "idle", "create")
    /\ dir' = TRUE
    /\ UNCHANGED <<meta, bodies, temps, complete, seen, doomed, hit, ended>>

CreateBody(w) ==
    /\ \/ dir /\ Go(w, "create", "writing") /\ bodies' = bodies \cup {w}
       \/ ~dir /\ Go(w, "create", "done") /\ UNCHANGED bodies
    /\ UNCHANGED <<dir, meta, temps, complete, seen, doomed, hit, ended>>

\* The last write_all and the flush; a body over the store's limit, or an
\* abandoned response, drops the writer instead.
FlushBody(w) ==
    /\ Go(w, "writing", "finish")
    /\ complete' = complete \cup {w}
    /\ UNCHANGED <<files, seen, doomed, hit, ended>>

AbandonBody(w) ==
    /\ Go(w, "writing", "drop")
    /\ UNCHANGED <<files, complete, seen, doomed, hit, ended>>

\* Fault: metadata is published while the body is still being written.
ReadPublishedEarly(w) ==
    /\ \/ Go(w, "finish", "temp")
       \/ Go(w, "writing", "temp")
    /\ seen' = [seen EXCEPT ![w] = meta]
    /\ UNCHANGED <<files, complete, doomed, hit, ended>>

\* finish reads the name of the body it is about to replace,
ReadPublished(w) ==
    /\ Go(w, "finish", "temp")
    /\ seen' = [seen EXCEPT ![w] = meta]
    /\ UNCHANGED <<files, complete, doomed, hit, ended>>

\* write_metadata_file: a temporary file, which needs the directory, and its
\* rename, which needs the temporary file to be still there.
WriteTemp(a, failed) ==
    /\ \/ dir /\ Go(a, "temp", "rename") /\ temps' = temps \cup {a}
       \/ ~dir /\ Go(a, "temp", failed) /\ UNCHANGED temps
    /\ UNCHANGED <<dir, meta, bodies, complete, seen, doomed, hit, ended>>

RenameTemp(a, body, done, failed) ==
    /\ \/ a \in temps /\ Go(a, "rename", done) /\ meta' = body /\ temps' = temps \ {a}
       \/ a \notin temps /\ Go(a, "rename", failed) /\ UNCHANGED <<meta, temps>>
    /\ UNCHANGED <<dir, bodies, complete, seen, doomed, hit, ended>>

\* Fault: a sweep removes every other body of the directory.
RemoveReplacedSweep(w) ==
    /\ Go(w, "replaced", "done")
    /\ bodies' = bodies \cap {w}
    /\ UNCHANGED <<dir, meta, temps, complete, seen, doomed, hit, ended>>

\* remove_replaced_body_file: only the body that was published before.
RemoveReplaced(w) ==
    /\ Go(w, "replaced", "done")
    /\ bodies' = bodies \ ({seen[w]} \ {w})
    /\ UNCHANGED <<dir, meta, temps, complete, seen, doomed, hit, ended>>

\* Drop of a writer that did not finish: its body, then the directory if it
\* is empty.
DropBody(w) ==
    /\ Go(w, "drop", "dropdir")
    /\ bodies' = bodies \ {w}
    /\ UNCHANGED <<dir, meta, temps, complete, seen, doomed, hit, ended>>

DropDirectory(w) ==
    /\ Go(w, "dropdir", "done")
    /\ dir' = (dir /\ Files # {})
    /\ UNCHANGED <<meta, bodies, temps, complete, seen, doomed, hit, ended>>

Write(w) ==
    \/ CreateDirectory(w) \/ CreateBody(w) \/ FlushBody(w) \/ AbandonBody(w)
    \/ ReadPublished(w) \/ WriteTemp(w, "drop") \/ RenameTemp(w, w, "replaced", "drop")
    \/ RemoveReplaced(w) \/ DropBody(w) \/ DropDirectory(w)

-----------------------------------------------------------------------------
(* Lookups.                                                                *)

\* load_metadata_and_body_path.  Its other branches remove metadata that cannot
\* be parsed or names an unsafe file; what is published here is renamed whole
\* and names a body of its writer, so they wait for files of another origin.
LoadMetadata(r) ==
    /\ Go(r, "idle", IF meta = NoBody THEN "done" ELSE "open")
    /\ seen' = [seen EXCEPT ![r] = meta]
    /\ UNCHANGED <<files, complete, doomed, hit, ended>>

\* load_reader: a missing body makes the lookup remove the metadata file.
OpenBody(r) ==
    /\ \/ /\ seen[r] \in bodies /\ Go(r, "open", "opened")
          /\ hit' = [hit EXCEPT ![r] = [body |-> seen[r], whole |-> seen[r] \in complete]]
       \/ seen[r] \notin bodies /\ Go(r, "open", "forget") /\ UNCHANGED hit
    /\ UNCHANGED <<files, complete, seen, doomed, ended>>

ForgetMetadata(r) ==
    /\ Go(r, "forget", "done")
    /\ meta' = NoBody
    /\ UNCHANGED <<dir, bodies, temps, complete, seen, doomed, hit, ended>>

Republished == {r \in Lookups : pc[r] \in {"temp", "rename", "touched"}}

\* touch_loaded_entry and refresh_loaded_entry_metadata read the metadata again
\* and go on only if it names the body of the hit.
CheckBodyFile(r) ==
    /\ Cardinality(Republished) < MaxRepublish
    /\ Go(r, "opened", IF meta = seen[r] THEN "temp" ELSE "done")
    /\ UNCHANGED <<files, complete, seen, doomed, hit, ended>>

Lookup(r) ==
    \/ LoadMetadata(r) \/ OpenBody(r) \/ ForgetMetadata(r) \/ CheckBodyFile(r)
    \/ WriteTemp(r, "touched") \/ RenameTemp(r, seen[r], "touched", "touched")

-----------------------------------------------------------------------------
(* Removal of the entry: remove_entry, clear, and the eviction by a writer *)
(* of another key (remove_dir_all).                                        *)

ListDirectory(x) ==
    /\ dir /\ Go(x, "idle", "removing")
    /\ doomed' = [doomed EXCEPT ![x] = Files]
    /\ UNCHANGED <<files, complete, seen, hit, ended>>

\* The directory is read as it is emptied: what was there is removed, what is
\* created meanwhile may be.
RemoveFile(x, f) ==
    /\ Go(x, "removing", "removing")
    /\ f \in doomed[x] \cup Files
    /\ doomed' = [doomed EXCEPT ![x] = @ \ {f}]
    /\ meta' = IF f = MetaFile THEN NoBody ELSE meta
    /\ bodies' = {w \in bodies : BodyFile(w) # f}
    /\ temps' = {a \in temps : TempFile(a) # f}
    /\ UNCHANGED <<dir, complete, seen, hit, ended>>

\* A file created meanwhile makes the removal of the directory fail.
RemoveDirectory(x) ==
    /\ doomed[x] = {} /\ Go(x, "removing", "done")
    /\ dir' = (dir /\ Files # {})
    /\ UNCHANGED <<meta, bodies, temps, complete, seen, doomed, hit, ended>>

RemoveEntry(x) ==
    ListDirectory(x) \/ RemoveDirectory(x) \/ \E f \in doomed[x] \cup Files : RemoveFile(x, f)

-----------------------------------------------------------------------------
\* The process running an operation dies; files stay as they are.
Crash(a) ==
    /\ Cardinality(ended) < MaxCrashes
    /\ a \notin ended /\ pc[a] \notin {"idle", "done"}
    /\ ended' = ended \cup {a}
    /\ UNCHANGED <<files, complete, pc, seen, doomed, hit>>

Next ==
    \/ \E w \in Writers : Write(w)
    \/ \E r \in Lookups : Lookup(r)
    \/ \E x \in Removers : RemoveEntry(x)
    \/ \E a \in Actors : Crash(a)

Spec == Init /\ [][Next]_vars

-----------------------------------------------------------------------------
Steps == {"idle", "create", "writing", "finish", "temp", "rename", "replaced", "drop", "dropdir",
          "open", "forget", "opened", "touched", "removing", "done"}

\* Every variable has its type.
TypeOK ==
    /\ dir \in BOOLEAN /\ (Files # {} => dir)
    /\ meta \in Writers \cup {NoBody}
    /\ bodies \subseteq Writers /\ complete \subseteq Writers
    /\ temps \subseteq Writers \cup Lookups
    /\ pc \in [Actors -> Steps]
    /\ seen \in [Actors -> Writers \cup {NoBody}]
    /\ hit \in [Lookups -> [body : Writers \cup {NoBody}, whole : BOOLEAN]]
    /\ ended \subseteq Actors

\* "Crashes during body writes leave an ignored unpublished body stream rather
\* than a readable partial response": whatever writers, removals, touches and
\* crashes do, a lookup that returns an entry has opened the finished body that
\* its own metadata names (writer.rs finish, store.rs load_reader).
HitsAreWhole ==
    /\ TypeOK
    /\ \A r \in Lookups : hit[r].body # NoBody => hit[r].whole /\ hit[r].body = seen[r]

\* Nobody has begun to remove the entry, and no hit to republish its metadata.
OnlyWritersAndReaders == Republished = {} /\ \A x \in Removers : pc[x] = "idle"

\* Until then the published entry stays readable through any number of racing
\* and crashing writers: its metadata names a finished body that is there
\* (finish: publish first, then delete only the body read beforehand).
PublishedBodyExists ==
    OnlyWritersAndReaders /\ meta # NoBody => meta \in bodies /\ meta \in complete

\* "The body-file guard prevents an old cache hit from overwriting metadata
\* published by a newer writer for the same key": a lookup's rename never
\* replaces metadata that names another body.
GuardedRepublish ==
    [][\A r \in Lookups :
          pc[r] = "rename" /\ pc'[r] = "touched" /\ r \in temps => meta \in {seen[r], NoBody}]_vars
=============================================================================
