--------------------------- MODULE SessionHistory ---------------------------
(***************************************************************************)
(* Joint session history (moli-session-history): one timeline of steps for *)
(* a page, each step holding the entry of every browsing context active    *)
(* there.  A traversal is planned against the timeline, admitted by script *)
(* in every affected context, and committed later; contexts attach,        *)
(* navigate and detach meanwhile.  Steps that belong to other renderers    *)
(* are in the timeline too, with no entries.                               *)
(*                                                                         *)
(* Keys and documents are numbers, drawn in order; an entry is a pair of   *)
(* them.  Several plans can be outstanding.                                *)
(***************************************************************************)
EXTENDS Naturals, Sequences, FiniteSets

CONSTANTS Contexts, Root,
          ParentOf,     \* the tree of browsing contexts
          MaxFresh,     \* bound: keys and documents drawn
          MaxSteps,     \* bound: length of the timeline
          MaxOpaque,    \* bound: length of the browser's history
          MaxPlans      \* bound: traversals planned

ASSUME HistoryAssumption ==
    /\ Root \in Contexts /\ IsFiniteSet(Contexts)
    /\ ParentOf \in [Contexts \ {Root} -> Contexts]
    /\ \A S \in SUBSET (Contexts \ {Root}) : S # {} => \E c \in S : ParentOf[c] \notin S
    /\ MaxFresh \in Nat \ {0} /\ MaxSteps \in Nat \ {0} /\ MaxPlans \in Nat
    /\ MaxOpaque \in 1..MaxSteps

VARIABLES
    steps,      \* the timeline: [id, entries] with entries a partial function
    current,    \* index of the current step
    revision,   \* changed by every update that moves or replaces entries
    parents,    \* contexts whose parent has been recorded
    holder,     \* history: the document that holds a context, 0 where there is none
    fresh,      \* keys, documents, steps and revisions drawn so far
    plans,      \* outstanding traversal plans
    planned     \* plans made so far

timeline == <<steps, current, revision, parents>>
historyVars == <<timeline, holder, fresh, plans, planned>>

Entries == steps[current].entries
Has(c) == c \in DOMAIN Entries

NoEntry == [key |-> 0, document |-> 0]
At(entries, c) == IF c \in DOMAIN entries THEN entries[c] ELSE NoEntry

\* descendants: the recorded children of a context, and theirs.
Descendants(c) ==
    LET Above[d \in Contexts] ==
            IF d \notin parents THEN {} ELSE {ParentOf[d]} \cup Above[ParentOf[d]]
    IN  {d \in parents : c \in Above[d]}

Without(entries, cs) == [c \in DOMAIN entries \ cs |-> entries[c]]
With(entries, c, e) == [d \in DOMAIN entries \cup {c} |-> IF d = c THEN e ELSE entries[d]]

\* Fault: the frames of the replaced document stay in the step.
PutKeepingChildren(entries, c, e) == With(entries, c, e)

\* An entry replaced by one of another document takes its descendants along.
Put(entries, c, e) ==
    LET kept == IF c \in DOMAIN entries /\ entries[c].document # e.document
                THEN Without(entries, Descendants(c)) ELSE entries
    IN  With(kept, c, e)

\* new: the browser's position, one empty step for each of its entries.
Opaque(n, first) == [i \in 1..n |-> [id |-> first + i, entries |-> [c \in {} |-> NoEntry]]]

HistoryInit ==
    /\ \E n \in 1..MaxOpaque : /\ n <= MaxFresh
                             /\ steps = Opaque(n, 0) /\ current \in 1..n
                             /\ fresh = n /\ revision = n
    /\ parents = {} /\ holder = [c \in Contexts |-> 0]
    /\ plans = {} /\ planned = 0

\* The main realm learns its position in the browser's history: an empty
\* timeline, with the entry of the live document at its current step.
InstallPosition(n, i) ==
    /\ fresh + n <= MaxFresh
    /\ steps' = [Opaque(n, fresh) EXCEPT ![i].entries =
                    [c \in DOMAIN Entries \cap {Root} |-> Entries[c]]]
    /\ current' = i
    /\ fresh' = fresh + n /\ revision' = fresh + n
    /\ parents' = {} /\ holder' = [c \in Contexts |-> 0]
    /\ UNCHANGED <<plans, planned>>

\* The document c is attached in: the one its parent shows, if it shows one.
HoldingDocument(c) == IF c = Root THEN 0 ELSE At(Entries, ParentOf[c]).document

\* The steps an initial document goes to: the current one, and those of the
\* same parent document.
AttachedAt(c) ==
    {i \in DOMAIN steps :
        /\ c \notin DOMAIN steps[i].entries
        /\ \/ i = current
           \/ /\ HoldingDocument(c) # 0
              /\ At(steps[i].entries, ParentOf[c]).document = HoldingDocument(c)}

ShownAt(c) == {i \in DOMAIN steps : c \in DOMAIN steps[i].entries}

\* The initial document of a context: no new step and no new revision.  The
\* main realm may come after its frames: those that are where it is put are
\* its document's.  A context still shown elsewhere, or attached where its
\* parent shows nothing, is held by no document.
Attach(c) ==
    /\ ~Has(c) /\ fresh < MaxFresh
    /\ steps' = [i \in DOMAIN steps |->
                    IF i \in AttachedAt(c)
                    THEN [steps[i] EXCEPT !.entries =
                             With(@, c, [key |-> fresh + 1, document |-> fresh + 1])]
                    ELSE steps[i]]
    /\ parents' = parents \cup ({c} \ {Root})
    /\ holder' = [d \in Contexts |->
                     IF d = c THEN (IF ShownAt(c) = {} THEN HoldingDocument(c) ELSE 0)
                     ELSE IF d \in parents /\ ParentOf[d] = c /\ ShownAt(d) = AttachedAt(c)
                          THEN fresh + 1 ELSE holder[d]]
    /\ fresh' = fresh + 1
    /\ UNCHANGED <<current, revision, plans, planned>>

\* A navigation of a context with no entry leaves it outside its document.
Strayed(c) == IF Has(c) THEN holder ELSE [holder EXCEPT ![c] = 0]

\* The entries a navigation of c can commit: of a new document, or of its
\* current one (a fragment or history.pushState).
NewEntries(c) ==
    {[key |-> fresh + 1, document |-> d] : d \in {fresh + 1} \cup ({At(Entries, c).document} \ {0})}

Push(c, e) ==
    /\ e \in NewEntries(c) /\ fresh < MaxFresh
    /\ current < MaxSteps
    /\ steps' = Append(SubSeq(steps, 1, current),
                       [id |-> fresh + 1, entries |-> Put(Entries, c, e)])
    /\ current' = current + 1
    /\ holder' = Strayed(c)
    /\ fresh' = fresh + 1 /\ revision' = fresh + 1
    /\ UNCHANGED <<parents, plans, planned>>

\* location.replace, replaceState, or a reloaded document under its old key:
\* every step with the replaced entry changes, the current one even without.
Replacements(c) ==
    NewEntries(c) \cup {[key |-> k, document |-> fresh + 1] : k \in {At(Entries, c).key} \ {0}}

Replace(c, e) ==
    /\ e \in Replacements(c) /\ fresh < MaxFresh
    /\ steps' = [i \in DOMAIN steps |->
            IF \/ i = current
               \/ Has(c) /\ At(steps[i].entries, c).key = Entries[c].key
            THEN [steps[i] EXCEPT !.entries = Put(@, c, e)]
            ELSE steps[i]]
    /\ holder' = Strayed(c)
    /\ fresh' = fresh + 1 /\ revision' = fresh + 1
    /\ UNCHANGED <<current, parents, plans, planned>>

PruneAllButCurrent ==
    /\ Len(steps) > 1 /\ fresh < MaxFresh
    /\ steps' = <<steps[current]>> /\ current' = 1
    /\ fresh' = fresh + 1 /\ revision' = fresh + 1
    /\ UNCHANGED <<parents, holder, plans, planned>>

\* A frame element is removed: no new revision.
Detach(c) ==
    /\ c # Root
    /\ LET removed == Descendants(c) \cup {c}
       IN  /\ \/ parents \cap removed # {}
              \/ \E i \in DOMAIN steps : DOMAIN steps[i].entries \cap removed # {}
           /\ steps' = [i \in DOMAIN steps |->
                           [steps[i] EXCEPT !.entries = Without(@, removed)]]
           /\ parents' = parents \ removed
    /\ UNCHANGED <<current, revision, holder, fresh, plans, planned>>

-----------------------------------------------------------------------------
(* Traversal.                                                              *)

\* Exactly the contexts whose entry differs between two steps, with both.
Changes(from, to) ==
    {[context |-> c, from |-> At(from, c), to |-> At(to, c)] :
        c \in {d \in DOMAIN from \cup DOMAIN to : At(from, d) # At(to, d)}}

PlanTraversal(i) ==
    /\ planned < MaxPlans /\ planned' = planned + 1
    /\ plans' = plans \cup {[number |-> planned + 1, revision |-> revision,
                             source |-> steps[current].id, target |-> steps[i].id,
                             changes |-> Changes(Entries, steps[i].entries)]}
    /\ UNCHANGED <<timeline, holder, fresh>>

\* Fault: only the revision is compared, not what the contexts would go through.
IsTraversalPlanCurrentByRevision(plan) ==
    /\ plan.revision = revision
    /\ plan.source = steps[current].id
    /\ \E i \in DOMAIN steps : steps[i].id = plan.target

IsTraversalPlanCurrent(plan) ==
    /\ plan.revision = revision
    /\ plan.source = steps[current].id
    /\ \E i \in DOMAIN steps : /\ steps[i].id = plan.target
                               /\ Changes(Entries, steps[i].entries) = plan.changes

\* A stale plan is refused and has to be made again.
CommitTraversal(plan) ==
    /\ fresh < MaxFresh
    /\ plans' = plans \ {plan}
    /\ IF IsTraversalPlanCurrent(plan)
       THEN /\ current' = CHOOSE i \in DOMAIN steps : steps[i].id = plan.target
            /\ fresh' = fresh + 1 /\ revision' = fresh + 1
       ELSE UNCHANGED <<current, fresh, revision>>
    /\ UNCHANGED <<steps, parents, holder, planned>>

HistoryNext ==
    \/ \E n \in 1..MaxOpaque : \E i \in 1..n : InstallPosition(n, i)
    \/ \E c \in Contexts : Attach(c)
    \/ \E c \in Contexts \ {Root} : Detach(c)
    \/ \E c \in Contexts : \E e \in NewEntries(c) : Push(c, e)
    \/ \E c \in Contexts : \E e \in Replacements(c) : Replace(c, e)
    \/ PruneAllButCurrent
    \/ \E i \in DOMAIN steps : PlanTraversal(i)
    \/ \E plan \in plans : CommitTraversal(plan)

HistorySpec == HistoryInit /\ [][HistoryNext]_historyVars

-----------------------------------------------------------------------------
\* Every variable has its type.
HistoryTypeOK ==
    /\ current \in DOMAIN steps /\ Len(steps) \in 1..MaxSteps
    /\ \A i \in DOMAIN steps : DOMAIN steps[i].entries \subseteq Contexts
    /\ parents \subseteq Contexts \ {Root}
    /\ fresh \in 1..MaxFresh /\ revision \in 1..fresh
    /\ planned \in 0..MaxPlans

\* Going through history never shows a frame outside the document that holds
\* it, nor loses one: a frame attached in a document has an entry in exactly the
\* steps where its parent shows that document, until it is detached, and one key
\* names one entry of its context everywhere (attach, push, replace, detach,
\* among steps of other renderers, whatever was traversed in between).
FramesFollowDocuments ==
    /\ HistoryTypeOK
    /\ \A i \in DOMAIN steps : LET e == steps[i].entries IN
          /\ \A c \in parents : holder[c] # 0 =>
                (c \in DOMAIN e <=> At(e, ParentOf[c]).document = holder[c])
          /\ \A j \in DOMAIN steps : LET f == steps[j].entries IN
                \A c \in DOMAIN e \cap DOMAIN f : e[c].key = f[c].key => e[c] = f[c]

\* "Commit exactly the admitted proposal": a committed traversal moves every
\* context exactly as the admitted plan said, whatever attached, detached,
\* navigated or traversed between the admission and the commit.
CommitsAsAdmitted ==
    [][\A plan \in plans :
          plan \notin plans' /\ revision' # revision
          => Changes(Entries, steps'[current'].entries) = plan.changes]_historyVars
=============================================================================
