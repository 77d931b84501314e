--------------------------- MODULE TransactionOrder ---------------------------
(***************************************************************************)
(* What the admission of IndexedDB transactions promises: transactions     *)
(* whose scopes conflict run one at a time, in the order in which the      *)
(* database accepted them.                                                 *)
(***************************************************************************)
EXTENDS Sequences, SequencesExt, OrderedRemoval

CONSTANTS
    Requests,           \* transactions a page may create
    Conflicts(_, _)     \* whether two of them may not run together

VARIABLES
    order,              \* the accepted transactions, oldest first
    running             \* those whose work the database is doing

Older(r) ==
    {order[i] : i \in {j \in DOMAIN order : \E k \in DOMAIN order : j < k /\ order[k] = r}}

OrderInit == order = <<>> /\ running = {}

Accept(r) ==
    /\ r \notin ToSet(order)
    /\ order' = Append(order, r)
    /\ UNCHANGED running

\* A transaction starts once no older one conflicts with it.
Start(r) ==
    /\ r \in ToSet(order) \ running
    /\ \A q \in Older(r) : ~Conflicts(r, q)
    /\ running' = running \cup {r}
    /\ UNCHANGED order

\* Commit, rollback, or the end of the whole database.
End(S) ==
    /\ running' = running \ S
    /\ UNCHANGED order

\* Only what does not run loses its place.
Leave(S) ==
    /\ S \cap running = {}
    /\ order' = Without(order, S)
    /\ UNCHANGED running

OrderNext ==
    \/ \E r \in Requests : Accept(r) \/ Start(r)
    \/ \E S \in SUBSET Requests : End(S) \/ Leave(S)

OrderSpec == OrderInit /\ [][OrderNext]_<<order, running>>
=============================================================================
