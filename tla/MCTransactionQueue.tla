-------------------------- MODULE MCTransactionQueue --------------------------
(* TLC instances of TransactionQueue.                                      *)
EXTENDS TransactionQueue, TLC

CONSTANTS c1, c2, w1, w2, r1, r2, s1, s2

\* Two writers on disjoint stores and readers that overlap one or both,
\* spread over two connections.
MCConnOf == (w1 :> c1) @@ (w2 :> c2) @@ (r1 :> c2) @@ (r2 :> c1)
MCMode == (w1 :> "readwrite") @@ (w2 :> "readwrite") @@ (r1 :> "readonly") @@ (r2 :> "readonly")
MCStores == (w1 :> {s1}) @@ (w2 :> {s2}) @@ (r1 :> {s1}) @@ (r2 :> {s1, s2})

RequestsConnOf == [r \in Requests |-> MCConnOf[r]]
RequestsMode == [r \in Requests |-> MCMode[r]]
RequestsStores == [r \in Requests |-> MCStores[r]]
=============================================================================
