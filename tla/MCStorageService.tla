-------------------------- MODULE MCStorageService --------------------------
(* TLC instance of StorageService.                                         *)
EXTENDS StorageService

\* Operations are interchangeable: each multiset of kinds is taken once, in the
\* order of a listing of the operations.
EachMixOnce ==
    LET ops == SetToSeq(Ops)
        kinds == SetToSeq(Kinds)
        Rank(k) == CHOOSE i \in DOMAIN kinds : kinds[i] = k
    IN  {f \in [Ops -> Kinds] :
            \A i \in 1..(Len(ops) - 1) : Rank(f[ops[i]]) <= Rank(f[ops[i + 1]])}
=============================================================================
