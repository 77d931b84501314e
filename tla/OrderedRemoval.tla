---------------------------- MODULE OrderedRemoval ----------------------------
(***************************************************************************)
(* Taking entries out of a queue (Vec::retain and VecDeque::retain).       *)
(* SelectSeq would say the same; a recursive function can be reasoned      *)
(* about.                                                                  *)
(***************************************************************************)
EXTENDS Naturals, Sequences

\* The members of s that are not in S, in their order.
Without(s, S) ==
    LET kept[i \in 0 .. Len(s)] ==
            IF i = 0 THEN <<>>
            ELSE IF s[i] \in S THEN kept[i - 1] ELSE Append(kept[i - 1], s[i])
    IN  kept[Len(s)]
=============================================================================
