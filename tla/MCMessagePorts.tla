-------------------------- MODULE MCMessagePorts --------------------------
(* Where the endpoints are at first, for the instances TLC checks.         *)
EXTENDS MessagePorts, TLC
CONSTANTS x, y, a, b, s

\* x joins s and a, y joins a and b: a can hand its end of x to b over y.
Bridge == [p \in Ports |-> IF p = <<x, 1>> THEN s
                           ELSE IF p[2] = 1 \/ p[1] = x THEN a ELSE b]
\* Two contexts: a holds one end of each channel.
Pair == [p \in Ports |-> IF p[2] = 1 THEN a ELSE b]
\* Pair treats the channels alike.
Symmetry == Permutations({x, y})
============================================================================
