---------------------------- MODULE MCDnsResolver ----------------------------
(* TLC instance of DnsResolver.                                            *)
EXTENDS DnsResolver, TLC

\* Requests, partitions and workers are interchangeable.
Symmetry ==
    Permutations(Requests) \cup Permutations(Partitions) \cup Permutations(Workers)
=============================================================================
