------------------------- MODULE MCProxyDescriptors -------------------------
(* ProxyDescriptors for TLC: threads and connections are interchangeable.   *)
EXTENDS ProxyDescriptors, TLC

Symmetry == Permutations(Workers) \cup Permutations(Conns)

=============================================================================
