------------------------------ MODULE MCHTree ------------------------------
(* Instances of HTree for TLC: a binary tree of at most three levels. *)
EXTENDS HTree

CONSTANTS k1, k2, k3, k4, k5

\* All keys share the first digit, keys 1 and 2 the second, and the others too.
MCKeyHash == [k \in Key |-> CASE k \in {k1, k2} -> 1 [] k = k3 -> 2 [] k \in {k4, k5} -> 3]
MCPrefixSets == {{k1, k2, k3}}
MCDir == {<<>>, <<0>>, <<1, 0>>, <<0, 1, 0>>}

Symmetry == Permutations({k1, k2}) \cup Permutations({k4, k5})
=============================================================================
