------------------------------ MODULE MCBitcask ------------------------------
(* Instances of Bitcask for TLC. *)
EXTENDS BitcaskRefinement, TLC

CONSTANTS va, vb, ve,  \* values: va and vb have the same hash, vb takes two blocks
          MaxVersion   \* bound on the versions explored

MCHashOf == [v \in Value |-> IF v = ve THEN 2 ELSE 1]
MCSizeOf == [v \in Value |-> IF v = vb THEN 2 ELSE 1]
MCVersionArg == {0, -1, 3}

\* The environment sends no set that would take a version beyond MaxVersion.
Bounded == \A t \in Client : Abs(arg[t].ver) <= MaxVersion

MCSpec == Init /\ [][Next /\ Bounded']_vars

\* ... and the process is not left to run into its exit at MAX_BUCKET_COUNT.
MCRoomSpec == Init /\ [][Next /\ Bounded' /\ curr' < MAX_BUCKET_COUNT]_vars

MCFairSpec == MCSpec /\ Fairness

Symmetry == Permutations(Client) \cup Permutations(Key)
=============================================================================
