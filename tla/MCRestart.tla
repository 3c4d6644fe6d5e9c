----------------------------- MODULE MCRestart -----------------------------
(* Instances of Restart for TLC. *)
EXTENDS Restart, TLC

CONSTANTS MaxVersion,  \* bound on the versions explored
          MaxSets,     \* bound on the records appended
          MaxCrashes   \* bound on the crashes

VARIABLES sets, crashes

MCVersionArg == {0, -1, 2}

MCInit == Init /\ sets = 0 /\ crashes = 0

MCNext ==
  /\ Next
  /\ \A k \in Key : Abs(tree'[k].ver) <= MaxVersion
  /\ sets' = sets + IF Len(write_buffer') > Len(write_buffer) THEN 1 ELSE 0
  /\ crashes' = crashes + IF status \notin {"down", "closing"} /\ status' = "down" THEN 1 ELSE 0
  /\ sets' <= MaxSets /\ crashes' <= MaxCrashes

MCSpec == MCInit /\ [][MCNext]_<<vars, sets, crashes>>
Symmetry == Permutations(Key)
=============================================================================
