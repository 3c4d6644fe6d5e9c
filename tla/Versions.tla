------------------------------ MODULE Versions ------------------------------
(***************************************************************************)
(* The version arithmetic of bc_set.  A stored item carries a signed       *)
(* version: positive for a live value, negative for a tombstone.  Version  *)
(* 0 never belongs to a stored item, so it stands for "no item".           *)
(*                                                                         *)
(* The code computes on C ints.  IntMax stands for INT_MAX, and Wrap is    *)
(* what the two's complement builds do when a sum leaves the range.        *)
(***************************************************************************)
EXTENDS Integers

CONSTANT IntMax

ASSUME IntMaxAssumption == IntMax \in Nat \ {0}

IntMin == -IntMax - 1
CInt == IntMin .. IntMax

Wrap(x) == IF x > IntMax THEN x - 2 * (IntMax + 1) ELSE x

\* abs() of a C int: the absolute value of IntMin is IntMin itself.
Abs(x) == IF x < 0 THEN Wrap(-x) ELSE x

\* Mutant: an explicit version may repeat the stored one.
RefusedBelow(n, oldv) ==
  \/ n < 0 /\ oldv <= 0
  \/ n \notin {0, -1} /\ Abs(n) < Abs(oldv)

\* The commands bc_set refuses: deleting what is not there, and an explicit
\* version that is not beyond the stored one.
Refused(n, oldv) ==
  \/ n < 0 /\ oldv <= 0
  \/ n \notin {0, -1} /\ Abs(n) <= Abs(oldv)

(***************************************************************************)
(* The version that a set command with version argument n gives to an item *)
(* whose version is oldv (0: no item); 0 when bc_set refuses the command.  *)
(***************************************************************************)
NewVersion(n, oldv) ==
  CASE Refused(n, oldv)    -> 0
    [] n = 0 /\ oldv > 0   -> Wrap(oldv + 1)
    [] n = 0 /\ oldv <= 0  -> Wrap(Wrap(-oldv) + 1)
    [] n = -1 /\ oldv > 0  -> -Abs(oldv) - 1
    [] OTHER               -> n

\* The versions at which the next step of the arithmetic still fits a C int.
NoOverflow(oldv) == oldv \in (-IntMax + 1) .. (IntMax - 1)
=============================================================================
