---------------------------- MODULE MCEventLoop ----------------------------
(* Instances of EventLoop for TLC. *)
EXTENDS EventLoop, TLC

CONSTANTS MaxFd

MCFd == 1 .. MaxFd
Symmetry == Permutations(Worker) \cup Permutations(Conn)
=============================================================================
