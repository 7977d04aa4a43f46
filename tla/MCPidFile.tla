------------------------------ MODULE MCPidFile ------------------------------
(* PidFile on a small instance.                                            *)
EXTENDS PidFile, TLC

\* PIDs are interchangeable.  Used by the run that checks no liveness.
Symmetric == Permutations(Pids)

\* A server that is told to stop leaves: one of the processes stands for all of them.
ServerLeaves == Leaves(CHOOSE p \in Pids : TRUE)
=============================================================================
