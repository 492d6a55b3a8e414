----------------------- MODULE MCNvAccelerantInstance -----------------------
(* Small instances of NvAccelerantInstance for TLC. *)
EXTENDS NvAccelerantInstance, TLC

\* A width that is no multiple of 64, and the largest mode there is.
MCModes == {[width |-> 1366, height |-> 768], [width |-> 16384, height |-> 16384]}

IdSymmetry == Permutations(Ids)

=============================================================================
