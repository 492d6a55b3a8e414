--------------------------- MODULE MCNvAccelerant ---------------------------
(* Small instances of NvAccelerant for TLC. *)
EXTENDS NvAccelerant, TLC

IdSymmetry == Permutations(Ids)

=============================================================================
