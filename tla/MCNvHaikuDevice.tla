--------------------------- MODULE MCNvHaikuDevice ---------------------------
(* Small instances of NvHaikuDevice for TLC. *)
EXTENDS NvHaikuDevice, TLC

UserSymmetry == Permutations(Users)

=============================================================================
