--------------------------- MODULE MCNvHaikuFiles ---------------------------
(* Small instances of NvHaikuFiles for TLC. *)
EXTENDS NvHaikuFiles, TLC

ThreadSymmetry == Permutations(Threads)

\* What NvHaikuFiles says of the files holds or fails before this; what it
\* says of the GPU does not depend on it.
Orderly == ~disturbed

=============================================================================
