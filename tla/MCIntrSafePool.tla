--------------------------- MODULE MCIntrSafePool ---------------------------
(* Small instances of IntrSafePool for TLC. *)
EXTENDS IntrSafePool, TLC

CpuSymmetry == Permutations(Cpus)
BothSymmetry == CpuSymmetry \cup Permutations(Blocks)

\* With MinSize = 16: the largest request of the first group, the smallest of
\* the second.
SizesOfTwoGroups == {16, 17}
\* A request of the first group, and one that no group of two fits.
SizesTooLarge == {16, 33}
OneSize == {16}

=============================================================================
