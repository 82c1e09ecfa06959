------------------------- MODULE MCBybitAutoClose -------------------------
EXTENDS BybitAutoClose, TLC

\* A position, none, and one on the other side
MCPositions == {-1, 0, 1}

Symmetry == Permutations(AutoClose)
=============================================================================
