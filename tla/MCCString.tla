----------------------------- MODULE MCCString -----------------------------
EXTENDS CString, TLC
Symmetry == Permutations(Buffers)
=============================================================================
