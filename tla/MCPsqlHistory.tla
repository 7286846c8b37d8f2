---------------------------- MODULE MCPsqlHistory ----------------------------
EXTENDS PsqlHistory, PsqlRefinement, TLC
Symmetry == Permutations(Clients) \cup Permutations(Sessions) \cup Permutations(Keys)
=============================================================================
