----------------------------- MODULE MCIdentity -----------------------------
EXTENDS Identity, TLC
Symmetry == Permutations(People) \cup Permutations(Sessions) \cup Permutations(Requests)
=============================================================================
