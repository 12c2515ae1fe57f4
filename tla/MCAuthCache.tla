----------------------------- MODULE MCAuthCache -----------------------------
EXTENDS AuthCache, TLC

Symmetry == Permutations(Instances) \cup Permutations(Requests)
=============================================================================
