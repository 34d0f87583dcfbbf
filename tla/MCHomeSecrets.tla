---------------------------- MODULE MCHomeSecrets ----------------------------
EXTENDS HomeSecrets, TLC

Symmetry == Permutations(Keys) \cup Permutations(Secrets) \cup Permutations(Runs)
=============================================================================
