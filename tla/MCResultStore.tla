---------------------------- MODULE MCResultStore ----------------------------
EXTENDS ResultStore, TLC

Symmetry == Permutations(Texts) \cup Permutations(Threads) \cup Permutations(Clients)
=============================================================================
