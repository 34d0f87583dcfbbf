---------------------------- MODULE MCPrismHttp ----------------------------
EXTENDS PrismHttp, TLC

CONSTANT chat

\* Runs of one conversation, whose turns an answer may confuse.
OneChat == [r \in Runs |-> chat]
Symmetry == Permutations(Runs) \cup Permutations(Accounts)
=============================================================================
