---------------------------- MODULE MCDirectEngine ----------------------------
(* Small instances of DirectEngine for TLC. *)
EXTENDS DirectEngineProofs, TLC

\* Coroutines do the same things; so do keys, prompts and chats.
Symmetry == Permutations(Task) \cup Permutations(Key) \cup Permutations(Prompt)
              \cup Permutations(Scope)
=============================================================================
