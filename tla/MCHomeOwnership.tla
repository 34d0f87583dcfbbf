--------------------------- MODULE MCHomeOwnership ---------------------------
EXTENDS HomeOwnership, TLC

CONSTANTS j1, j2, s1, s2, s3

\* Two supervisors in turn on one journal, one in another process.
Succession == [s \in Supervisors |-> IF s = s3 THEN j2 ELSE j1]
Symmetry == Permutations({s1, s2})

\* Bound: a behaviour is left where a second supervisor has faulted beside a first.
OneFault == \A s, o \in Supervisors : faulted[s] /\ faulted[o] => s = o
=============================================================================
