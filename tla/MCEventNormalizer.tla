--------------------------- MODULE MCEventNormalizer ---------------------------
(* Small instances of EventNormalizer for TLC, and a reference for the text. *)
EXTENDS EventNormalizerProofs, SequencesExt, TLC

Symmetry == Permutations(Piece)

\* What a stream has put out, computed: the last snapshot and the deltas after it.
Output(s) ==
  LET snapshots == {i \in DOMAIN s : s[i].kind = "TextSnapshot"}
      rest == IF snapshots = {} THEN s
              ELSE SubSeq(s, CHOOSE i \in snapshots : \A j \in snapshots : j <= i, Len(s))
      parts == SelectSeq(rest, IsText)
  IN FlattenSeq([i \in DOMAIN parts |-> parts[i].text])

SomeTexts == UNION {[1..n -> Piece] : n \in 0..3}
SomeEvents ==
  [kind : TextKind, text : {t \in SomeTexts : Len(t) <= 2}] \cup [kind : {"Other"}, text : {NoText}]
SomeStreams == UNION {[1..n -> SomeEvents] : n \in 0..3}

\* PutOut, which the proofs use, says of a text that it is the computed one.
ASSUME PutOutIsOutput ==
  \A s \in SomeStreams : \A t \in SomeTexts : PutOut(t, s, Len(s)) <=> t = Output(s)
=============================================================================
