CONSTANTS
  Piece = {x, y}
  MaxPieces = 1
  NoText = NoText
  NoEvent = NoEvent
  MaxEvents = 4
  MaxText = 2
SPECIFICATION Spec
CHECK_DEADLOCK FALSE
SYMMETRY Symmetry
INVARIANTS
  VerdictOfWholeStream
  EvidenceIsAccepted
  FinalTextOfStream
