CONSTANTS
  Thread = {s, t}
  NoThread = NoThread
  Outermost = Outermost
  Row = {a, b, c, d, e}
  MaxDepth = 4
SPECIFICATION Spec
SYMMETRY Symmetry
INVARIANTS
  AllOrNothing
  BlocksAddUp
  HeldWhileOpen
