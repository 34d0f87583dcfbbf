SPECIFICATION Spec
CONSTANTS
  Texts = {a, b}
  Threads = {t1, t2}
  Clients = {c, d}
SYMMETRY Symmetry
INVARIANTS OneFinalAnswer SucceededIsDurable UnavailableMeansDamage EvidenceOfOutcome
