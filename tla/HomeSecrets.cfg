SPECIFICATION SecretsSpec
CONSTANTS
  Keys = {k1, k2}
  Secrets = {s1, s2, s3}
  Runs = {r1, r2, r3}
SYMMETRY Symmetry
INVARIANTS OneRunPerKey OneUnresolved
