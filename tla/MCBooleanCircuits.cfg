SPECIFICATION Spec
CONSTANTS
  Secret = {s1, s2}
  NoSecret = NoSecret
  Modulus = {2, 4, 6}
  Message = {0, 1, 3}
  Table <- MCTable
  NA = NA
  Q = 8
  Word = 32
  Spread = 1
  Noise = Noise
  MaxCts = 3
SYMMETRY Symmetry
INVARIANTS
  TypeOK
  CircuitsDecrypt
  TablesInRange
