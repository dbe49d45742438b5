SPECIFICATION Spec
CONSTANTS
  Party = {p1, p2, p3}
  Index = {i1, i2}
  Gen = {g1, g2}
  MaxMaps = 2
  MaxExtent = 5
  Noise = Noise
  NoKey = NoKey
SYMMETRY Symmetry
INVARIANTS TypeOK JointKeysFit
PROPERTY FittingKeysStay
