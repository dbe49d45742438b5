SPECIFICATION Spec
CONSTANTS
  Party = {p1, p2, p3}
  Msg = {m}
  Elem = {e1, e2}
  NoElem = NoElem
  MaxTries = 2
  MaxCalls = 4
  MaxSums = 2
  MaxExtent = 4
SYMMETRY Symmetry
INVARIANTS
  TypeOK
  RefreshTakesAll
  HalvesTogether
  RoundCompletes
PROPERTIES
  ImplementsRefresh
