SPECIFICATION Spec
CONSTANTS
  Party = {p1, p2, p3}
  Ct = {c1, c2}
  Sharing = {add}
  MaxWeight = 2
  MaxKeys = 3
  MaxExtent = 4
  MaxShared = 1
  NoParty = NoParty
  NoKey = NoKey
  NoShare = NoShare
SYMMETRY Symmetry
INVARIANTS
  TypeOK
  OpenedNeedsAll
  AnyLeadOpens
PROPERTIES
  ImplementsJoint
CHECK_DEADLOCK FALSE
