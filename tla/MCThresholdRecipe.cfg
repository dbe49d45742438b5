SPECIFICATION RecipeSpec
CONSTANTS
  Party = {p1, p2, p3}
  Ct = {c1}
  Sharing = {add, shamir}
  MaxWeight = 2
  MaxKeys = 5
  MaxExtent = 4
  MaxShared = 1
  NoParty = NoParty
  NoKey = NoKey
  NoShare = NoShare
SYMMETRY Symmetry
INVARIANTS
  RecipeGivesJointKey
CHECK_DEADLOCK FALSE
