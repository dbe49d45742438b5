SPECIFICATION RecipeSpec
CONSTANTS
  Party = {p1, p2}
  Index = {i1}
  Gen = {g1, g2}
  MaxMaps = 4
  MaxExtent = 5
  Noise = Noise
  NoKey = NoKey
CHECK_DEADLOCK FALSE
INVARIANT RecipeRegistersJointKey
