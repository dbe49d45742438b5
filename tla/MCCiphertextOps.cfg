SPECIFICATION Spec
CONSTANTS
  Var = {x, y}
  Obj = {o1, o2, o3}
  Value <- Vectors
  Plain <- Operands
  Index = {1}
  Batch = {1, 2}
  Plus <- MCPlus
  Minus <- MCMinus
  Times <- MCTimes
  Negative <- MCNegative
  Rot <- MCRot
  WindowSum <- MCWindowSum
  MaxParts = 4
  RelinDegree = 2
  NoObj = NoObj
  NoVar = NoVar
  Noise = Noise
  Unsaid = Unsaid
SYMMETRY Symmetry
INVARIANTS
  TypeOK
  MeaningKept
  PrecomputationFits
PROPERTY OperandsUntouched
