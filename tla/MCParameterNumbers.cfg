SPECIFICATION Spec
CONSTANTS
  Half = 4
  Wide = 16
  Number <- MCNumber
  Default <- MCDefault
  AsFloat <- MCAsFloat
  None = None
INVARIANTS
  TypeOK
  ReadsAsGiven
  EncodesAsGiven
  DecryptsToSlot
  ContextAgrees
  ValuesCarryOver
  HashTells
