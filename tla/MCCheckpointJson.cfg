SPECIFICATION Spec
CONSTANTS
  Tag = {t1}
  Index = {i1}
  Relin = Relin
  File = {f1}
  Formats = {"json"}
  Faults = {"unopened", "full"}
  AllTags = AllTags
  Torn = Torn
  None = None
INVARIANTS AckedIsRestorable
