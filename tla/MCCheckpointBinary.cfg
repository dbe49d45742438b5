SPECIFICATION Spec
CONSTANTS
  Tag = {t1, t2}
  Index = {i1, i2}
  Relin = Relin
  File = {f1, f2}
  Formats = {"binary"}
  Faults = {"unopened", "full", "late"}
  AllTags = AllTags
  Torn = Torn
  None = None
SYMMETRY Symmetry
VIEW View
INVARIANTS TypeOK AckedLoadsRight TablesApart
PROPERTIES LoadsOnlyAdd ImplementsDurable
