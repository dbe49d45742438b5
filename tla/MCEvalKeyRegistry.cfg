SPECIFICATION FairSpec
CONSTANTS
  Secret = {s1, s2}
  Tag = {t1, t2}
  Index = {1, 2}
  SumIndex = {1}
  MapId = {m1, m2}
  MaxDepth = 2
  NoTag = NoTag
  Lost = Lost
  NoKey = NoKey
  NoMap = NoMap
VIEW Reachable
INVARIANTS
  TypeOK
  NoForeignKeys
  LostSecretsHaveNoRotationKeys
PROPERTIES
  HeldMapsOnlyGrow
  SnapshotsFrozen
  RegisteredKeysNotReplaced
  ScopesEndClean
  ImplementsTable
