\* One task, two keys that collide, a crash at any step.
SPECIFICATION Spec
CONSTANTS
  k1 = k1
  k2 = k2
  k3 = k3
  h1 = h1
  h2 = h2
  NoKey = NoKey
  Never = Never
  Keys <- OneHashKeys
  Hashes = {h1}
  HashOf <- OneHashOf
  Tasks = {t1}
  Metadata <- MCMetadata
  Fresh <- MCFresh
  SizeOf <- MCSizeOf
  Times = {1}
  MaxLen = 1
  MaxCopies = 2
  MaxTime = 1
  TargetSize = 0
  NumReplaces = 2
SYMMETRY Symmetry
INVARIANT
  UncommittedIsRemoved
