\* Two tasks, two keys that collide: files of several lengths, blobs that expire or never do, crashes.
SPECIFICATION Spec
CONSTANTS
  k1 = k1
  k2 = k2
  k3 = k3
  h1 = h1
  h2 = h2
  NoKey = NoKey
  Never = Never
  Keys <- OneHashKeys
  Hashes = {h1}
  HashOf <- OneHashOf
  Tasks = {t1, t2}
  Metadata <- MCMetadata
  Fresh <- MCFresh
  SizeOf <- MCSizeOf
  Times = {1}
  MaxLen = 2
  MaxCopies = 2
  MaxTime = 1
  TargetSize = 1
  NumReplaces = 2
SYMMETRY Symmetry
INVARIANTS
  StorageInv
  SizeIsDiskUse
  ExpiryTracked
PROPERTIES
  StepsAreSafe
