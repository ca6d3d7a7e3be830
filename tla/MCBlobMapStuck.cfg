\* Two tasks on one hash, with the NUM_TRIES of the code.
SPECIFICATION MCSpec
CONSTANTS
  k1 = k1
  Modes <- AnyMode
  k2 = k2
  k3 = k3
  h1 = h1
  h2 = h2
  fresh = fresh
  small = small
  large = large
  NoKey = NoKey
  NoArc = NoArc
  Keys <- OneHashKeys
  Hashes <- OneHashHashes
  HashOf <- OneHashHashOf
  Metadata <- OneSize
  SizeOf <- OneSizeOf
  Fresh = fresh
  Tasks = {t1, t2}
  Arcs = {a1, a2}
  NumTries = 8
PROPERTY
  GivesUpOnlyIfStuck
