\* Three tasks on a hash shared by two keys; two tasks on it and a hash of its own; two sizes.
SPECIFICATION MCSpec
CONSTANTS
  k1 = k1
  Modes <- MapModes
  k2 = k2
  k3 = k3
  h1 = h1
  h2 = h2
  fresh = fresh
  small = small
  large = large
  NoKey = NoKey
  NoArc = NoArc
  Keys <- MCKeys
  Hashes <- MCHashes
  HashOf <- MCHashOf
  Metadata <- MCMetadata
  SizeOf <- MCSizeOf
  Fresh = fresh
  Tasks = {t1, t2, t3}
  Arcs = {a1, a2, a3}
  NumTries = 2
SYMMETRY Symmetry
INVARIANTS
  MapInv
  GuardsAreLive
  GuardsExclude
  TableAccounted
PROPERTIES
  ReaderStable
  ImplementsGuardedMap
