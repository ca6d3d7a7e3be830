\* Three tasks on one key, under fairness; no symmetry.
SPECIFICATION FairSpec
CONSTANTS
  NoKey = NoKey
  NoArc = NoArc
  Keys = {k1}
  Hashes = {h1}
  HashOf <- OneHashOf
  Metadata = {fresh}
  SizeOf <- OneSizeOf
  Fresh = fresh
  Tasks = {t1, t2, t3}
  Arcs = {a1, a2, a3}
  NumTries = 2
  Watched = {t1}
PROPERTY
  OperationsReturn
