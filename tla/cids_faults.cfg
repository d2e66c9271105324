\* Two workers, a block and a filestore entry, a crash and a counted error.
SPECIFICATION Spec
CONSTANTS
  c1 = c1
  c2 = c2
  c3 = c3
  h1 = h1
  h2 = h2
  w1 = w1
  w2 = w2
  Cids = {c1, c3}
  HashOf <- Separate
  Hashes = {h1, h2}
  InBlocks <- OnlyFirst
  Workers = {w1, w2}
  Capacity = 1
  NoFile = NoFile
  Torn = Torn
  MayFail = {"get", "put", "sync", "delete", "rename", "writeVersion", "renameBackup"}
  MaxCrashes = 1
  MaxErrors = 1
  MaxUses = 0
SYMMETRY Symmetry
INVARIANTS BlocksSurvive CompleteUnlessTorn
CHECK_DEADLOCK FALSE
