\* Two CIDs of one block, two workers, a use of the repository, one error of any kind.
SPECIFICATION FairSpec
CONSTANTS
  c1 = c1
  c2 = c2
  c3 = c3
  h1 = h1
  h2 = h2
  w1 = w1
  w2 = w2
  Cids = {c1, c2}
  HashOf <- Shared
  Hashes = {h1}
  InBlocks = {c1, c2}
  Workers = {w1, w2}
  Capacity = 1
  NoFile = NoFile
  Torn = Torn
  MayFail = {"query", "flush", "stat", "rename", "sync", "read", "walk"}
  MaxCrashes = 0
  MaxErrors = 1
  MaxUses = 1
INVARIANTS CompleteUnlessTorn RevertsSucceed
PROPERTY RunsEnd
CHECK_DEADLOCK FALSE
