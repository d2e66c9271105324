\* Three processes that lock again and again, and are killed.
SPECIFICATION FcntlSpec
CONSTANTS
  p1 = p1
  p2 = p2
  p3 = p3
  n4 = n4
  n1 = n1
  n2 = n2
  n3 = n3
  Procs = {p1, p2, p3}
  Inodes = {n1, n2, n3, n4}
  None = None
  MaxRounds = 2
  MaxKills = 2
INVARIANTS ExclusiveUntilRemove NoStaleLock
CHECK_DEADLOCK FALSE
