\* A third process finds the lock free while the second holds an unlinked file.
SPECIFICATION FcntlSpec
CONSTANTS
  p1 = p1
  p2 = p2
  p3 = p3
  n4 = n4
  n1 = n1
  n2 = n2
  n3 = n3
  Procs = {p1, p2, p3}
  Inodes = {n1, n2, n3, n4}
  None = None
  MaxRounds = 1
  MaxKills = 0
INVARIANT Exclusive
CHECK_DEADLOCK FALSE
