\* Four processes, of which two may die with or without the lock.
SPECIFICATION PortableSpec
CONSTANTS
  p1 = p1
  p2 = p2
  p3 = p3
  p4 = p4
  Procs = {p1, p2, p3, p4}
  NoFile = NoFile
  MaxKills = 2
INVARIANTS ExclusiveUntilOvertaken HolderIsNamed
CHECK_DEADLOCK FALSE
