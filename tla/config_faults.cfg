\* Two runs at a time, two consecutive steps, two faults; up to the first fault, the abstract specification.
SPECIFICATION FairSpec
CONSTANTS
  p1 = p1
  p2 = p2
  Procs = {p1, p2}
  NoProc = NoProc
  First = 12
  Last = 14
  NoFile = NoFile
  MaxFaults = 2
  MaxEdits = 1
INVARIANTS KeepsOldConfig NoDoubleConversion ConfigNeverAhead BackupIsPrior
PROPERTIES MigrationIsAtomic LockIsReleased
