\* Two kills and two errors; blocks, a stray file and an unexpected one.
SPECIFICATION Spec
CONSTANTS
  b1 = b1
  b2 = b2
  s1 = s1
  x1 = x1
  Blocks = {b1, b2}
  Strays = {s1}
  Extras = {x1}
  NoDir = NoDir
  NoFile = NoFile
  Torn = Torn
  MaxKills = 2
  MaxErrors = 2
INVARIANTS FilesSurvive AppliedIsApplied RevertsUntilFault ErrorIsUndone
CHECK_DEADLOCK FALSE
