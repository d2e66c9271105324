\* Two unlocked runs, three keys, two faults, and a daemon that adds keys.
SPECIFICATION Spec
CONSTANTS
  p1 = p1
  p2 = p2
  a = a
  b = b
  codeA = codeA
  codeB = codeB
  bare = bare
  codeBare = codeBare
  codeCodeA = codeCodeA
  Procs = {p1, p2}
  Owners = {a, b, bare}
  Base = {a, b, bare}
  Decodable = {bare, codeA, codeB, codeBare}
  Enc <- PlainEnc
  Dec <- PlainDec
  BadName = BadName
  NoKey = NoKey
  MaxFaults = 2
SYMMETRY Symmetry
INVARIANTS KeysSurviveIfPlain AloneIsComplete
