CONSTANTS
  p1 = p1
  p2 = p2
  a = a
  b = b
  n = n
  pk = pk
  ip = ip
  mg = mg
  Procs = {p1, p2}
  NoProc = NoProc
  MaxFaults = 1
  Blocks = {a, b, n}
  PinNode = n
  Targets = {1, 4}
  Drivers = {p1}
  ByHand <- MCByHand
  NoKey = NoKey
  NoPins = NoPins
  Roots = {a}
  Directs = {}
  Prefix <- MCPrefix
  Reach <- MCReach
  Pks = {}
  Ipns = {}
  Published = {}
  Mangled = {}
  MaxValue = 1
SPECIFICATION Spec
INVARIANT NoBlockLost
