SPECIFICATION TracingSpec
CONSTANTS
  Parts = {"mtrace", "hooks", "stack", "array"}
  Threads = {t1, t2}
  NoThread = nobody
  Null = null
  MaxCalls = 5
  Addrs = {a1, a2}
  Own = own
  AppCalls = {"malloc", "memalign", "free", "realloc", "mtrace", "muntrace"}
  LibcFails = TRUE
  Restarts = FALSE
  MapBlocks = {m1}
  Modules = {exe, so}
  Exe = exe
  Pie = FALSE
  Bases = {1, 2, 3}
  Start <- MCStart
  MaxDepth = 2
  None = none
  DepthWord = depth
  Fails = {so}
  MaxMoves = 2
  MaxFlushes = 1
  MaxWalks = 4
  Keys = {a, b, c, d}
  Values = {v, w}
  N = 3
  MaxTime = 2
  MaxPushes = 6
SYMMETRY Symmetry
INVARIANTS
  HooksInstalled
  NoRelock
  NoFalseLeak
  NeverRelocks
  HeldIsNoted
  BaseFresh
  NamesOpen
  WalkComplete
  Consistent
PROPERTIES
  ImplementsLRUMap
