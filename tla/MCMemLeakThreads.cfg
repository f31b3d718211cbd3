SPECIFICATION Spec
CONSTANTS
  Threads = {t1, t2}
  HeapAddrs = {a1, a2}
  MapAddrs = {}
  Keys = {k1, zero}
  NoKey = zero
  Sizes = {1}
  WordSize = 16
  Null = null
  MapFailed = failed
  NoThread = nobody
  AppCalls = {"malloc", "free", "realloc", "mtrace", "muntrace", "exit"}
  LibcFails = TRUE
  MtraceInit = FALSE
  MaxCalls = 5
SYMMETRY Symmetry
INVARIANTS
  Exclusion
  NoRelock
  ScanValid
  StacksCover
PROPERTIES
  ImplementsLedger
