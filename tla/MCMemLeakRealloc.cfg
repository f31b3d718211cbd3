SPECIFICATION Spec
CONSTANTS
  Threads = {t1}
  HeapAddrs = {a1, a2}
  MapAddrs = {}
  Keys = {k1}
  NoKey = zero
  Sizes = {1}
  WordSize = 16
  Null = null
  MapFailed = failed
  NoThread = nobody
  AppCalls = {"malloc", "realloc"}
  LibcFails = FALSE
  MtraceInit = TRUE
  MaxCalls = 3
INVARIANTS
  HeldIsRecorded
