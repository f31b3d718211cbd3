SPECIFICATION LiveSpec
CONSTANTS
  Threads = {t1, t2}
  HeapAddrs = {a1}
  MapAddrs = {m1}
  Keys = {k1}
  NoKey = zero
  Sizes = {1}
  WordSize = 16
  Null = null
  MapFailed = failed
  NoThread = nobody
  AppCalls = {"malloc", "free", "mmap", "munmap", "mtrace", "exit"}
  LibcFails = TRUE
  MtraceInit = TRUE
  MaxCalls = 4
PROPERTIES
  CallsReturn
INVARIANTS
  NoFalseLeak
