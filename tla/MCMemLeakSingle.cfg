SPECIFICATION Spec
CONSTANTS
  Threads = {t1}
  HeapAddrs = {a1, a2}
  MapAddrs = {m1}
  Keys = {k1, k2}
  NoKey = zero
  Sizes = {1, 2}
  WordSize = 16
  Null = null
  MapFailed = failed
  NoThread = nobody
  AppCalls = {"malloc", "memalign", "free", "mmap", "munmap", "mtrace", "exit"}
  LibcFails = FALSE
  MtraceInit = TRUE
  MaxCalls = 6
INVARIANTS
  HeldIsRecorded
  CountIsExact
  FinalReport
