SPECIFICATION ToolsSpec
CONSTANTS
  Tools = {"chrono"}
  Objs = {o1}
  Addrs = {f1}
  Null = null
  Garbage = garbage
  MaxSteps = 0
  Threads = {t1, t2}
  NoThread = nobody
  Allocators = {p1}
  InitialItems = 0
  MaxItems = 0
  MaxLines = 0
  Deltas <- GuardDeltas
  Accs = {a1, a2}
  Measures = {m1, m2}
  MaxTime = 4
  Memory = {0, 7}
  Workers = {w1}
  Loops = 0
  Programs = {"sum"}
  Bodies = {"atomic"}
  Rounds = 1
  Sender = t1
  Receiver = t2
  Events = 0
  Limits <- EnumLimits
  MaxActs = 0
  Roots = {r1}
  Tasks = {}
  Schedulers = {s1}
  Nobody = none
  Shared = FALSE
  MaxOps = 0
INVARIANT ElapsedIsMeasured
