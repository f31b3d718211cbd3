SPECIFICATION ToolsSpec
CONSTANTS
  Tools = {"symbol", "pool", "indent", "chrono", "workers", "message", "papi", "enum", "coro"}
  Objs = {o1, o2, o3}
  Addrs = {f1, f2}
  Null = null
  Garbage = garbage
  MaxSteps = 5
  Threads = {t1, t2}
  NoThread = nobody
  Allocators = {p1, p2}
  InitialItems = 1
  MaxItems = 3
  MaxLines = 4
  Deltas <- GuardDeltas
  Accs = {a1, a2}
  Measures = {m1, m2}
  MaxTime = 4
  Memory = {0, 7}
  Workers = {w1, w2, w3}
  Loops = 2
  Programs = {"sum", "emplace", "churn", "timed"}
  Bodies = {"plain", "static", "atomic", "fetch", "cas", "mutex", "local"}
  Rounds = 2
  Sender = t1
  Receiver = t2
  Events = 2
  Limits <- EnumLimits
  MaxActs = 5
  Roots = {r1, r2}
  Tasks = {c1, c2, c3}
  Schedulers = {s1, s2}
  Nobody = none
  Shared = TRUE
  MaxOps = 5
INVARIANTS
  NamesMatch
  OneOwner
  IndentFollows
  ElapsedExact
  SumExact
  BarrierOpens
  MessageOrdered
  InitOnce
  CountsConserved
  ScansAroundZero
  LinksMatch
PROPERTIES
  Finishes
