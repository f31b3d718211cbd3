SPECIFICATION LocksSpec
CONSTANTS
  Locks = {"shared_mutex"}
  Threads = {t1, t2}
  MaxLocks = 2
INVARIANTS
  AssertNoReader
