SPECIFICATION LocksSpec
CONSTANTS
  Locks = {"shared_mutex", "spinlock"}
  Threads = {t1, t2, t3}
  MaxLocks = 3
INVARIANTS
  RefcountMeaning
  NoDataRace
  Exclusion
  CounterRaceFree
PROPERTIES
  ImplementsRWLock
  Granted
