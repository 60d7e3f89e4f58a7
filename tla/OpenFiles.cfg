SPECIFICATION OpenSpec
CONSTANTS
  Addrs = {a1, a2, a3, a4, a5, a6}
  NULL = NULL
  MaxOpenFiles = 2
  WordSize = 4
  MaxOps = 3
  MaxDepth = 2
INVARIANTS LookupAlive EntriesLinked NothingLost
CHECK_DEADLOCK FALSE
SYMMETRY Interchangeable
