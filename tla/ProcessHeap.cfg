\* A thread that waits for an entry while it holds the mutex stops for good.
SPECIFICATION FairSpec
CONSTANTS
  reporting = reporting
  context = context
  com = com
  t1 = t1 t2 = t2
  None = None
  Threads = {t1, t2}
  Names = {reporting, context, com}
  PerThread = {context, com}
  Members <- MCMembers
  MaxAllocs = 1
  MaxObjects = 4
INVARIANTS OneObjectPerName ExitLeavesNothing
PROPERTIES FoundIsBuilt ReturnsUnlessDeadlocked
CHECK_DEADLOCK FALSE
