\* Two workers, two clients, nested dispatch, join when dispatching is over.
CONSTANTS
  w1 = w1 w2 = w2 c1 = c1 c2 = c2 a = a b = b c = c
  None = None
  Workers <- MCWorkers
  Clients <- MCClients
  Owner = c1
  Tasks <- NestedTasks
  Children <- NestedChildren
  OrderlyJoin = TRUE
SPECIFICATION FairSpec
INVARIANTS FlushComplete ConstructorSettles NoLostWakeup JoinDrains IInv
PROPERTIES EveryTaskRuns CallsReturn
