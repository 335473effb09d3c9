\* Two threads, a dummy and two more nodes, three pushes.
CONSTANTS
  Threads = {p1, p2}
  Nodes = {n1, n2, n3}
  First = n1
  Values = {a, b}
  None = None
  MaxPushes = 3
  SafeReuse = TRUE
  LowMemory = FALSE
  FreeLink = FreeLink
SPECIFICATION FairSpec
INVARIANTS NodesAccounted
PROPERTIES ImplementsQueue CallsReturn
