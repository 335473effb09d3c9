\* The same queue with the nodes given out as the pool does it: ABA.
CONSTANTS
  Threads = {p1, p2}
  Nodes = {n1, n2, n3}
  First = n1
  Values = {a, b}
  None = None
  MaxPushes = 3
  SafeReuse = FALSE
  LowMemory = FALSE
  FreeLink = FreeLink
SPECIFICATION Spec
INVARIANT AtRestNothingLost
