\* Two threads, three chunks of two blocks.
CONSTANTS
  Threads = {p1, p2}
  Chunks = {c1, c2, c3}
  Blocks = {1, 2}
  MaxTarget = 2
  None = None
SPECIFICATION FairSpec
INVARIANTS ChunksAccounted NothingDangles
PROPERTIES ImplementsPool CallsReturn
