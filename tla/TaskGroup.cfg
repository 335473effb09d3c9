\* Two clients share a pool of one worker.
CONSTANTS
  w1 = w1 w2 = w2 c1 = c1 c2 = c2 a = a b = b c = c d = d e = e
  None = None
  Workers = {w1}
  Clients = {c1, c2}
  Tasks = {a, b, c, d, e}
  RunBy <- MCRunBy
  Into <- MCInto
  Cancellers = {d}
SPECIFICATION FairSpec
INVARIANTS WaitComplete GroupOutlivesTasks CancelEnds
PROPERTIES ReturnsUnlessStarved
