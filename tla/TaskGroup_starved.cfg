\* Two clients that share the pool.
CONSTANTS
  w1 = w1 w2 = w2 c1 = c1 c2 = c2 a = a b = b c = c d = d e = e
  None = None
  Workers = {w1, w2}
  Clients = {c1, c2}
  Tasks = {a, b, c, d}
  RunBy <- MCRunBy
  Into <- MCInto
  Cancellers = {}
SPECIFICATION FairSpec
INVARIANTS WaitingSteals
