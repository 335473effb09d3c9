\* Two setters, a resetter and a waiter, timed or not, on two flags.
CONSTANTS
  s1 = s1 s2 = s2 r1 = r1 w1 = w1 w2 = w2 x = x y = y NoThread = NoThread
  EventSetters = {s1, s2}
  Resetters = {r1}
  Waiters = {w1}
  Bits = {x, y}
  Timeout = 1
  MaxTime = 1
SPECIFICATION FairEventSpec
INVARIANTS NoLostWakeup
PROPERTIES SetReleases NeverEarly
