SPECIFICATION FairSpec
CONSTANTS
  Thread = {t1, t2}
  t1 = t1
  k1 = k1
  k2 = k2
  k3 = k3
  k4 = k4
  k5 = k5
  Key = {k1, k2, k3, k4, k5}
  Value = {v1}
  nullkey = nullkey
  nullidx = nullidx
  NoOp = NoOp
  Pending = Pending
  Full = Full
  NSlots = 4
  Home <- MCHome
  KeysOf <- MCKeysOf
INVARIANTS OneSlotPerKey NoGapBeforeKey
PROPERTIES ThrowsOnlyWhenFull ReclaimIsComplete ImplementsMap ReclaimReturns
