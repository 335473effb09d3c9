\* Three threads on two blocks, with a tag of two bits.
CONSTANTS
  t1 = t1 t2 = t2 t3 = t3
  Threads = {t1, t2, t3}
  nblocks = 2
  Tags = 4
SPECIFICATION Spec
INVARIANTS ListIntact IInv
PROPERTIES AllocatesFreeBlock ImplementsIndexPool
SYMMETRY MCSymmetry
