CONSTANTS
  t1 = t1
  t2 = t2
  t3 = t3
  a = a
  b = b
  Threads <- ThreeThreads
  Items <- TwoItems
  Blank = Blank
  MaxSize = 2
SPECIFICATION FairSpec
INVARIANTS RingInv
PROPERTIES ImplementsFifo PopsServed
