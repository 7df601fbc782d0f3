CONSTANTS
  w1 = w1
  w2 = w2
  w3 = w3
  m1 = m1
  m2 = m2
  Threads <- ThreeThreads
  Conns <- TwoConns
  None = None
  MaxInterrupts = 2
  AllowDestroy = TRUE
SPECIFICATION FairSpec
INVARIANTS LendingInv
PROPERTIES NullOnlyWhenAllLent WaitersServed
CHECK_DEADLOCK FALSE
