CONSTANTS
  t1 = t1
  t2 = t2
  t3 = t3
  t4 = t4
  Timers <- MCTimers
  Null = Null
  Life = 2
  MaxNow = 3
SPECIFICATION ListSpec
SYMMETRY Sym
INVARIANTS ListInv
PROPERTIES ImplementsSet
