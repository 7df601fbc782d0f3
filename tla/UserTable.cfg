CONSTANTS
  None = None
  Threads = {t1, t2}
  Names = {alice, bob}
  Passwords = {p1, p2}
  MaxRows = 3
SPECIFICATION Spec
SYMMETRY Sym
INVARIANTS TableInv AccountsWork
PROPERTIES PasswordKept
