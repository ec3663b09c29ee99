SPECIFICATION Spec
CONSTANTS
  f1 = f1
  f2 = f2
  f3 = f3
  f4 = f4
  Files = {f1, f2, f3, f4}
  Size = 3
  Timeout = 2
  MaxAge = 3
CONSTRAINT AgesBounded
INVARIANTS TypeOK Distinct Sorted
