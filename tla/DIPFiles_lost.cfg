SPECIFICATION Spec
CONSTANTS
  f1 = f1
  f2 = f2
  f3 = f3
  f4 = f4
  Files = {f1, f2}
  Size = 3
  Timeout = 1
  Interval = 1
  Lag = 1
  Wrap = 4
  NullFile = f1
  NULL = NULL
PROPERTY ExpiredAreClosed
