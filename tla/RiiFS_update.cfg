SPECIFICATION Spec
CONSTANTS
  a = a
  b = b
  d1 = d1
  d2 = d2
  h1 = h1
  h2 = h2
  Unset = Unset
  Root = Root
  Paths = {a}
  Handles = {h1}
  Data = {d1, d2}
  DataLen <- MCDataLen
  FourByte = {}
  Modes <- Modes_Update
  Lengths = {1, 2}
  Offsets = {0}
  Ops <- UpdateWorkload
  Drops = FALSE
  MaxFd = 1
  MaxSize = 4
  InitSize <- MCInitSize
PROPERTY AcknowledgedWritesKept
CHECK_DEADLOCK FALSE
