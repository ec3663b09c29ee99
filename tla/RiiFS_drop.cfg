SPECIFICATION FairSpec
CONSTANTS
  a = a
  b = b
  d1 = d1
  d2 = d2
  h1 = h1
  h2 = h2
  Unset = Unset
  Root = Root
  Paths = {a}
  Handles = {h1}
  Data = {d1}
  DataLen <- MCDataLen
  FourByte = {}
  Modes <- Modes_Drop
  Lengths = {2}
  Offsets = {1}
  Ops <- DropWorkload
  Drops = TRUE
  MaxFd = 1
  MaxSize = 3
  InitSize <- MCInitSize
INVARIANTS RepliesMatch OptionAgreement
PROPERTIES AcknowledgedWritesKept CallReturns
