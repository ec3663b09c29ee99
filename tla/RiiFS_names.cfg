SPECIFICATION Spec
CONSTANTS
  a = a
  b = b
  d1 = d1
  d2 = d2
  h1 = h1
  h2 = h2
  Unset = Unset
  Root = Root
  Paths = {a, b}
  Handles = {h1}
  Data = {d1, d2}
  DataLen <- MCDataLen
  FourByte = {}
  Modes <- Modes_Names
  Lengths = {1, 2}
  Offsets = {0}
  Ops <- NamesWorkload
  Drops = FALSE
  MaxFd = 2
  MaxSize = 2
  InitSize <- MCInitSize
INVARIANTS RunsWithCallArguments DescriptorAgreement ListingInOrder
