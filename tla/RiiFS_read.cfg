SPECIFICATION Spec
CONSTANTS
  a = a
  b = b
  d1 = d1
  d2 = d2
  h1 = h1
  h2 = h2
  Unset = Unset
  Root = Root
  Paths = {a}
  Handles = {h1, h2}
  Data = {d1, d2}
  DataLen <- MCDataLen
  FourByte = {}
  Modes <- Modes_Read
  Lengths = {1, 2}
  Offsets <- Offsets_Read
  Ops <- ReadWorkload
  Drops = FALSE
  MaxFd = 2
  MaxSize = 2
  InitSize <- MCInitSize
SYMMETRY Symmetry
INVARIANTS TypeOK RunsWithCallArguments PositionAgreement DescriptorAgreement
