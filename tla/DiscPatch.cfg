SPECIFICATION Spec
CONSTANTS
  x = x
  y = y
  z = z
  g = g
  h = h
  missing = missing
  sd = sd
  usb = usb
  None = None
  Unreadable = Unreadable
  Names = {x, y, z}
  Disc <- MCDisc
  DiscSize = 9
  Elements <- AllElements
  Patches <- AllPatches
  Files = {g, h, missing}
  FileSize <- MCFileSize
  Present = {g, h}
  FileSystems = {sd, usb}
  FileSystemOf <- TwoFileSystems
  MaxFound = 2
  Align = 2
  WordSize = 2
  HighWord = 100
  Partitions = {"data", "update"}
  GamePartition = "data"
INVARIANTS TypeOK PiecesAgree OtherPartitionsUntouched ClustersOnCommonFilesystem
PROPERTY ViewSpec
