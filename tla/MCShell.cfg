SPECIFICATION Spec
CONSTANTS
  hello = hello
  random = random
  dd = dd
  stuff = stuff
  new = new
  b = b
  zero = zero
  Names <- Paths
  TarFiles <- Disk
  Bytes = {b, zero}
  Zero = zero
  Buffers <- Written
  OpenNames <- ByHandle
  FlagSets <- Flags
  MaxLen = 2
  MaxFd = 5
  NoFile = NoFile
  NoName = NoName
  Arguments <- Args
  AppendNames <- Appended
INVARIANTS TypeOK RowsWereThere
PROPERTIES SoleAppenderKeeps StoreImplemented
