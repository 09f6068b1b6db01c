SPECIFICATION Spec
CONSTANTS
  MemUpper = 27
  LowMem = 13
  WordBits = 4
  ByteBits = 3
  PageSize = 2
  Mmap <- McMmap
  KernelStart = 3
  KernelAfter = 4
  Instants <- McInstants
  BinaryModes = {TRUE, FALSE}
  AttemptTicks = 3
  Vectors = {13, 17, 32, 33, 44}
  HexDigits = 3
  Base = 2
  ReadLens = {2, 5}
  PMM = PMM
  CLOCK = CLOCK
  TIMERS = TIMERS
INVARIANT TouchedKept
CHECK_DEADLOCK FALSE
