SPECIFICATION DriversSpec
CONSTANTS
  Size = 3
  Byte = {k1, k2}
  Lens = {0, 1, 3}
  NoByte = NoByte
  RxSize = 3
  RxByte = {b1, b2}
  RxLens = {0, 1}
  KEYBOARD = KEYBOARD
  UART = UART
INVARIANT FreedIsNotUsed
