SPECIFICATION Spec
CONSTANTS
  Cols = 3
  Rows = 3
  Contexts = 2
  TabStop = 2
  KbdMax = 3
  KbdSize = 3
  Keys <- McKeys
  JunkVks <- McJunkVks
  KeyTexts <- McKeyTexts
  Bufs <- McBufs
  Rooms <- McRooms
  MaxKeys = 3
  MaxCalls = 4
INVARIANTS
  CursorInText
  ScreenInStep
PROPERTIES
  ImplementsTerminals
  TypedIsRead
CHECK_DEADLOCK FALSE
