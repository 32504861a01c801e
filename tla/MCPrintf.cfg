\* A screen of three columns and two rows, rows that wrap around at eight, and
\* three frame buffers.
CONSTANTS
  COLS = 3
  ROWS = 2
  BYTE = 8
  FrameBuffers <- MCFrameBuffers
  PAGE = 4096
  BACK = 2
  Formats <- MCFormats
  NIBBLES = 2
  NESTED = 3
  Stamp <- MCStamp
  Messages <- MCMessages
  Arguments <- MCArguments

SPECIFICATION Spec

INVARIANTS
  TypeOK
  CursorOnScreen
  TextIsShown

PROPERTIES
  StopsAreReported

CHECK_DEADLOCK FALSE
