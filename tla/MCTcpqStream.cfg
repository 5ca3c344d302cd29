\* Every stream of twelve cells over twelve kinds of frame, read by a client and
\* by a relay, through a buffer of two cells that may grow to one frame.
SPECIFICATION StreamSpec
CONSTANTS
  Floor = 2
  Ceiling = 7
  Stream = 12
  Needs = {}
  MAX_CHANNEL_LEN = 1
  CHANNEL_READ_MAX = 2
  MAX_MESSAGE_LEN = 2
  Frames <- MCFrames
  MaxFrames = 4
CHECK_DEADLOCK FALSE
INVARIANTS
  TypeOK
  UnreadIsNext
  NeverFull
  RoomIsBought
  DecoderKeepsContract
  GivenAsSent
