\* Two threads of one client, names and payloads on both sides of each limit of
\* the encoder, and up to two datagrams that the network repeats or another
\* program sends, for a receiver whose budget two messages exceed.
SPECIFICATION Spec
CONSTANTS
  Clients = {a}
  Workers = {w1, w2}
  Names = {1, 2, 4, 5}
  Lens = {3, 6, 7}
  short_max = 5
  HEADER_GAP = 1
  MAX_CHANNEL_LEN = 3
  MAX_MESSAGE_LEN = 7
  MAX_COUNT = 3
  MAX_FRAGMENT_BUFFERS = 2
  MAX_FRAGMENT_BYTES = 7
  PIECE_COST = 1
  SEQ_SPAN = 4
  MaxPublishes = 1
  MaxFaults = 2
  Strays <- SomeStrays
SYMMETRY Symmetry
CHECK_DEADLOCK FALSE
INVARIANTS
  HeldBudget
  MessagesWhole
  NoMoreThanCame
  AllCameIsGiven
  FitsDatagram
PROPERTIES
  OwnNeverRefused
