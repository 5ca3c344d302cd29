\* Two threads with two changes each, over a name, its text as a pattern and its
\* escaped form as a pattern, a pattern only the client compiles, one it does
\* not, a name the relay does not read, and a line that one frame fills.
SPECIFICATION FairSpec
CONSTANTS
  Threads = {t1, t2}
  Names = {"a.b", "a...b"}
  Patterns = {"a.b", "escaped a.b", "only here", "(bad"}
  Escape <- MCEscape
  BadPatterns = {"(bad"}
  RelayRefuses = {"only here"}
  TooLong = {"escaped a...b"}
  Opening <- MCOpening
  Room = 1
  MaxCalls = 2
  NoThread = NoThread
CHECK_DEADLOCK FALSE
INVARIANTS RelayAgrees
PROPERTIES CallsReturn
