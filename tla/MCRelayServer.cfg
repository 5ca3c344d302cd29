\* Two connections, each with two requests of any kind: every interleaving of
\* the accept thread, the two readers, their fan-outs and the two writers, on a
\* system that may refuse a thread or an accept.
SPECIFICATION Spec
CONSTANTS
  Conns = {c1, c2}
  Publishers = {}
  Closers = {}
  BoxRoom = 1
  HandlerCloses = {}
  SystemRefuses = TRUE
  Requests = {"subscribe", "unsubscribe", "publish", "broken"}
  MaxRequests = 2
  MaxPublishes = 1
SYMMETRY Symmetry
CHECK_DEADLOCK FALSE
INVARIANTS
  InOrderOnce
  EveryMatchGetsIt
  NoMessageStranded
