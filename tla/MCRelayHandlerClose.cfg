\* A local handler that closes its own relay.
SPECIFICATION Spec
CONSTANTS
  Conns = {c1}
  Publishers = {}
  Closers = {}
  BoxRoom = 1
  HandlerCloses = {c1}
  SystemRefuses = FALSE
  Requests = {"subscribe", "unsubscribe", "publish", "broken"}
  MaxRequests = 1
  MaxPublishes = 1
SYMMETRY Symmetry
CHECK_DEADLOCK FALSE
INVARIANTS
  NoSelfJoin
