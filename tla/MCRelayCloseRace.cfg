\* A close meets a connection that is being started.
SPECIFICATION Spec
CONSTANTS
  Conns = {c1}
  Publishers = {}
  Closers = {k1}
  BoxRoom = 1
  HandlerCloses = {}
  SystemRefuses = FALSE
  Requests = {"subscribe", "unsubscribe", "publish", "broken"}
  MaxRequests = 1
  MaxPublishes = 1
SYMMETRY Symmetry
CHECK_DEADLOCK FALSE
INVARIANTS
  CloseLeavesNothing
