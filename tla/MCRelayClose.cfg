\* One connection, a local publisher and a close under the fairness of FairSpec.
SPECIFICATION FairSpec
CONSTANTS
  Conns = {c1}
  Publishers = {p1}
  Closers = {k1}
  BoxRoom = 1
  HandlerCloses = {}
  SystemRefuses = FALSE
  Requests = {"subscribe", "publish"}
  MaxRequests = 2
  MaxPublishes = 1
CHECK_DEADLOCK FALSE
PROPERTIES
  DispatchEnds
  CloseReturns
