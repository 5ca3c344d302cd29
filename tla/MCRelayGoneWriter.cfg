\* One far end that comes and goes.
SPECIFICATION FairSpec
CONSTANTS
  Conns = {c1}
  Publishers = {}
  Closers = {}
  BoxRoom = 1
  HandlerCloses = {}
  SystemRefuses = FALSE
  Requests = {"subscribe", "unsubscribe", "publish", "broken"}
  MaxRequests = 1
  MaxPublishes = 1
CHECK_DEADLOCK FALSE
PROPERTIES
  GoneLeavesNoWriter
