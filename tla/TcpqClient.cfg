\* A client with a handler or without, and two closes beside the handler's own, under the fairness of FairSpec.
SPECIFICATION FairSpec
CONSTANTS
  Closers = {k1, k2}
  Addresses = 2
  MaxAsks = 1
  Room = 1
  MaxFrames = 2
  MaxPuts = 2
CHECK_DEADLOCK FALSE
INVARIANTS
  CloseWaits
PROPERTIES
  ToldTheTruth
  
  CallsReturn
