\* Three publishers contend for a line that two small frames or a large one fill,
\* under the fairness of FairSpec; no deadline is assumed to pass.
CONSTANTS
  Publishers = {p1, p2, p3}
  Subscribers = {}
  Flushers = {}
  OUTBOX_BYTES = 2
  OUTBOX_CONTROL_BYTES = 1
  FRAME_COST = 1
  Lens = {1, 2}
  MaxCalls = 1
SPECIFICATION FairSpec
INVARIANTS TypeOK ByteBudget LineIsTheWaiters
PROPERTIES EveryCallReturns EveryFrameSettles WriterEnds
