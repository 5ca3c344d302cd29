\* A publisher, a subscriber and a flush meet a line that holds one frame and
\* a writer that takes the other lane first; each calls twice.
CONSTANTS
  Publishers = {p1}
  Subscribers = {s1}
  Flushers = {f1}
  OUTBOX_BYTES = 1
  OUTBOX_CONTROL_BYTES = 1
  FRAME_COST = 1
  Lens = {2}
  MaxCalls = 2
SPECIFICATION Spec
INVARIANTS CountedOnce UnsentExact FlushHonest NoLostWakeup
PROPERTIES NoFrameInsideAnother KeepsPromise
