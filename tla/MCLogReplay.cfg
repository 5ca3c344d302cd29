\* Two threads publish up to three events in two sessions.
SPECIFICATION FairSpec
CONSTANTS
  CHANNEL_MAX = 1
  MAX_MESSAGE_LEN = 2
  Threads = {t1, t2}
  Payloads <- MCPayloads
  Times <- MCTimes
  Capacity = 9
  MaxTime = 1
  MaxEvents = 3
  MaxSessions = 2
  Starts <- MCStarts
CHECK_DEADLOCK FALSE
INVARIANTS LogInOrder AllTakenIsThere GivenAsWritten
PROPERTIES ReplayEnds
