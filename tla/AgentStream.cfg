SPECIFICATION FairSpec
CONSTANTS
  Dialogs = {d1}
  Runs = {r1, r2}
  Subs = {s1}
  MaxDeltas = 0
  QueueSize = 2
  CLOSED = CLOSED
  NoDialog = NoDialog
  NoRun = NoRun
INVARIANTS
  ReceivedEndIsSaved
PROPERTIES
  UsesBroker
  RunEnds
  ShutdownReturns
CHECK_DEADLOCK FALSE
