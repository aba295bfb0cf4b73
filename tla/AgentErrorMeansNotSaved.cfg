SPECIFICATION Spec
CONSTANTS
  Dialogs = {d1}
  Runs = {r1, r2}
  Subs = {}
  MaxDeltas = 1
  QueueSize = 2
  CLOSED = CLOSED
  NoDialog = NoDialog
  NoRun = NoRun
INVARIANT ErrorMeansNotSaved
CHECK_DEADLOCK FALSE
