SPECIFICATION Spec
CONSTANTS
  Dialogs = {d1, d2}
  Runs = {r1, r2, r3}
  Subs = {}
  MaxDeltas = 1
  QueueSize = 2
  CLOSED = CLOSED
  NoDialog = NoDialog
  NoRun = NoRun
SYMMETRY Symmetry
INVARIANTS
  TypeOK
  OneActiveRun
  SavedInOrder
  ContextComplete
  EventsInOrder
  OutcomePublished
  ShutdownQuiet
CHECK_DEADLOCK FALSE
