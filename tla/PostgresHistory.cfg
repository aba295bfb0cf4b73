SPECIFICATION Spec
CONSTANTS
  Dialogs = {d1, d2}
  Exchanges = {e1, e2}
  Scores = {1}
  None = None
  Clients = {c1, c2}
SYMMETRY Symmetry
INVARIANTS
  TypeOK
  PositionsDense
  OneReportPerAnswer
  ReviewIsNewsUntilSeen
PROPERTIES
  ImplementsStore
CHECK_DEADLOCK FALSE
