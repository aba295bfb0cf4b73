SPECIFICATION MCSpec
CONSTANTS
  Dialogs = {d1, d2}
  Subs = {s1, s2}
  Events = {e1, e2}
  QueueSize = 2
  CLOSED = CLOSED
  NoDialog = NoDialog
  MaxOffered = 3
INVARIANTS
  TypeOK
  RegisteredIffOpen
  SentinelEndsQueue
  GapFreeWhileOpen
  LossAtClosing
PROPERTIES
  ShutdownEndsStreams
CHECK_DEADLOCK FALSE
