SPECIFICATION Spec
CONSTANTS
  Tabs = {t1, t2}
  Device = device
  MaxSessions = 3
  MaxTroubles = 1
PROPERTIES
  RenewalEnds
CHECK_DEADLOCK FALSE
