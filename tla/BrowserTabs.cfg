SPECIFICATION Spec
CONSTANTS
  Tabs = {t1, t2}
  Device = device
  MaxSessions = 3
  MaxTroubles = 2
SYMMETRY Symmetry
INVARIANTS
  TypeOK
  OneActivePerFamily
  JarRenewable
PROPERTIES
  SignedOutForAReason
CHECK_DEADLOCK FALSE
