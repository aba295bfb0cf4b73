SPECIFICATION Spec
CONSTANTS
  Dialogs = {d1, d2, d3}
  Saved = {d1}
  None = None
  MaxSources = 3
  MaxPosts = 1
  MaxTroubles = 1
INVARIANT
  ShownIsAddressed
CHECK_DEADLOCK FALSE
