SPECIFICATION Spec
CONSTANTS
  Dialogs = {d1, d2}
  Saved = {d1}
  None = None
  MaxSources = 3
  MaxPosts = 2
  MaxTroubles = 1
INVARIANTS
  TypeOK
  OneStory
  LockIsOwed
PROPERTY
  FormUnlocks
CONSTRAINT Followed
CHECK_DEADLOCK FALSE
