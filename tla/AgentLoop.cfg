SPECIFICATION Spec
CONSTANTS
  name = name
  Fragments = {f1, f2}
  Ids = {i1}
  Names <- MCNames
  Tools <- MCTools
  None = None
  MaxIterations = 2
  MaxPairs = 1
  MaxText = 2
INVARIANTS
  TypeOK
  CallsAnswered
  NeitherBlamesTheOther
PROPERTIES
  ImplementsAnswerStream
