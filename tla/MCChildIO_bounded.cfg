SPECIFICATION Spec
CONSTANTS
  Kinds <- MCKinds
  Pipe = 2
  Cap = 3
  MaxOut = 6
INVARIANTS
  TypeOK
  AnswerIsWhole
  NoStray
PROPERTIES
  Returns
