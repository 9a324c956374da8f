CONSTANTS
  a = a
  b = b
  Pods = {a, b}
  NoPod = NoPod
  Lines <- ThreeAndOne
  Unterminated = {a}
  LogBuffer = 1
  MsgBuffer = 1
SPECIFICATION FairSpec
INVARIANTS
  TypeOK
  CrashOnlyAfterCancel
  InOrder
  EndIsComplete
PROPERTIES
  PipeSpec
  NewInstanceFollowed
  LineArrives
  CancelEnds
  FiniteLogEnds
CHECK_DEADLOCK FALSE
