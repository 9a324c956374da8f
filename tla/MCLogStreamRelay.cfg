CONSTANTS
  a = a
  b = b
  Pods = {a, b}
  NoPod = NoPod
  Lines <- ThreeAndOne
  Unterminated = {a}
  LogBuffer = 1
  MsgBuffer = 1
SPECIFICATION FairSpec
PROPERTIES
  RelayResolves
CHECK_DEADLOCK FALSE
