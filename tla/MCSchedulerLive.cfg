CONSTANTS
  p1 = p1
  p2 = p2
  n1 = n1
  n2 = n2
  g1 = g1
  g2 = g2
  g3 = g3
  Pods = {p1, p2}
  Nodes = {n1}
  NodeStates = {"absent", "ready"}
  GPUIDs = {g1, g2}
  PodSpec <- ShareAndPlain
  NodeSpec <- OneGpuEach
  NoNode = NoNode
  NoId = NoId
  FreshId = FreshId
  MaxPatchErrors = 1
  MaxLostReplies = 0
  MaxNodeChanges = 1
  MaxRestarts = 1
SPECIFICATION FairSpec
PROPERTIES
  ParkedRetried
  PlacedEventually
