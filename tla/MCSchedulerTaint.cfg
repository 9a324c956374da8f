CONSTANTS
  p1 = p1
  p2 = p2
  n1 = n1
  n2 = n2
  g1 = g1
  g2 = g2
  g3 = g3
  Pods = {p1, p2}
  Nodes = {n1}
  NodeStates = {"absent", "ready", "tainted"}
  GPUIDs = {g1}
  PodSpec <- TwoShares
  NodeSpec <- OneGpuEach
  NoNode = NoNode
  NoId = NoId
  FreshId = FreshId
  MaxPatchErrors = 0
  MaxLostReplies = 0
  MaxNodeChanges = 0
  MaxRestarts = 0
SPECIFICATION FairSpec
PROPERTIES
  PlacementReturns
