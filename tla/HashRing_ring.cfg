CONSTANTS
  RingNode = {n1, n2, n3}
  Fallback = localhost
  HashSpace = 6
  VirtualNodes = 2
SPECIFICATION RingSpec
SYMMETRY Nodes
INVARIANTS RingTypeOK RingMatchesMembers
PROPERTY OnlyTheNodesKeysMove
