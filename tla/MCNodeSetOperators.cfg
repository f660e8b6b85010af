SPECIFICATION Spec
CONSTANTS
  Nodes <- FourNodes
  MaxLen = 3
  Null = Null
INVARIANTS ReturnsWhatItDenotes EveryPrefixIsRight
