CONSTANTS
  ByteBits = 3
  ShortBits = 4
  IntBits = 5
  LongBits = 6
  MsPerSecond = 2
  TicksPerMs = 2
  MaxSafe = 400
  MaxSafeInteger = 40
  Exponential = 50
  ImplicitTimezone = 0
  Dom <- MCDom
  NodePositions <- MCNodePositions
  TextLess <- MCTextLess
  Literals <- MCLiterals
  Constructed <- MCConstructed
  Targets <- MCTargets
  Operands <- MCOperands
  OtherSequences <- MCOtherSequences
SPECIFICATION Spec
INVARIANTS TypesAreTrue TextIsTheValue MonthsLater ComparisonsAgree
