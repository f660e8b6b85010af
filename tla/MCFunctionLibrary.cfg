CONSTANTS
  ByteBits = 3
  ShortBits = 4
  IntBits = 5
  LongBits = 6
  MsPerSecond = 2
  TicksPerMs = 1
  MaxSafe = 4000
  MaxSafeInteger = 5000
  Exponential = 6000
  ImplicitTimezone = 0
  WordBits = 8
  Multiplier = 5
  Modulus = 16
  MaxItems = 4
  MaxCalls = 2
  Dom <- MCDom
  NodePositions <- MCNodePositions
  TextLess <- MCTextLess
  Characters <- MCCharacters
  CurrentDateTime <- MCCurrentDateTime
  Starts <- MCStarts
  Arguments <- MCArguments
  InlineFunctions <- MCInlineFunctions
  InlineBody <- MCInlineBody
  Seeds <- MCSeeds
SPECIFICATION Spec
INVARIANTS NumbersStayExact ByPosition TakenApartAndJoined
PROPERTIES CallsAgree ByEquality
