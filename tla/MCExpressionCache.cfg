CONSTANTS
  Source <- MCSource
  Call <- MCCall
  None = None
  Registered <- MCRegistered
  Registrable = {"p"}
  GeneratedURI = "generated"
  MaxEntries = 2
SPECIFICATION Spec
INVARIANTS CachedAsCompiled
PROPERTIES SameCallIsFound SameEntryForSameCall
