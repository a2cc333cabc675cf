SPECIFICATION LexSpec
CONSTANTS
  Uninitialised = Uninitialised
  Characters <- AllCharacters
  Newline <- NL
  Space = " "
  OtherBlanks <- Tab
  EndingBytes = {"0x00", "0xFF"}
  Zero = "0x00"
  Files <- SomeFiles
INVARIANTS
  EveryOffsetOnItsLine
  CursorOnLine
  SourceIsTiled
  ConstantsAreTokens
PROPERTIES
  ScanEnds
CHECK_DEADLOCK FALSE
