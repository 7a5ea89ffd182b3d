SPECIFICATION FairLineSpec
CONSTANTS
  Kinds = {"stdio"}
  MaxLine = 2
  Chunk = 2
  Pipe = 3
  Addresses = 2
  LineLengths = {2, 9}
  MaxLines = 1
  MaxCalls = 2
CHECK_DEADLOCK FALSE
PROPERTIES
  CloseReaps
