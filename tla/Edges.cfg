SPECIFICATION MCSpec
CONSTANTS
  Dirs <- Dir
  Names <- Name
  Builtins = {"Naturals"}
  Files <- File
  NoFile = NoFile
  Disks <- MCDisks
  Hosts = {"h1", "h2"}
  Blank = Blank
  Pins = {"p1", "p2"}
  NoPin = NoPin
  EmptyPin = ""
  BadPin = BadPin
  Ports = {0, 1, 7, 65535, 65536}
  NoPort = NoPort
  Documents <- MCDocuments
  NoArray = NoArray
  Headers <- MCHeaders
  Worlds <- MCWorlds
  CommandLines <- MCCommandLines
  TlsBuilds = {TRUE, FALSE}
  Urls = {"http://r"}
  Credentials = {"cert", "key", "ca"}
  Numbers <- MCNumbers
  Paths <- MCPaths
  NoDir = NoDir
  Numerals <- MCNumerals
  Word = 16
  Limit <- MCLimit
  LongStrings = {"long"}
  Digests = {"d"}
  WordChars <- MCWordChars
  Values <- MCValues
  Trees <- MCTrees
  MirrorMessages <- MCMirrorMessages
  Lines <- MCLines
  ClientMessages <- MCClientMessages
  Contracts <- MCContracts
  Replies <- MCReplies
  AdapterKeys <- MCAdapterKeys
  Clauses <- MCClauses
  Noise <- MCNoise
  Gaps <- MCGaps
  Kinds = {"stdio", "tcp", "tls"}
  MaxLine = 1
  Chunk = 2
  Pipe = 2
  Addresses = 2
  LineLengths = {0, 1, 3}
  MaxLines = 2
  MaxCalls = 3
CHECK_DEADLOCK FALSE
INVARIANTS
  ClosureExact
  RegistryExact
  CommandTruthful
  ValuesExact
  MessagesExact
  AdmissionExact
  ImportsExact
  TransportInv
  LinesWhole
PROPERTIES
  CommandEnds
  CallsEnd
