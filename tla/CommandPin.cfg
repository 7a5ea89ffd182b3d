SPECIFICATION CommandSpec
CONSTANTS
  Dirs <- Dir
  Names <- Name
  Builtins = {"Naturals"}
  Files <- File
  NoFile = NoFile
  Disks <- MCDisks
  Hosts = {"h1", "h2"}
  Blank = Blank
  Pins = {"p1", "p2"}
  NoPin = NoPin
  EmptyPin = ""
  BadPin = BadPin
  Ports = {0, 1, 7, 65535, 65536}
  NoPort = NoPort
  Documents <- MCDocuments
  NoArray = NoArray
  Headers <- MCHeaders
  Worlds <- MCWorlds
  CommandLines <- MCCommandLines
  TlsBuilds = {TRUE, FALSE}
  Urls = {"http://r"}
  Credentials = {"cert", "key", "ca"}
  Numbers <- MCNumbers
  Paths <- MCPaths
  NoDir = NoDir
CHECK_DEADLOCK FALSE
INVARIANTS
  PinHonoured
