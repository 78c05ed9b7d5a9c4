SPECIFICATION Spec
CONSTANTS
  Volumes <- SafetyVolumes
  Programs = {"init", "static", "chrome"}
  Audited = {"chrome"}
  None = None
  Hash <- Hashes
  NBuckets = 2
  BloomBits = 8
  BloomShift = 2
  MaxObjects = 5
  MaxFunctions = 6
  MaxTlsSize = 10
  UserBase = 1
  InterpreterBase = 8
  LibraryBase = 11
  LibraryStride = 6
  LoadLimit = 30
  MmapBase = 31
  MmapLimit = 50
  StackPage = 51
  PageWords = 8
  TcbWords = 3
  DtvWords = 4
  MaxThreads = 3
INVARIANTS ImageIntact SymbolsBound TlsModelsAgree NothingLeaked
