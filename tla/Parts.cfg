SPECIFICATION PartsSpec
CONSTANTS
  Addresses <- SevenPages
  MaxPages = 3
  HashSize = 4
  Multiplier = 1
  HeapSize = 18
  Header = 2
  MaxRequest = 4
  RX_COUNT = 3
  TX_COUNT = 3
  MaxFrames = 7
  Producers = {1}
  Consumers = {0, 2}
  Puts = 2
  Modulus = 4
INVARIANTS FindExact HeapSound FramesExact MutualExclusion InitializedOnce
PROPERTIES ItemsTaken OnceReturns
CHECK_DEADLOCK FALSE
