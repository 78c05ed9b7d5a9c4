SPECIFICATION Spec
CONSTANTS
  Addresses <- SevenPages
  MaxPages = 2
  HashSize = 4
  Multiplier = 1
INVARIANT CapacityAvailable
