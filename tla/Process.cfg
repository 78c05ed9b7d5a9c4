SPECIFICATION Spec
CONSTANTS
  NSlots = 3
  Spaces = {a1, a2}
  NoSpace = NoSpace
  Addresses = {1}
  Stores = {1}
  Signals = {1}
  MaxDelay = 0
  Workloads <- Safety
SYMMETRY Symmetry
INVARIANT ReferencesExact
PROPERTIES ZombieKept JoinersWoken NoEscape
