SPECIFICATION Spec
CONSTANTS
  Processes = {p1, p2}
  BufferSize = 3
  Chunk = 2
  EventMax = 3
  NEntries = 2
  MaxPeriod = 2
  Workloads <- Programs
SYMMETRY Symmetry
INVARIANTS DescriptorsValid QueueExact ExpirationsExact ReadyExact
