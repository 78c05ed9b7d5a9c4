SPECIFICATION Spec
CONSTANTS
  NSlots = 3
  Spaces = {a1, a2}
  NoSpace = NoSpace
  Addresses = {1}
  Stores = {}
  Signals = {1}
  MaxDelay = 1
  Workloads <- Liveness
PROPERTIES RunnableRuns DeadlinesFire
