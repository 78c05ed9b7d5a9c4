SPECIFICATION Spec
CONSTANTS
  Spaces = {s1, s2}
  Frames = {f1, f2, f3}
  NoFrame = NoFrame
  NPages = 2
  MmapBase = 2
  StackBase = 2
  Memfds = {m1}
  NFilePages = 1
  Values = {0, 1}
  Zero = 0
  Protections <- Requested
  ImageProtections <- Images
SYMMETRY Symmetry
INVARIANTS RefcountExact WriteIsolation WriteXorExec
PROPERTY ImplementsMemory
