SPECIFICATION Spec
CONSTANTS
  Cpu = {1, 2}
  Aspace = {1, 2}
  Asid = {1}
  MaxVer = 1
  MaxSeq = 2
  TlbOps = {"remote", "ipifail", "timeout"}
  FCpu = {1, 2}
  NFrame = 4
  Reserved = {2}
  Capacity = 2
  LowMark = 1
  Batch = 2
  MaxRef = 2
INVARIANTS MemoryTypes MappingsSound FramesAccounted TlbCoherent
PROPERTIES SpacesIsolated EveryShootdownEnds
CHECK_DEADLOCK FALSE
