SPECIFICATION Spec
CONSTANTS
  Task = {t1, t2}
  CPU = {c1, c2}
  BootCpu = c1
  Masks <- AnyMask
  AdminOps = {"kill", "affinity", "notify"}
  TransitOps = {}
  Idle = Idle
  Boot = Boot
  NoTask = NoTask
  NoCpu = NoCpu
SYMMETRY Symmetry
INVARIANT RequestsDrained
 
