SPECIFICATION Spec
CONSTANTS
  Task = {t1, t2, t3}
  CPU = {c1, c2}
  BootCpu = c1
  Masks <- AnyMask
  AdminOps = {}
  TransitOps = {}
  Idle = Idle
  Boot = Boot
  NoTask = NoTask
  NoCpu = NoCpu
SYMMETRY Symmetry
INVARIANTS TypeOK OneOwner CurrentIsHardware IdleSeesWork
PROPERTIES OwnCpuSwitches
