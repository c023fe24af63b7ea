SPECIFICATION FairSpec
CONSTANTS
  Task = {t1, t2}
  CPU = {c1, c2}
  BootCpu = c1
  Masks <- AnyMask
  AdminOps = {"policy", "kill"}
  TransitOps = {}
  Idle = Idle
  Boot = Boot
  NoTask = NoTask
  NoCpu = NoCpu
PROPERTY IdleRunsWork
