SPECIFICATION MSpec
CONSTANTS
  Task = {1, 2, 3}
  Pid = {1, 2, 3, 4}
  Ops = {"fork", "exit", "wait", "stop"}
  Thread = {1}
  Sig = {14, 17}
  MaxFrames = 1
  SigOps = {"kill", "sigwait", "action", "exec", "fault", "suspend", "mask"}
  TProc = {1}
  TCpu = {1, 2}
  TimerId = {1}
  MaxNow = 2
  MaxSpan = 1
  MaxGen = 2
  TOps = {"real"}
INVARIANTS ProcessTypes  
PROPERTY TimersExact
CHECK_DEADLOCK FALSE
