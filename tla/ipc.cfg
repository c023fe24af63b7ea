SPECIFICATION Spec
CONSTANTS
  PTask = {1, 2}
  PCap = {1, 2}
  PBuf = 2
  PMaxLen = 2
  PModes = {FALSE}
  POps = {"read", "write", "lease", "fork", "close", "signal"}
INVARIANTS IpcTypes PipeSound  EndpointsSound
PROPERTY ImplementsStream
CHECK_DEADLOCK FALSE
