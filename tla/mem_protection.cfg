SPECIFICATION MSpec
CONSTANTS
  Space = {1, 2}
  NPage = 1
  Frame = {1, 2}
  NExt = 2
  NDev = 1
  Prots = {{"r", "w"}, {"r"}}
  MOps = {"mmap", "anon", "fault", "fork", "mprotect"}
INVARIANT ProtectionHolds
CHECK_DEADLOCK FALSE
