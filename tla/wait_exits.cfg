SPECIFICATION Spec
CONSTANTS
  lead = lead
  mate = mate
  kid = kid
  Task = {lead, mate, kid}
  Parent <- ParentOf
  Leader <- LeaderOf
  MaxQueues = 1
  Timeout = {2}
  MaxElapsed = 1
  Ops = {"queue", "exit"}
  NoTask = NoTask
  NoTarget = NoTarget
  NoTimeout = NoTimeout
INVARIANT WaitersSound
