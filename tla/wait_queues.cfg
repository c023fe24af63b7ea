SPECIFICATION FairSpec
CONSTANTS
  lead = lead
  mate = mate
  kid = kid
  Task = {lead, mate, kid}
  Parent <- ParentOf
  Leader <- LeaderOf
  MaxQueues = 2
  Timeout = {1, 2}
  MaxElapsed = 2
  Ops = {"queue", "manual"}
  NoTask = NoTask
  NoTarget = NoTarget
  NoTimeout = NoTimeout
INVARIANTS TypeOK WaitersSound
PROPERTIES TimedWaitEnds
