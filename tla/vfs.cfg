SPECIFICATION Spec
CONSTANTS
  LTask = {1, 2}
  LOwner = {1, 2}
  Obj = {1, 2}
  Top = 1
  LOps = {"flock", "close"}
INVARIANTS VfsTypes DescriptorsAccounted LocksExclusive PagesSound
PROPERTIES OnlyOwnChanges
CHECK_DEADLOCK FALSE
