SPECIFICATION Spec
INVARIANTS FileTypes TransfersSound NamesSound
PROPERTIES NothingElseChanges
CHECK_DEADLOCK FALSE
