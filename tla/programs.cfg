SPECIFICATION Spec
CONSTANTS
  RTask = {1, 2}
  RWriter = {8}
  RPage = {1}
  RFrame = {1, 2, 3}
  Kinds = {"elf"}
  Capacity = 1
  MaxVersion = 1
INVARIANTS ProgramTypes ProgramsSound ReadonlyPagesSound
PROPERTIES ConnectsEnd
CHECK_DEADLOCK FALSE
