SPECIFICATION Spec
CONSTANTS
  Absent = Absent
  first = first
  second = second
  Contents = {first, second}
  CascadeIds = {}
  Steps <- StepsValue
  LevelOf <- LevelsValue
  TargetOf <- TargetsValue
  MaxStepId = 4
  MrsEntities = {}
  Entities <- StepsValue
  ImportTrees <- ImportsValue
  MaxRevs = 2
  MaxEdits = 1
INVARIANTS VerdictsAgree WavesSound
PROPERTY OrderKept
CHECK_DEADLOCK FALSE
