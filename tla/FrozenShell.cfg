SPECIFICATION Spec
CONSTANTS
  Absent = Absent
  content1 = content1
  content2 = content2
  cascade1 = cascade1
  concept1 = concept1
  Contents = {content1, content2}
  CascadeIds = {cascade1}
  Steps <- BranchSteps
  LevelOf <- BranchLevels
  TargetOf <- NoTargets
  MaxStepId = 2
  MrsEntities = {}
  Entities <- BranchSteps
  ImportTrees <- BranchImports
  MaxRevs = 3
  MaxEdits = 4
INVARIANT FrozenShellHasDoor
CHECK_DEADLOCK FALSE
