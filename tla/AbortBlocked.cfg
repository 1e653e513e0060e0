SPECIFICATION Spec
CONSTANTS
  Absent = Absent
  content1 = content1
  content2 = content2
  cascade1 = cascade1
  concept1 = concept1
  Contents = {content1}
  CascadeIds = {cascade1}
  Steps <- SpareSteps
  LevelOf <- SpareLevels
  TargetOf <- NoTargets
  MaxStepId = 3
  MrsEntities = {}
  Entities <- SpareSteps
  ImportTrees <- SpareImports
  MaxRevs = 3
  MaxEdits = 4
INVARIANT AbortNeverBlocked
CHECK_DEADLOCK FALSE
