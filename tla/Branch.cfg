SPECIFICATION Spec
CONSTANTS
  Absent = Absent
  content1 = content1
  content2 = content2
  cascade1 = cascade1
  concept1 = concept1
  Contents = {content1, content2}
  CascadeIds = {cascade1}
  Steps <- BranchSteps
  LevelOf <- BranchLevels
  TargetOf <- NoTargets
  MaxStepId = 2
  MrsEntities = {concept1}
  Entities <- BranchAll
  ImportTrees <- BranchImports
  MaxRevs = 4
  MaxEdits = 4
INVARIANTS TypeOK CascadeAnchored RowsRecorded HistoryKept
PROPERTIES FrozenTruth StaleDescendantsFlagged ExecutionKept ImplementsPublishedPlan
CHECK_DEADLOCK FALSE
