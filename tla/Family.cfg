SPECIFICATION SpecText
CONSTANTS
  Absent = Absent
  content1 = content1
  content2 = content2
  cascade1 = cascade1
  concept1 = concept1
  Contents = {content1}
  CascadeIds = {cascade1}
  Steps <- FamilySteps
  LevelOf <- FamilyLevels
  TargetOf <- NoTargets
  MaxStepId = 3
  MrsEntities = {}
  Entities <- FamilySteps
  ImportTrees <- FamilyImports
  MaxRevs = 3
  MaxEdits = 4
  text1 = text1
  text2 = text2
  Paragraphs = {1, 2, 3, 4}
  Texts = {text1, text2}
  Documents <- DocumentsValue
INVARIANTS TreeWellFormed StepIdsUnique TextRecorded TextDense
PROPERTIES AbortRestoresBase DepsKept FrozenDepsHeld ImplementsPublishedText
CHECK_DEADLOCK FALSE
