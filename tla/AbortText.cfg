SPECIFICATION SpecText
CONSTANTS
  Absent = Absent
  content1 = content1
  content2 = content2
  cascade1 = cascade1
  concept1 = concept1
  Contents = {content1}
  CascadeIds = {cascade1}
  Steps <- PairSteps
  LevelOf <- PairLevels
  TargetOf <- NoTargets
  MaxStepId = 2
  MrsEntities = {}
  Entities <- PairSteps
  ImportTrees <- PairImports
  MaxRevs = 3
  MaxEdits = 4
  text1 = text1
  text2 = text2
  Paragraphs = {1, 2, 3}
  Texts = {text1, text2}
  Documents <- DocumentsValue
PROPERTY AbortKeepsText
CHECK_DEADLOCK FALSE
