SPECIFICATION SpecContext
CONSTANTS
  Absent = Absent
  content1 = content1
  content2 = content2
  cascade1 = cascade1
  concept1 = concept1
  relation1 = relation1
  Contents = {content1, content2}
  CascadeIds = {cascade1}
  Steps <- PairSteps
  LevelOf <- PairLevels
  TargetOf <- NoTargets
  MaxStepId = 2
  MrsEntities = {concept1, relation1}
  Entities <- PairAll
  ImportTrees <- RootImports
  MaxRevs = 3
  MaxEdits = 4
  Concepts = {concept1}
  MaxBlocks = 2
  Scopes <- ScopesValue
INVARIANTS BlocksCurrent
PROPERTIES HeadOpensGreen
CHECK_DEADLOCK FALSE
