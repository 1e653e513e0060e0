SPECIFICATION Spec
CONSTANTS
  Absent = Absent
  content1 = content1
  content2 = content2
  entity1 = entity1
  entity2 = entity2
  Contents = {content1, content2}
  Entities = {entity1, entity2}
  MaxRevs = 4
INVARIANT WalksAgree
SYMMETRY Twins
PROPERTY RevertRestores
CHECK_DEADLOCK FALSE
