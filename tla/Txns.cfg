SPECIFICATION Spec
CONSTANTS
  None = None
  Untimed = Untimed
  Sessions = {1, 2, 3}
  MaxStepId = 4
  Kinds = {"create", "edit", "transition", "begin", "unfreeze", "cascade_commit", "cascade_abort", "report"}
  Activation <- ActivationValue
  LinkedAt <- LinkedAtValue
INVARIANTS LockExcludes CascadesConsistent CreatedStepsKept ReportsKept
PROPERTIES ImplementsPlanLedger CommandsEnd
CHECK_DEADLOCK FALSE
