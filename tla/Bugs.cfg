SPECIFICATION Spec
CONSTANTS
  NoRow = NoRow
  Gone = Gone
  Null = Null
  bug1 = bug1
  bug2 = bug2
  fix1 = fix1
  impact1 = impact1
  prop1 = prop1
  todo1 = todo1
  Bugs = {bug1, bug2}
  Fixes = {fix1}
  Impacts = {impact1}
  Props = {prop1}
  Todos = {todo1}
  PlanBugs = {bug1}
  PlanImpacts = {}
  Dependents = {impact1}
  BugInputs = {"reported"}
  FixInputs = {"in_progress", "implemented"}
  PropInputs = {"skipped"}
  Originals = {bug2}
  Handled = {bug1}
  MaxRemoved = 2
  ImpactInputs = {"suspected", "skipped"}
INVARIANTS LiveRefsResolve GuardsAgree PassedIsVerified
PROPERTIES LiveLinksKept TerminalSticky OutcomesReachBugs CompletedPlanHolds
CHECK_DEADLOCK FALSE
