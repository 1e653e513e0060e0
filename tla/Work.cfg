SPECIFICATION Spec
CONSTANTS
  todo1 = todo1
  todo2 = todo2
  todo3 = todo3
  attempt1 = attempt1
  attempt2 = attempt2
  attempt3 = attempt3
  attempt4 = attempt4
  review1 = review1
  review2 = review2
  escalation1 = escalation1
  step1 = step1
  step2 = step2
  NoRow = NoRow
  Gone = Gone
  Null = Null
  Todos = {todo1, todo2, todo3}
  Attempts = {attempt1, attempt2, attempt3, attempt4}
  Reviews = {review1, review2}
  Escalations = {escalation1}
  StepOf <- StepOfValue
  ReviewOf <- ReviewOfValue
  People = {"agent", "owner"}
  Handled = {todo1}
  UpdateInputs = {"in_progress", "cancelled"}
  LinkTypes = {"blocks", "blocked_by"}
  AttemptInputs = {"running", "needs_review"}
  MaxLinks = 3
INVARIANT BlockingAcyclic
PROPERTIES FinishedStays SupersededOnce PlanWorkHolds
CHECK_DEADLOCK FALSE
