SPECIFICATION CallSpec
CONSTANTS
  Routes <- MCRoutes
  NewOperations <- MCNewOperations
  NewErrors <- MCNewErrors
  NewRequired <- MCNewRequired
  NewReturned <- MCNewReturned
INVARIANTS
  AnswerArrives
  SameBuildUnderstands
CHECK_DEADLOCK FALSE
