CONSTANTS
  NumStmts = 2
  MaxJobs = 2
  MaxLosses = 2
  MaxResults = 2
SPECIFICATION Spec
INVARIANT ErrorTextIntact
CHECK_DEADLOCK FALSE
