SPECIFICATION LateSpec
CONSTANTS
  Operations = {op1, op2}
  Methods = {FetchResults, GetOperationStatus}
  MaxCalls = 4
INVARIANT AnswersLag
PROPERTY CallReturns
CHECK_DEADLOCK FALSE
