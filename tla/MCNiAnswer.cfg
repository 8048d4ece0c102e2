CONSTANTS
    MaxRequests = 2
    MaxRestarts = 0
SPECIFICATION Spec
INVARIANT AnswerIsUsers
CHECK_DEADLOCK FALSE
