SPECIFICATION Spec
CONSTANTS
    MaxId = 5
    MaxSwitches = 2
    MaxInbox = 1
INVARIANT TypeOK
INVARIANT EntriesAreBacked
PROPERTY AnswersTheirRequest
PROPERTY PendingIsAnswered
CHECK_DEADLOCK FALSE
