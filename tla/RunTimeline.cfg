SPECIFICATION Spec
CONSTANTS
    MaxEvents = 3
    MaxBreaks = 2
    MaxOpens = 2
    MaxInbox = 2
    MaxReads = 1
    Outputs = 1
    Kinds = {"gate", "garbled", "done"}
INVARIANT TimelineComplete
INVARIANT EndedIsShown
PROPERTY FeedImplemented
CHECK_DEADLOCK FALSE
