SPECIFICATION ViewSpec
CONSTANTS
    Kinds = {"tool", "done", "card"}
    Operational = {"tool", "done"}
    Expandable = {"card"}
    Found = {"card", "done"}
    PageSize = 3
    Height = 2
    MaxSequence = 4
    MaxSnapshots = 1
    MaxUnfolded = 1
INVARIANT DecidesSelected
CHECK_DEADLOCK FALSE
