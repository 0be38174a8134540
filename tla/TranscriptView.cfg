SPECIFICATION ViewSpec
CONSTANTS
    Kinds = {"tool", "done", "card"}
    Operational = {"tool", "done"}
    Expandable = {"card"}
    Found = {"card", "done"}
    PageSize = 1
    Height = 2
    MaxSequence = 3
    MaxSnapshots = 1
    MaxUnfolded = 1
INVARIANT RowsAreCurrent
PROPERTY AnchorKept
