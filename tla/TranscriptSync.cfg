SPECIFICATION Spec
CONSTANTS
    PageSize = 2
    MaxSequence = 5
    MaxEpoch = 2
    MaxRewritten = 3
    MaxPages = 2
    MaxInbox = 2
INVARIANT NothingLost
INVARIANT NothingForeign
INVARIANT SettledIsCurrent
PROPERTY NeverGoesBack
