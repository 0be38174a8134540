SPECIFICATION Spec
CONSTANTS
    s1 = s1
    s2 = s2
    r1 = r1
    here = here
    w1 = w1
    NoId = NoId
    Sessions <- TwoSessions
    Runs <- OneRun
    LogScopes <- WorkspaceScope
    Workspaces <- OneWorkspace
    Home = w1
    MaxInFlight = 1
    MaxInbox = 1
SYMMETRY SessionSymmetry
INVARIANT TypeOK
INVARIANT ActiveHasTask
INVARIANT OpenSessionFollowed
INVARIANT QuitLeavesNoTask
PROPERTY RestartIsLive
CHECK_DEADLOCK FALSE
