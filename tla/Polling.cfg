SPECIFICATION Spec
CONSTANTS
    Panels = {"session"}
    MaxTurns = 2
    MaxEvents = 1
    MaxFired = 1
    MaxAnswers = 1
    MaxTasks = 2
INVARIANT TimersInStep
PROPERTY DaemonStateSettles
PROPERTY RunsCatchUp
CHECK_DEADLOCK FALSE
