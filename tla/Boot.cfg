SPECIFICATION Spec
CONSTANTS
    gone = gone
    Gone = gone
    Commands = {"tui", "doctor", "sessions", "tail"}
    Orders = {"auto"}
    Situations <- MCSituations
    MaxTurns = 1
    Supports = {TRUE, FALSE}
    MaxRequests = 2
    MaxResizes = 1
INVARIANT TypeOK
INVARIANT TerminalRestored
INVARIANT DeepestChosen
PROPERTY Settles
PROPERTY LocksOpen
CHECK_DEADLOCK FALSE
