SPECIFICATION Spec
CONSTANTS
    GlobalActions = {"help", "logs"}
    ListActions = {"filter", "move_down"}
    NoAction = "none"
    Combos = {"?", "F1", "L", "j", "/", "a"}
    Defaults <- MCDefaults
    Rank <- MCRank
    PanelCombos = {"j", "/", "a"}
    OtherCombos = {"L"}
    Separator = "/"
    Hardwired = {"F1"}
    MaxEntries = 2
    MaxCombos = 2
    Modes = {"full", "tail"}
    MaxRemaps = 0
    MaxResizes = 2
INVARIANT TypeOK
INVARIANT FileDecides
 
INVARIANT TakerOnScreen
CHECK_DEADLOCK FALSE
