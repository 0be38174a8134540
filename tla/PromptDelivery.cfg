SPECIFICATION Spec
CONSTANTS
    s1 = s1
    s2 = s2
    hello = hello
    bye = bye
    NoId = NoId
    NoText = NoText
    Sessions <- TwoSessions
    Texts <- TwoTexts
    ProviderSet = TRUE
    MaxDrafts = 3
    MaxMessages = 2
    MaxSwitches = 1
SYMMETRY Renaming
INVARIANT TypeOK
INVARIANT KeyNamesOnePrompt
INVARIANT DraftHasOneKey
INVARIANT OnePromptAtATime
PROPERTY AcceptedKeyRetired
PROPERTY RuntimeUntilAccepted
CHECK_DEADLOCK FALSE
