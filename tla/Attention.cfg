SPECIFICATION AttentionSpec
CONSTANTS
    s1 = s1
    p1 = p1
    p2 = p2
    c1 = c1
    s2 = s2
    NoId = NoId
    Sessions <- OneSession
    Perms <- OnePerm
    Clars <- OneClar
    Tasks = {}
    SessionOf <- InOne
    Always <- OnePerm
    Waiting <- OneClar
    Order <- PermThenClar
    MaxMoves = 2
    MaxPosts = 1
INVARIANT AttentionTypeOK
INVARIANT PersistentOffered
PROPERTY DecidedLeavesList
PROPERTY ListSettles
