SPECIFICATION AttentionSpec
CONSTANTS
    s1 = s1
    p1 = p1
    p2 = p2
    c1 = c1
    s2 = s2
    NoId = NoId
    Sessions <- TwoSessions
    Perms <- TwoPerms
    Clars = {}
    Tasks = {}
    SessionOf <- InTwo
    Always <- TwoPerms
    Waiting = {}
    Order <- PermThenPerm
    MaxMoves = 2
    MaxPosts = 1
INVARIANT PersistentConfirmed
