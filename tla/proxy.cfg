SPECIFICATION FairSpec
CONSTANTS
    a = a
    b = b
    c = c
    p1 = p1
    p2 = p2
    c1 = c1
    c2 = c2
    Nodes = {a, b, c}
    Posts = {p1, p2}
    Commands = {c1}
    MAX_SESSIONS = 2
    NoKey = NoKey
    SocketBuffer = 2
    MaxResets = 1
    MaxLost = 1
    MaxPosts = 2
    MaxCommands = 1
INVARIANTS TypeOK SessionsOK
PROPERTIES Relays BoardsConnect
