SPECIFICATION LiveSpec
CONSTANTS
    Sockets = {h, v}
    Hosts = {h}
    Calls = {c1, c2}
    MaxRequests = 5
    ChatLimit = 1
SYMMETRY CallSymmetry
INVARIANTS StreamsKnown RoomsDisposed ChatSeen
CHECK_DEADLOCK FALSE
