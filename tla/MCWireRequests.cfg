SPECIFICATION FairSpec
CHECK_DEADLOCK FALSE
CONSTANTS
    Tuis = {t}
    Callers = {p}
    t = t
    p = p
    Kinds = {"unsubscribe", "read", "change", "shutdown", "bad"}
    OutboxSize = 2
    SocketSize = 1
    EventsSize = 1
    QueueSize = 2
    MaxRequests = 1
    MaxVersion = 2
INVARIANTS
    TablesInOrder
    RequestsAccounted
    ShutdownAnswered
PROPERTIES
    ImplementsBoard
    Answered
