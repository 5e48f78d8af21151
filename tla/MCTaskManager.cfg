SPECIFICATION Spec
CONSTANTS
    a = a
    b = b
    v = v
    Tasks = {a, b, v}
    Persistent = {a, b}
    Program <- MCProgram
    MsgProgram <- MCMsgProgram
    MaxMsg = 2
    MaxReflected = 1
    MaxConnects = 2
INVARIANTS
    TypeOK
    PersistentKept
    InboundInOrder
    VolatileRunsOnce
    ResolvedWasServed
PROPERTIES
    DurableQueue
CHECK_DEADLOCK FALSE
