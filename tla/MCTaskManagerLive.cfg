SPECIFICATION FairSpec
CONSTANTS
    a = a
    b = b
    v = v
    Tasks = {a, b}
    Persistent = {a, b}
    Program <- MCProgram
    MsgProgram <- MCMsgProgram
    MaxMsg = 1
    MaxReflected = 1
    MaxConnects = 2
PROPERTIES
    PersistentCompletes
    InboundAcknowledged
CHECK_DEADLOCK FALSE
