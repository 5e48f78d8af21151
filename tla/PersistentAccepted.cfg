SPECIFICATION Spec
CONSTANTS
    a = a
    b = b
    v = v
    Tasks = {a, b, v}
    Persistent = {a, b}
    Program <- MCProgram
    MsgProgram <- MCMsgProgram
    MaxMsg = 1
    MaxReflected = 0
    MaxConnects = 2
INVARIANTS
    PersistentAccepted
CHECK_DEADLOCK FALSE
