CONSTANTS PropertiesMayFail = TRUE
    Ids = {u1, u2}
SPECIFICATION Spec
CHECK_DEADLOCK FALSE
INVARIANT NoHandleLeakOnError
