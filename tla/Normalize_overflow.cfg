CONSTANTS
    MemWidth = 4
    IntWidth = 4
    MemRequests = {13, 14, 15}
    ProcRequests = {1}
    HostLPCounts = {2}
    None = None
SPECIFICATION Spec
INVARIANT MemoryAlignedUp
