CONSTANTS
    MemWidth = 4
    IntWidth = 4
    MemRequests = {0, 1, 2, 3, 6, 7, 8, 13, 14}
    ProcRequests <- MCProcRequests
    HostLPCounts = {1, 2, 4, 7}
    None = None
SPECIFICATION Spec
INVARIANT MemoryAlignedUp
