CONSTANTS
    Configs <- MCConfigs
    Topologies <- MCTopologies
    ProcTotals = {4, 8}
    MemTotals = {1024, 2048}
    None = None
SPECIFICATION Spec
INVARIANTS
    TypeOK
    ValidatorMatchesReference
    BuilderOutputReconcilesExactly
