\* A sidecar token that does not hold SeLoadDriverPrivilege.
CONSTANTS
    Faults = FALSE
    PrivilegeAssignable = {TRUE, FALSE}
    MaxRuns = 1
SPECIFICATION Spec
CHECK_DEADLOCK FALSE
PROPERTIES
    StartWithPrivilege
