\* Win32 failures, a token with or without the privilege, two restarts.
\* VsmbMain returns and the bring-up ends: final states are not deadlocks.
CONSTANTS
    Faults = TRUE
    PrivilegeAssignable = {TRUE, FALSE}
    MaxRuns = 3
SPECIFICATION Spec
CHECK_DEADLOCK FALSE
INVARIANTS
    FreshRunBringsUpVsmb
