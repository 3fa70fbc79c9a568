\* No Win32 failure, privilege available: only a sidecar restart stands
\* between VsmbMain and a working redirector.
CONSTANTS
    Faults = FALSE
    PrivilegeAssignable = {TRUE}
    MaxRuns = 2
SPECIFICATION Spec
CHECK_DEADLOCK FALSE
PROPERTIES
    EventuallyVsmbReady
