CONSTANTS PropertiesMayFail = TRUE
    Ids = {u1}
SPECIFICATION Spec
CHECK_DEADLOCK FALSE
INVARIANTS TypeOK WaitOkMeansStopped ExitErrorAgreesWithWait
PROPERTIES CreateAllOrNothing FailedCreateStops WaitReturns ExitErrorStable
