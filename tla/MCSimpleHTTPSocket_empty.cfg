\* A response without a body.
SPECIFICATION Spec
CONSTANTS
    Responses <- WithoutBody
    RequestSize = 1
INVARIANTS
    FinishedIsReported
CHECK_DEADLOCK FALSE
