\* A request written in two pieces and seven responses, in any pieces.
SPECIFICATION FairSpec
CONSTANTS
    Responses <- WithBody
    RequestSize = 2
INVARIANTS
    ReportedOnce
    DoneIsTheBody
    PromptlyReported
PROPERTIES
    ReadEnds
CHECK_DEADLOCK FALSE
