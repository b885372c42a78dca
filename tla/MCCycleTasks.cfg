SPECIFICATION Spec
CONSTANTS
    Participant = {1, 2}
    Scheduler = {s1}
    Page = {r1}
    Start = {1, 2}
    Offset = {0, 1}
    Batch = 1
    MaxTime = 3
    MaxEdits = 1
INVARIANTS
    EventMatchesOpening
    RunningIsComplete
PROPERTIES
    OpenedIsFinal
    ClosedNeverOpens
CHECK_DEADLOCK FALSE
