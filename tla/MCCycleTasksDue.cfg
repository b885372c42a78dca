\* No symmetry: the run checks liveness properties.
SPECIFICATION FairSpec
CONSTANTS
    Participant = {1, 2}
    Scheduler = {s1}
    Page = {r1}
    Start = {1}
    Offset = {1}
    Batch = 1
    MaxTime = 2
    MaxEdits = 1
PROPERTIES
    DueIsOpened
    StartIsSettled
CHECK_DEADLOCK FALSE
