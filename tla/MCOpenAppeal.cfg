SPECIFICATION Spec
CONSTANTS
    Participant = {p1}
    Level = {"B", "C"}
    C = "C"
    NoLevel = NoLevel
    MaxDecisions = 2
    MaxVersions = 3
    MaxRedLines = 0
    MaxRevision = 3
INVARIANTS
    OpenAppealIsResolvable
CHECK_DEADLOCK FALSE
