SPECIFICATION Spec
CONSTANTS
    Participant = {p1}
    Level = {"B", "C"}
    C = "C"
    NoLevel = NoLevel
    MaxDecisions = 2
    MaxVersions = 2
    MaxRedLines = 0
    MaxRevision = 2
INVARIANTS
    ArchivedIsClosed
CHECK_DEADLOCK FALSE
