SPECIFICATION Spec
CONSTANTS
    Participant = {p1, p2}
    Level = {"B", "C"}
    C = "C"
    NoLevel = NoLevel
    MaxDecisions = 1
    MaxVersions = 1
    MaxRedLines = 0
    MaxRevision = 2
SYMMETRY Symmetry
INVARIANTS
    ClosedUnlessReopened
CHECK_DEADLOCK FALSE
