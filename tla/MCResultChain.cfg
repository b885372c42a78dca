SPECIFICATION Spec
CONSTANTS
    Participant = {p1}
    Level = {"B", "C"}
    C = "C"
    NoLevel = NoLevel
    MaxDecisions = 2
    MaxVersions = 3
    MaxRedLines = 1
    MaxRevision = 3
INVARIANTS
    LockFollowsChain
    StatusFollowsVersion
    VersionsComeFromDecisions
    ChainOnlyWhileRunning
    AppealingIsBound
    AdjustedByNewDecision
    EventsMatchRows
    NoResultHasNothing
PROPERTIES
    PromiseButForClosing
    DecisionOnWhatWasShown
CHECK_DEADLOCK FALSE
