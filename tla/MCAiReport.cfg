\* No symmetry: the run checks a liveness property.
CONSTANTS
    Worker = {w1, w2}
    Request = {q1, q2}
    MaxAttempts = 2
    MaxInput = 2
SPECIFICATION FairSpec
INVARIANTS
    OutputIsOfCurrentInput
    AttemptsBounded
PROPERTIES
    SuccessIsKept
    QueuedIsSettled
CHECK_DEADLOCK FALSE
