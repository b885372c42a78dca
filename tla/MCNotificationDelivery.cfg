\* No symmetry: the run checks a liveness property.
SPECIFICATION Spec
CONSTANTS
    Row = {n1, n2}
    Consumer = {c1, c2}
    Sender = {s1, s2}
    MaxAttempts = 2
    MaxRetry = 2
    MaxIncidents = 1
INVARIANTS
    SuccessWasDelivered
    OneMessagePerEvent
PROPERTIES
    EventIsSettled
CHECK_DEADLOCK FALSE
