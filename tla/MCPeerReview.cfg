SPECIFICATION Spec
CONSTANTS
    Person = {p1, p2, p3}
    Request = {q1, q2}
    MaxAssignments = 3
SYMMETRY Symmetry
CONSTRAINT OneOutsideReview
INVARIANTS
    SubmittedIsBacked
    OneRolePerPerson
    ResultIsCurrent
PROPERTIES
    EffectiveIsKept
    DoneHasNothingPending
CHECK_DEADLOCK FALSE
