SPECIFICATION Spec
CONSTANTS
    Parts = {"interview", "score", "okr", "templates"}
    Call = {q1, q2}
    Slot = {x, y}
    MaxEvents = 2
    anna = anna
    ben = ben
    cara = cara
    Leader = boss
    Reviewer = {anna, ben, cara, boss}
    RelationOf <- DefaultRelations
    BaseWeight <- DefaultWeights
    Dimension = {"craft", "values"}
    Core = "craft"
    WeightOf <- DimensionWeights
    Rated = {"craft"}
    RawScore = {5900, 7999, 8100, 10000}
    MinScore <- Lower
    MaxScore <- Upper
    MappingScore <- Mapping
    Unit = 10
    Run = {r1, r2, r3}
    Objective = {okr}
    Kind = {x, y}
    Editor = {q1, q2}
    Content = {"blank", "good"}
    Publishable = {"good"}
    Seeded = "good"
    MaxForms = 4
    MaxConfigs = 2
SYMMETRY Symmetry
CONSTRAINT FewVersions
INVARIANTS
    CalendarAgrees
    CancelledIsGone
    LevelsAreEarned
    ConfigsAreWhole
    NumbersInOrder
PROPERTIES
    PraiseNeverLowers
    RemovedWasGone
    SuccessIsExact
CHECK_DEADLOCK FALSE
