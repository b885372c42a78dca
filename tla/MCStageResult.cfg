SPECIFICATION Spec
CONSTANTS
    Viewer = {v1, v2}
    Level = {"A", "B", "C"}
    C = "C"
    NoLevel = NoLevel
    MaxConfig = 3
SYMMETRY Symmetry
PROPERTIES
    OnlyOvertakenSpoilsLevel
    OnlyOvertakenLosesSelf
    CalibratedInputIsFrozen
CHECK_DEADLOCK FALSE
