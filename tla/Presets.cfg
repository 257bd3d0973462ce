SPECIFICATION Spec
CONSTANTS
    Names = {"p1", "p2"}
    NoPreset = "none"
    TopFields = {"meetingType", "bigMeeting"}
    Flags = {"MIC_OFF", "WAITING_ROOM"}
    Layers <- SomeLayers
    DefaultType = "instant"
    MaxSaves = 2
INVARIANTS
    PayloadWasInForce
    FieldsWereInForce
    FailuresNeedAnEdit
CHECK_DEADLOCK FALSE
