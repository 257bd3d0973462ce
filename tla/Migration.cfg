SPECIFICATION FairSpec
CONSTANTS
    Workers = {"w1", "w2"}
    MaxRows = 4
    HistoricalRows <- SomeHistory
    NewName <- SomeNames
    OtherNames = {4}
INVARIANTS
    FailsOnlyIfRacedOrClashing
PROPERTIES
    NoSecondMeeting
    MigrationEnds
