SPECIFICATION AuditSpec
CONSTANTS
    m1 = m1
    m2 = m2
    r1 = r1
    r2 = r2
    w1 = w1
    w2 = w2
    w3 = w3
    NoMeeting = NoMeeting
    NoRoom = NoRoom
    NoLimit = NoLimit
    BufferBefore = 1
    BufferAfter = 1
    DayLength = 10
    Meetings = {m1}
    Rooms = {r1}
    Workers = {w1, w2}
    Requests <- OneRequest
    Rank <- OneRank
    Limit <- OneUnlimited
    Presets = {"p1"}
    RoomFaults = {"inactive"}
    StartExchanges <- AllAnswers
    AuthExchanges <- BadLogin
    LegacyStatuses = {"DRAFT", "FAILED"}
    OperatorsWait = TRUE
INVARIANTS
    LogExplainsStatus
    AttemptsAreLogged
PROPERTIES
    RequestsEnd
    ProvisioningEnds
