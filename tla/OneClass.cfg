SPECIFICATION Spec
CONSTANTS
    m1 = m1
    m2 = m2
    r1 = r1
    r2 = r2
    w1 = w1
    w2 = w2
    w3 = w3
    NoMeeting = NoMeeting
    NoRoom = NoRoom
    NoLimit = NoLimit
    BufferBefore = 1
    BufferAfter = 1
    DayLength = 10
    Meetings = {m1}
    Rooms = {r1}
    Workers = {w1, w2, w3}
    Requests <- Variants
    Rank <- OneRank
    Limit <- OneUnlimited
    Presets = {"p1", "p2"}
    RoomFaults = {"inactive"}
    StartExchanges <- AllAnswers
    AuthExchanges <- BadLogin
    LegacyStatuses = {"FAILED"}
    OperatorsWait = TRUE
SYMMETRY WorkerSymmetry
INVARIANTS
    TypeOK
    ReadyIsUsable
    AnswerMatchesRequest
    ClassOnItsDate
PROPERTIES
    TerminalIsFinal
    RetryKeepsSnapshot
    Promise
