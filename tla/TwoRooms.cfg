SPECIFICATION Spec
CONSTANTS
    m1 = m1
    m2 = m2
    r1 = r1
    r2 = r2
    w1 = w1
    w2 = w2
    w3 = w3
    NoMeeting = NoMeeting
    NoRoom = NoRoom
    NoLimit = NoLimit
    BufferBefore = 1
    BufferAfter = 1
    DayLength = 10
    Meetings = {m1, m2}
    Rooms = {r1, r2}
    Workers = {w1, w2}
    Requests <- OneRequest
    Rank <- TwoRanks
    Limit <- TwoUnlimited
    Presets = {"p1"}
    RoomFaults = {"unusable"}
    StartExchanges <- RetryAnswers
    AuthExchanges = {}
    LegacyStatuses = {}
    OperatorsWait = TRUE
SYMMETRY MeetingAndWorkerSymmetry
INVARIANTS
    NoDoubleBooking
