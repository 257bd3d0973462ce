SPECIFICATION FormSpec
CONSTANTS
    m1 = m1
    m2 = m2
    r1 = r1
    w1 = w1
    NoMeeting = NoMeeting
    NoRoom = NoRoom
    NoLimit = NoLimit
    BufferBefore = 1
    BufferAfter = 1
    DayLength = 10
    Rooms = {r1}
    Workers = {w1}
    Requests <- FormRequests
    Rank <- FormRank
    Limit <- FormLimit
    Presets = {"p1"}
    RoomFaults = {}
    StartExchanges <- FormAnswers
    AuthExchanges = {}
    LegacyStatuses = {}
    OperatorsWait = TRUE
    Meetings = {m1, m2}
    MaxForms = 1
    FormStatuses <- ClosedStatuses
SYMMETRY MeetingSymmetry
INVARIANTS
    AtMostOneProviderMeeting
