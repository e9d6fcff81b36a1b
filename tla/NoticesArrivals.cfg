SPECIFICATION NoticeInboxSpec
CONSTANTS
    ann = ann
    ben = ben
    Recipients = {ann, ben}
    NoOne = NoOne
    Subjects = {1, 2}
    Kinds = {"offer", "taken"}
    Publishes <- MCPublishes
    CloseRequests <- MCCloseRequests
    ListQueries <- MCListQueries
    p1 = p1
    p2 = p2
    Publishers = {p1, p2}
    MaxPublishes = 2
    MaxCloses = 1
    MaxMarks = 1
    MaxClock = 2
PROPERTIES
    ArrivalsStayUnread
SYMMETRY PublisherSymmetry
CHECK_DEADLOCK FALSE
