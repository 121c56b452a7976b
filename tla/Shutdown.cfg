SPECIFICATION FairSpec
CONSTANTS
    Service = {"smtp", "pop3"}
    SmtpConn = {s1}
    Pop3Conn = {p1}
    MaxEvents = 1
CHECK_DEADLOCK FALSE
INVARIANTS
    AnnouncementsTrue
    DrainedFinish
PROPERTIES
    AnnouncementsCome
    ShutdownEnds
