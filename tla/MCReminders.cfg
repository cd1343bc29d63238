SPECIFICATION RSpec
CONSTANTS
    w1 = w1
    w2 = w2
    NoDefinition = "none"
    Role = {"teacher", "host"}
    Changing = {"teacher"}
    Turning18Months = 1
    LeadDays = {1}
    AdultFrom = 2
    CrcMonths = 1
    Definition <- File
    Order <- FileOrder
    AppliesToRole <- FileRoles
    AdultsOnly = {"check"}
    Crc = {"check"}
    MustFollow <- FileFollows
    Interval <- FileInterval
    Offset <- FileOffset
    Recorded <- File
    Worker = {w1, w2}
    Replayed = {}
    Backlog = {FALSE}
    Horizon = 4
    MaxDigests = 2
    MaxMoves = 2
SYMMETRY Interchangeable
INVARIANTS
    RTypeOK
    MailedAtMostOnce
    EverySendIsLogged
    DeadlineIsRaised
