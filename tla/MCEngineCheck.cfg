SPECIFICATION FairSpec
CONSTANTS
    Definition <- MCDefinition
    NoDefinition = "none"
    Order <- MCOrder
    Role = {"leader"}
    AppliesToRole <- MCAppliesToRole
    AdultsOnly = {"check"}
    Crc = {"check"}
    MustFollow <- MCMustFollow
    Interval <- MCInterval
    Offset <- MCOffset
    Turning18Months = 1
    CrcMonths = 1
    Horizon = 3
    BirthChoices = {2}
    Editable = {}
    Replayed = {1}
    MaxOwed = 2
VIEW StaleIgnored
INVARIANTS
    TypeOK
    CompletionIsReal
    CurrentCompletionCounts
    SettledRowHasNoDeadline
    WaiverShownIffWaived
PROPERTIES
    HistoryKept
    LapseIsSeen
    Converges
