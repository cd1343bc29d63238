SPECIFICATION FairSpec
CONSTANTS
    Definition = {"course"}
    NoDefinition = "none"
    Order <- MCOrder
    Role = {"leader"}
    AppliesToRole <- MCAppliesToRole
    AdultsOnly = {}
    Crc = {}
    MustFollow <- MCMustFollow
    Interval <- MCInterval
    Offset <- MCOffset
    Turning18Months = 3
    CrcMonths = 36
    Worker = {w1, w2}
    Kinds = {"completion", "start", "waiver", "reversal"}
    AdultFrom = 0
    Horizon = 3
INVARIANT
    DatesBelongTogether
PROPERTY
    OnlyRequestsRecord
    LateOverdueHeals
