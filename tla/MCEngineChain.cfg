SPECIFICATION Spec
CONSTANTS
    Definition <- MCDefinition
    NoDefinition = "none"
    Order <- MCOrder
    Role = {"usher"}
    AppliesToRole <- MCAppliesToRole
    AdultsOnly = {"check"}
    Crc = {"check"}
    MustFollow <- MCMustFollow
    Interval <- MCOneTime
    Offset <- MCOneTime
    Turning18Months = 1
    CrcMonths = 2
    Horizon = 2
    BirthChoices = {2}
    Editable = {"placement"}
    Replayed = {1}
    MaxOwed = 2
VIEW GateView
INVARIANT
    GateHolds
PROPERTY
    DecisionsStand
