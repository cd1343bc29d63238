SPECIFICATION WSpec
CONSTANTS
    Definition = {"course"}
    NoDefinition = "none"
    Order <- MCOrder
    Role = {"usher"}
    AppliesToRole <- MCAppliesToRole
    AdultsOnly = {}
    Crc = {}
    MustFollow <- MCMustFollow
    Interval <- MCInterval
    Offset <- MCOffset
    Turning18Months = 3
    CrcMonths = 36
    It = "course"
    Dues = {0, 2}
    LastDay = 3
    MaxItems = 3
    RecorderIsScoped = {TRUE}
    Kinds = {"completion", "waiver"}
PROPERTIES
    OnlyUndoingUncovers
    SendBackUndoesItsOwn
    SendBackRestoresDates
