SPECIFICATION RSpec
CONSTANTS
    Definition <- MCDefinition
    NoDefinition = "none"
    Order <- MCOrder
    Role = {"usher"}
    AppliesToRole <- MCAppliesToRole
    AdultsOnly = {"check"}
    Crc = {"check"}
    MustFollow <- MCMustFollow
    Interval <- MCInterval
    Offset <- MCOffset
    Turning18Months = 1
    CrcMonths = 36
    AdultFrom = 1
    Today = 3
    ReportDates = {3}
    MaxChecks = 2
    Worker = {"w1"}
    RecorderIsScoped = {FALSE}
PROPERTY
    DisqualificationIsPermanent
