SPECIFICATION Spec
CONSTANTS
    office = office
    branch = branch
    site = site
    Places <- MCPlaces
    NoPlace = NoPlace
    NoExpiry = NoExpiry
    NoEntry = NoEntry
    NoPoint = NoPoint
    NoRow = NoRow
    Roster <- MorningRoster
    Trips <- NoTrips
    Instants <- MorningInstants
    Arrivals <- MorningInstants
    Points <- MCPoints
    ImportedRows <- MCImports
    Taps = {t1, t2}
CHECK_DEADLOCK FALSE
SYMMETRY Symmetry
INVARIANT TypeOK
INVARIANT AnsweredTapsAreComplete
INVARIANT DailyExplained
PROPERTY FirstKept
PROPERTY FlagKept
