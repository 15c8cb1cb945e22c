SPECIFICATION FairSpec
CONSTANTS
    office = office
    branch = branch
    site = site
    Places <- MCPlaces
    NoPlace = NoPlace
    NoExpiry = NoExpiry
    NoEntry = NoEntry
    NoPoint = NoPoint
    NoRow = NoRow
    Roster <- MorningRoster
    Trips <- NoTrips
    Instants <- MorningInstants
    Arrivals <- MorningInstants
    Points <- OnePoint
    ImportedRows <- NoImports
    Taps = {t1, t2}
CHECK_DEADLOCK FALSE
PROPERTY EveryAnsweredTapIsSummarised
