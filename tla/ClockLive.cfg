SPECIFICATION FairSpec
CONSTANTS
    office = office
    branch = branch
    site = site
    Places <- MCPlaces
    NoPlace = NoPlace
    NoExpiry = NoExpiry
    NoEntry = NoEntry
    NoPoint = NoPoint
    NoRow = NoRow
    Roster <- NightRoster
    Trips <- OneTrip
    Instants <- NightInstants
    Arrivals <- NightArrivals
    Points <- SitePoint
    ImportedRows <- NoImports
    Taps = {t1, t2}
CHECK_DEADLOCK FALSE
PROPERTY AnsweredInTimeIsSummarised
