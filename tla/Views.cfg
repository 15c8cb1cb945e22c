SPECIFICATION Spec
CONSTANTS
    Places <- MCPlaces
    NoPlace = NoPlace
    NoExpiry = NoExpiry
    NoEntry = NoEntry
    NoRow = NoRow
    NoShift = NoShift
    Roster <- MCRoster
    Trips <- MCTrips
    Days <- MCDays
    Instants <- MCInstants
    Requests <- MCRequests
    Imports <- MCImports
    Breaks <- MCBreaks
    Extras <- MCExtras
    Feasts <- MCFeasts
    StartDays <- MCStartDays
    MaxTaps = 2
    MaxWindow = 2
    MaxLeaves = 2
    LastMonth = 4
    FirstDay <- MCFirstDay
CONSTRAINT OneView
ACTION_CONSTRAINT Bounds
INVARIANT TypeOK
INVARIANT ViewsAgree
INVARIANT EarlyOutIsEarly
INVARIANT TotalsCoverCards
INVARIANT NothingForgotten
INVARIANT CycleHoldsItsDates
