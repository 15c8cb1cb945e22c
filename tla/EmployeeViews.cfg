SPECIFICATION Spec
CONSTANTS
    boss = boss
    anna = anna
    bert = bert
    unit = unit
    Nobody = Nobody
    Users <- MCUsers
    Units <- MCUnits
    RankOf <- MCRankOf
    GenderOf <- MCGenderOf
    Requests <- MCRequests
    Today <- MCToday
    MonthStart <- MCMonthStart
    Replies <- MCReplies
    Grain = 2
    Starts <- MCStarts
    UserRows <- MCUserRows
    BalanceRows <- MCBalanceRows
    Feasts <- MCFeasts
    Windows <- MCWindows
    Pages <- MCPages
    WindowDays = 4
    MaxWindow = 3
    MaxReportees = 2
    MaxChanges = 2
CHECK_DEADLOCK FALSE
CONSTRAINT OneView
INVARIANT TypeOK
INVARIANT CalendarsHoldEveryAbsence
INVARIANT AvailableLeavesRoomForPending
INVARIANT AwayIsToldByEveryView
INVARIANT PatternCountsEachDay
INVARIANT ChartsShowTheLine
INVARIANT ReportIsOfTheUnit
