SPECIFICATION Spec
CONSTANTS
    manager = manager
    employee = employee
    badge = badge
    number = number
    Absent = Absent
    Users <- MCUsers
    Callers <- MCCallers
    Pods = {p1, p2}
    Calls = {k1, k2}
    Names <- AllNames
    Profiles <- MCProfiles
    Starts <- MCStarts
    Services <- MCServices
    Lists <- MCLists
    SourceOf <- MCSourceOf
    EmployeeOf <- MCEmployeeOf
    TTL = 0
    MaxCall = 1
    MaxTick = 2
    MaxChanges = 2
ACTION_CONSTRAINT Bounds
SYMMETRY Symmetry
CHECK_DEADLOCK FALSE
INVARIANT TypeOK
INVARIANT JudgedByRecentList
INVARIANT AnsweredWasEntitled
