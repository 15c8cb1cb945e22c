SPECIFICATION SerialSpec
CONSTANTS
    u1 = u1
    u2 = u2
    p1 = p1
    NoUser = NoUser
    NoCall = NoCall
    NoRequest = NoRequest
    NoRow = NoRow
    Malformed = Malformed
    Requests = {r1}
    Calls = {c1, c2, c3}
    Users <- MCUsers
    Positions <- MCPositions
    Chains <- MCChains
    Extras <- MCExtras
    LegacyRows <- MCLegacy
CHECK_DEADLOCK FALSE
SYMMETRY Symmetry
INVARIANT AuditedDecisionsAreLogged
PROPERTY ImplementsWorkflow
