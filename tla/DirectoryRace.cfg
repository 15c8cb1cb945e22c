SPECIFICATION FairSpec
CONSTANTS
    ann = ann
    bob = bob
    e1 = e1
    e2 = e2
    e3 = e3
    d1 = d1
    d2 = d2
    r1 = r1
    p1 = p1
    c1 = c1
    c2 = c2
    c3 = c3
    Numbers = {ann, bob}
    Emails = {e1, e2, e3}
    Units = {d1, d2}
    Positions = {p1}
    Roles = {r1}
    Calls <- MCCalls
    Ops <- MCOps
    NoOne = NoOne
    NoUnit = NoUnit
    NoEmail = NoEmail
    NoSync = NoSync
    NoRow = NoRow
ACTION_CONSTRAINT RaceBounds
CHECK_DEADLOCK FALSE
INVARIANT TypeOK
INVARIANT RowsExplained
INVARIANT PasswordsExplained
PROPERTY DeletedIsQuiet
PROPERTY SyncKeepsWhatItRead
PROPERTY ManagersFound
