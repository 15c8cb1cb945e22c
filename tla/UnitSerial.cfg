SPECIFICATION SerialSpec
CONSTANTS
    Units = {a, b, c}
    Calls = {k1, k2}
    NoUnit = NoUnit
    Missing = Missing
    Unchanged = Unchanged
    UpdateDtos <- MCUpdateDtos
SYMMETRY Symmetry
INVARIANT TypeOK
INVARIANT ChecksStillHold
INVARIANT Acyclic
INVARIANT TreeShowsEveryUnit
INVARIANT AncestorsAreThePath
