SPECIFICATION Spec
CONSTANTS
    Units = {a, b, c}
    Calls = {k1, k2}
    NoUnit = NoUnit
    Missing = Missing
    Unchanged = Unchanged
    UpdateDtos <- MCUpdateDtos
SYMMETRY Symmetry
INVARIANT Acyclic
