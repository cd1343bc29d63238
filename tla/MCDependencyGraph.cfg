SPECIFICATION DSpec
CONSTANTS
    Definition = {d1, d2, d3, d4}
    NoDefinition = none
    Admin = {a1, a2}
    MAX_DEPENDENCY_HOPS = 2
SYMMETRY MCSymmetry
INVARIANT
    DTypeOK
PROPERTY
    OnlyOverlapLoops
