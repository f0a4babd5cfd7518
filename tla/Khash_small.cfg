SPECIFICATION Spec
CONSTANTS
    k1 = k1
    k2 = k2
    k3 = k3
    k4 = k4
    Keys = {k1, k2, k3, k4}
    Values = {v1, v2}
    Hash <- MCHash
    Empty = empty
    Deleted = deleted
    Nothing = nothing
    Absent = absent
    Requests = {0, 4, 8}
    MaxBuckets = 8
CHECK_DEADLOCK FALSE
INVARIANTS
    CountsAgree
PROPERTIES
    ImplementsMap
