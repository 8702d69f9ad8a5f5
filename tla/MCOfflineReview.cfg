SPECIFICATION Spec
CONSTANTS
    m1 = m1
    m2 = m2
    v1 = v1
    v2 = v2
    v3 = v3
    Messages <- MCMessages
    Reviews <- MCReviews
SYMMETRY MCSymmetry
CHECK_DEADLOCK FALSE
INVARIANTS
    OfflineSound
    StatusesAgree
PROPERTIES
    ReversalAskedFor
