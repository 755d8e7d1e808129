\* One request after another.
SPECIFICATION HSpec
CONSTANTS
    Licenses = {l1, l2, l3}
    Items = {i1, i2}
    Users = {u1}
    None = none
    Split = {}
    MaxFlagged = 1
CHECK_DEADLOCK FALSE
SYMMETRY Symmetry
INVARIANTS
    TypeOK
    ChainsEnd
    OneHeadPerReference
    RenewedHasSuccessor
    PendingHasWork
