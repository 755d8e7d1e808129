\* One request at a time, every operation.
SPECIFICATION HSpec
CONSTANTS
    Orders = {o1, o2}
    Items = {i1, i2, i3}
    Users = {u1}
    NoOrder = noorder
    Operations = {"convert", "batch_convert", "cancel", "delete", "add_item", "delete_item", "set_status", "delete_sourcing", "cancel_sourcing"}
    Reused = {i1, i2, i3}
    MaxLicenses = 2
CHECK_DEADLOCK FALSE
SYMMETRY Symmetry
INVARIANTS
    TypeOK
PROPERTIES
    ClosingIsFinal
