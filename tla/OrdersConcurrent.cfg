\* Two requests at a time, every operation.
SPECIFICATION HSpec
CONSTANTS
    Orders = {o1}
    Items = {i1, i2}
    Users = {u1, u2}
    NoOrder = noorder
    Operations = {"convert", "batch_convert", "cancel", "delete", "add_item", "delete_item", "set_status", "delete_sourcing", "cancel_sourcing"}
    Reused = {}
    MaxLicenses = 2
CHECK_DEADLOCK FALSE
SYMMETRY Symmetry
INVARIANTS
    LicensedOnce
    SettledUnlessMissed
PROPERTIES
    ClosedOrdersAreFrozen
