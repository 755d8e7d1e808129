\* Conversions and cancellations, two requests at a time: does closing win?
SPECIFICATION HSpec
CONSTANTS
    Orders = {o1}
    Items = {i1, i2}
    Users = {u1, u2}
    NoOrder = noorder
    Operations = {"convert", "batch_convert", "cancel"}
    Reused = {i1, i2}
    MaxLicenses = 2
CHECK_DEADLOCK FALSE
SYMMETRY Symmetry
PROPERTIES
    ClosingIsFinal
