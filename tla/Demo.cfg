\* Procurement, or the support of two licenses, in the demo build's backend.
SPECIFICATION MCSpec
CONSTANTS
    PoNumbers = {po1, po2}
    Suppliers = {s1}
    Currencies = {eur}
    None = None
    MaxLicenses = 8
    MaxItems = 3
    MaxRequests = 3
    MaxOrders = 1
    MaxRows = 9
    MaxSent = 5
    Parents = {1, 2}
    MaxRecords = 2
    MaxLines = 1
INVARIANTS
    MCTypeOK
    LinksAgreeUntilBoughtAgain
    PoLineNumbers
    SupportLinksAgree
CHECK_DEADLOCK FALSE
