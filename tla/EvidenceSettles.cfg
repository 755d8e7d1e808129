\* One order, a request, the sweep, one crash or failed write.
SPECIFICATION FairSpec
CONSTANTS
    Orders = {o1, o2}
    Quotes = {q1}
    Requests = {r1}
    Sweeper = sweeper
    NoOne = noone
    ClaimTimeout = 1
    MaxAttempts = 1
    MaxFaults = 1
    MaxDocEvents = 0
PROPERTIES
    StuckOrdersSettle
