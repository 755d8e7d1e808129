\* Two requests and the sweep compete for one order; a fault and a change of a document.
SPECIFICATION Spec
CONSTANTS
    Orders = {o1}
    Quotes = {q1, q2}
    Requests = {r1, r2}
    Sweeper = sweeper
    NoOne = noone
    ClaimTimeout = 2
    MaxAttempts = 1
    MaxFaults = 1
    MaxDocEvents = 1
SYMMETRY Symmetry
INVARIANTS
    TypeOK
    FreshClaimExclusive
    ClaimHeld
    CompleteHasEvidence
PROPERTIES
    LeaseSpec
    CopiesSurvive
