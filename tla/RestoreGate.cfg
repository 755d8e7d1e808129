\* Requests, the scheduler and three restores, with a restart after a restore.
SPECIFICATION FairSpec
CONSTANTS
    Clients = {c1, c2, c3, c4}
    Jobs = {scheduler}
    Restores = {r1, r2, r3}
    NoOwner = noowner
    RestartAfter = TRUE
INVARIANTS
    Quiesced
    OneRestoreOwnsTheGate
    CountsAreExact
PROPERTIES
    GateReopens
    WaitingEnds
