\* Two tabs, two sign-ins, a call that is lost or a session ended elsewhere.
SPECIFICATION FairSpec
CONSTANTS
    Tab = {t1, t2}
    Session = {s1, s2}
    None = None
    Timeout = 2
    MaxInputs = 2
    MaxRequests = 1
    MaxTroubles = 1
INVARIANTS
    TypeOK
    TabsOfOneKeyShareActivity
PROPERTIES
    ActiveSessionsLast
    IdleSessionsEnd
