\* One user in one area of the client.
SPECIFICATION MCSpec
CONSTANTS
    Records = {r1, r2}
    None = None
    MaxReads = 3
    MaxSelects = 3
    MaxChanges = 1
    Usages = {{"smtp", "backup"}, {"storage", "renewals"}, {"completeness"}, {"notifications"}, {"oidc", "appearance"}, {"appearance", "categories"}}
    Values = {0, 1, 2}
    Initial = 0
    Refused = 2
    MaxEdits = 2
    MaxCalls = 2
    MaxMounts = 2
    MaxOpens = 2
    MaxSubmits = 2
    MaxHistory = 4
    MaxEvents = 5
    Files = {f1, f2}
    MaxRequests = 5
    MaxAstray = 2
    MaxMappings = 1
    Rows = {x, y}
    MaxDeeds = 2
    MaxFetches = 2
    Items = {i1, i2}
    Order = Order
    MaxActs = 2
    MaxLoads = 2
    Lines = {1, 2, 3}
    Keys = {0, 1, 2}
    Gone = Gone
    PageSizes = {1, 2}
    VirtualThreshold = 2
    MaxSteps = 3
    Amounts = {7}
    Days = {2, 14, 26}
    Today = 14
    NotificationDays = 3
    FiscalMonths = {4, 12}
    MaxCorrections = 2
VIEW View
INVARIANTS
    MCTypeOK
    ShownIsCurrent
    SubmittedOnce
    UrlInStep
    TableIsHonest
    FiguresAgree
PROPERTIES
    SettingsLeftWhenAsked
CHECK_DEADLOCK FALSE
