SPECIFICATION Spec
CONSTANTS
    MaxPolls = 2
    QuotedFees = {1}
    MaxRev = 4
    AccountCalls = {c1, c2}
    MaxApplications = 2
    AddressIds = {a1, a2, a3}
    BookCalls = {b1, b2}
    Limit = 2
    WindowTicks = 3
    LastTick = 5
    MaxPerTick = 3
    MaxRestarts = 1
    LoginCalls = {l1, l2}
    LockThreshold = 5
    MaxWrong = 7
    DeskOrders = {o1, o2}
    MaxMoves = 3
    MaxLogins = 2
    MaxLoads = 2
INVARIANTS AnnouncedOnce OffersAreHonoured WorkersAreEntitled SerialAccountIsSound OneDefaultAddress BurstsAreBounded SerialFailuresLock
PROPERTIES PollsNeverGoBack PageCatchesUp
CHECK_DEADLOCK FALSE
