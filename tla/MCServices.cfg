\* The requests of the consent ledger, the campaign editor, the shop and triage;
\* journeys, windows, segments, rates and allowances; providers, boot, sessions.
SPECIFICATION ServicesSpec
CONSTANTS
    Category <- MCCategory
    Transactional = "transactional"
    Toggles <- MCToggles
    AllCategories = AllCategories
    Message = {m1}
    CategoryOf <- MCCategoryOf
    Reason = {"unsubscribe", "hard_bounce"}
    NoSuppression = NoSuppression
    MaxRows = 3
    n1 = n1
    n2 = n2
    Operator = {o1, o2}
    Hand = {h1}
    Node = {n1, n2}
    Flows <- MCFlows
    NoMessage = NoMessage
    MaxRequests = 3
    MaxQueued = 1
    Shopper = {s1, s2}
    Address = {a1, a2}
    Phone = {p1}
    NoPhone = NoPhone
    OrderNumber = {k1, k2}
    Cooldown = 1
    DailyBudget = 1
    Day = 1
    Tries = 1
    MaxTime = 1
    MaxOrders = 2
    l1 = l1
    l2 = l2
    Reply = {l1, l2}
    Keyword = {l1}
    Body <- MCBody
    Caller = {c1, c2}
    NoReply = NoReply
    Budget = 4
    Estimate = 2
    Usage = {3}
    LastMonth = 1
    MaxModelCalls = 3
    MaxFaults = 1
    start = start
    asks = asks
    pause = pause
    b1 = b1
    b2 = b2
    Box = {start, asks, pause, b1, b2}
    Kind <- MCKind
    Wait <- MCWait
    Question = {"clicked"}
    Asks <- MCAsks
    Rank <- MCRank
    Unfilled = {}
    Deletable = {b2}
    DepthBound = 64
    MostNodes = 500
    MostEdges = 1000
    MaxEdges = 4
    DayLength = 6
    Floor <- MCFloor
    Narrowing <- MCNarrowing
    SendDaySets <- MCDays
    Changes = {6, 7, 8, 9}
    Shifts <- MCShifts
    Horizon = 14
    MaxEdits = 1
    Definition <- MCDefinition
    Unset = Unset
    Words = Words
    Scores <- MCScores
    Visits <- MCVisits
    Tags = {"vip"}
    Substring <- MCSubstring
    LastDay = 1
    e1 = e1
    e2 = e2
    Mail = {e1, e2}
    Reader = {"p1"}
    ReaderOf <- MCReaderOf
    Linked = {e1}
    Agent = {g1}
    Batch <- MCBatch
    NoKey = NoKey
    Verdict = {"delivered"}
    LastDate = 1
    MaxTries = 2
    Client = {r1, r2}
    Token = 2
    Capacity = 4
    MaxTick = 5
    Settings <- MCSettings
    CredentialLists <- MCCredentials
    MaxAttempts = 5
    MaxRewrites = 1
    NoSender = NoSender
    NoCode = NoCode
    NewCode = NewCode
    api1 = api1
    api2 = api2
    old = old
    f1 = f1
    f2 = f2
    f3 = f3
    Process = {api1, api2, old}
    File = {f1, f2, f3}
    Directory <- MCDirectory
    Content = {"a", "b", "broken"}
    Broken = {"broken"}
    NoProcess = NoProcess
    NoContent = NoContent
    MaxLosses = 2
    Tab = {t1, t2}
    Account = {u1, u2}
    NoAccount = NoAccount
    LoginLimit = 1
    OperatorLimit = 1
    WindowLength = 2
    TokenLife = 1
    SweepEvery = 1
    MaxHour = 2
    MaxCalls = 3
    Screen = {v1}
    NoScreen = NoScreen
    Sync = {y1}
    NoSync = NoSync
    plain = plain
    later = later
    asksFirst = asksFirst
    blank = blank
    spam = spam
    leftover = leftover
    Draft = {plain, later, asksFirst, blank, spam, leftover}
    BodyOf <- MCBodyOf
    Unsound = {blank}
    Dependent = {later, asksFirst}
    Guarded = {asksFirst}
    Delayed = {later, asksFirst}
    Unsendable = {blank, spam}
    Opener = plain
    Follower = later
    Seed <- MCSeed
    MaxIds = 3
    MaxStrokes = 3
INVARIANTS
    UnsubscribedIsSuppressed
    CampaignHolds
    ShopHolds
    TriageHolds
    OptOutHonoured
    CanvasHolds
    WindowsHold
    SegmentsHold
    TrackingHolds
    BucketHolds
    ProvidersHold
    BootHolds
    SessionsHold
    EditorHolds
PROPERTY SavedFlowRuns
CHECK_DEADLOCK FALSE
