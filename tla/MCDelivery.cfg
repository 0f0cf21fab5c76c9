\* A worker pass and a checkout flush over one row: every interleaving, crash
\* and failing statement within the bounds.
SPECIFICATION DeliverySpec
CONSTANTS
    Row = {r1}
    Worker = {w}
    Flusher = {f}
    Sending = {w, f}
    Identity = {w, f}
    IdentityOf <- MCDistinct
    NoOne = NoOne
    NoRow = NoRow
    MaxTime = 5
    MaxClaims = 5
    Infinity = 9
    SendTime <- MCSendTime
    StaleAfter = 1
    MaxAttempts = 2
    AttemptCap = 3
    FlushAttempts = 3
    Backoff <- MCBackoff
    DeferFor <- MCDeferFor
    BatchSize = 2
    ClassLimit <- MCClassLimit
    MaxFaults = 1
    MaxCrashes = 1
INVARIANTS
    DeliveryTypeOK
    FenceExact
    HandoversCounted
    AttemptsBounded
    SentMeansAccepted
PROPERTY SentIsFinal
CHECK_DEADLOCK FALSE
