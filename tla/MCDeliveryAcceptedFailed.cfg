\* The provider answers ok, and the statement that records it throws.
SPECIFICATION DeliverySpec
CONSTANTS
    Row = {r1}
    Worker = {w}
    Flusher = {f}
    Sending = {w, f}
    Identity = {w, f}
    IdentityOf <- MCDistinct
    NoOne = NoOne
    NoRow = NoRow
    MaxTime = 5
    MaxClaims = 5
    Infinity = 9
    SendTime <- MCSendTime
    StaleAfter = 1
    MaxAttempts = 2
    AttemptCap = 3
    FlushAttempts = 3
    Backoff <- MCBackoff
    DeferFor <- MCDeferFor
    BatchSize = 2
    ClassLimit <- MCClassLimit
    MaxFaults = 1
    MaxCrashes = 1
INVARIANT AcceptedNeverFailed
CHECK_DEADLOCK FALSE
