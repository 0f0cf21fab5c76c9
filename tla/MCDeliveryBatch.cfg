\* Fair passes over two rows, with reclaims and failing statements.
SPECIFICATION JanitorSpec
CONSTANTS
    Row = {r1, r2}
    Worker = {w}
    Flusher = {}
    Sending = {w}
    Identity = {w}
    IdentityOf <- MCDistinct
    NoOne = NoOne
    NoRow = NoRow
    MaxTime = 2
    MaxClaims = 2
    Infinity = 9
    SendTime <- MCSendTime
    StaleAfter = 1
    MaxAttempts = 1
    AttemptCap = 2
    FlushAttempts = 2
    Backoff <- MCBackoff
    DeferFor <- MCDeferFor
    BatchSize = 2
    ClassLimit <- MCClassLimit
    MaxFaults = 1
    MaxCrashes = 1
INVARIANT ClaimsAttended
PROPERTIES
    PassesEnd
    StaleClaimsReleased
CHECK_DEADLOCK FALSE
