\* The statements under any caller: two rows, two identities.
SPECIFICATION Spec
CONSTANTS
    Row = {r1, r2}
    Identity = {a, b}
    NoOne = NoOne
    MaxTime = 3
    MaxClaims = 2
    Infinity = 9
    SendTime <- MCSendTime
    StaleAfter = 1
    MaxAttempts = 2
    AttemptCap = 2
    Backoff <- MCBackoff
    DeferFor <- MCDeferFor
INVARIANTS
    QueueTypeOK
    AttemptAccounting
    ClaimedRowIsDue
PROPERTY
    FollowsLifecycle
CHECK_DEADLOCK FALSE
