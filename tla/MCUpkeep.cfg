\* Receipts with redeliveries, crashes and a wrong credential; job runs of two
\* workers with lost sessions, failures and restarts.
SPECIFICATION UpkeepSpec
CONSTANTS
    Letter = {m1}
    Handler = {h1, h2}
    NoReceipt = NoReceipt
    MaxMishaps = 2
    w1 = w1
    w2 = w2
    r1 = r1
    r2 = r2
    r3 = r3
    Worker = {w1, w2}
    Run = {r1, r2, r3}
    Home <- MCHome
    Script = Script
    NoRun = NoRun
    PoolSize = 2
    Window = 0
    MaxDay = 1
    MaxEvents = 1
    MaxFaults = 1
INVARIANTS
    EventStoreHolds
    OneBody
    StatsHold
PROPERTIES
    ReceiptsAnswered
    RollupsCatchUp
CHECK_DEADLOCK FALSE
