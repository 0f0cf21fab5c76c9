\* A receipt in the queue of a contact who unsubscribes.
SPECIFICATION GatesSpec
CONSTANTS
    Category <- MCCategory
    Transactional = "transactional"
    Toggles <- MCToggles
    AllCategories = AllCategories
    Message = {m1}
    CategoryOf <- MCReceipts
    Reason = {"unsubscribe"}
    NoSuppression = NoSuppression
    MaxRows = 1
    Pass = {w}
    NoPass = NoPass
    NoMessage = NoMessage
    FreqCap = 1
    QuietExempt <- MCQuietExempt
    MaxTroubled = 2
    MaxReclaims = 0
    MaxStops = 0
INVARIANT ReceiptsOutliveUnsubscribe
CHECK_DEADLOCK FALSE
