\* A contact who switches a category off, and a pass that may crash.
SPECIFICATION GatesFairSpec
CONSTANTS
    Category <- MCCategory
    Transactional = "transactional"
    Toggles <- MCToggles
    AllCategories = AllCategories
    Message = {m1, m2}
    CategoryOf <- MCMarketing
    Reason = {"unsubscribe"}
    NoSuppression = NoSuppression
    MaxRows = 1
    Pass = {w}
    NoPass = NoPass
    NoMessage = NoMessage
    FreqCap = 1
    QuietExempt <- MCQuietExempt
    MaxTroubled = 2
    MaxReclaims = 0
    MaxStops = 1
PROPERTY SwitchedOffSettles
CHECK_DEADLOCK FALSE
