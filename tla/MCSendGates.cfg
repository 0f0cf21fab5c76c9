\* Two passes, a message, and everything that may change under the gates.
SPECIFICATION GatesSpec
CONSTANTS
    Category <- MCCategory
    Transactional = "transactional"
    Toggles <- MCToggles
    AllCategories = AllCategories
    Message = {m1, m2, m3}
    CategoryOf <- MCMarketing
    Reason = {"unsubscribe"}
    NoSuppression = NoSuppression
    MaxRows = 2
    Pass = {w, f}
    NoPass = NoPass
    NoMessage = NoMessage
    FreqCap = 1
    QuietExempt <- MCQuietExempt
    MaxTroubled = 1
    MaxReclaims = 1
    MaxStops = 0
SYMMETRY Symmetric
CONSTRAINT CrowdInPeace
INVARIANT CapOverrunBounded
PROPERTY UnsubscribeHonoured
CHECK_DEADLOCK FALSE
