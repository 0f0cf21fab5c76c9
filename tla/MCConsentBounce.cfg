\* A hard bounce that follows an unsubscribe.
SPECIFICATION Spec
CONSTANTS
    Category <- MCCategory
    Transactional = "transactional"
    Toggles <- MCToggles
    AllCategories = AllCategories
    Message = {m1}
    CategoryOf <- MCCategoryOf
    Reason = {"unsubscribe", "hard_bounce"}
    NoSuppression = NoSuppression
    MaxRows = 3
INVARIANT BounceStands
CHECK_DEADLOCK FALSE
