\* A checkout by a contact who has opted out of something.
SPECIFICATION Spec
CONSTANTS
    Category <- MCCategory
    Transactional = "transactional"
    Toggles <- MCToggles
    AllCategories = AllCategories
    Message = {m1}
    CategoryOf <- MCCategoryOf
    Reason = {"unsubscribe", "hard_bounce"}
    NoSuppression = NoSuppression
    MaxRows = 3
PROPERTY CheckoutKeepsOptOuts
CHECK_DEADLOCK FALSE
