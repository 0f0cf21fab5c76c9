\* Two evaluations, two orders of one contact, and a contact who lapsed.
SPECIFICATION MCSpec
CONSTANTS
    receipt = receipt winback = winback thanks = thanks review = review comeback = comeback
    o1 = o1 o2 = o2 k1 = k1 k2 = k2
    e1 = e1 e2 = e2 w1 = w1 w2 = w2
    Campaign = {receipt, winback}
    Contact = {k1, k2}
    Order = {o1, o2}
    Message = {thanks, review, comeback}
    NoOrder = NoOrder
    NoCampaign = NoCampaign
    NoContact = NoContact
    Evaluator = {e1, e2}
    TriggerOf <- MCTrigger
    OneTime = {receipt}
    Journey <- MCJourney
    OnDelivery = {review}
    BuyerOf <- MCBuyer
    Unreachable <- MCUnreachable
    Ceiling = 1
    Pass = {w1, w2}
    Followed <- MCFollowed
    MaxTroubles = 1
INVARIANTS
    JourneyQueued
    OneTimeUnlessRaced
PROPERTIES
    StoppedStaysSilent
    StoppedSettles
CHECK_DEADLOCK FALSE
