SPECIFICATION Spec
CONSTANTS
    ann = ann
    bob = bob
    t1 = t1
    t2 = t2
    k1 = k1
    k2 = k2
    o1 = o1
    Users = {ann, bob}
    Chats = {t1, t2}
    Tokens = {k1, k2}
    Offers = {o1}
    Updates = {m1, m2}
    Workers = {w1, w2}
    Linked <- OneLinked
    HeldBy <- AnnHolds
    Cards <- OneCard
    None = None
    MaxRetries = 1
    MaxCopies = 1
    MaxFaults = 1
SYMMETRY Symmetric
INVARIANTS OfferActsForItsOwner WritesForASpeaker ActedOnOnce AnnouncedIsSaved
PROPERTIES OffersAreSingleUse
CHECK_DEADLOCK FALSE
