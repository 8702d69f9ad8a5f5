SPECIFICATION Spec
CONSTANTS
    u1 = u1
    u2 = u2
    t1 = t1
    t2 = t2
    d1 = d1
    d2 = d2
    noDraft = noDraft
    noUser = noUser
    noReserve = noReserve
    Users <- MCUsers
    Tasks <- MCTasks
    Drafts <- MCDrafts
    NoDraft <- noDraft
    NoUser <- noUser
    NoReserve <- noReserve
    Prices <- MCPrices
    TopUps <- MCTopUps
    MaxCredit = 4
    Referrer <- MCReferrer
    ReferralPercent = 50
    PostPaidLimit <- MCLimit
    DraftOf <- MCDraftOf
INVARIANT TypeOK LockExact PurchasesCovered ProvisionedFirst FlagMeansGift
PROPERTY LockReleased
CHECK_DEADLOCK FALSE
