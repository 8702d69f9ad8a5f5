SPECIFICATION ReviewSpec
CONSTANTS
    u1 = u1
    t1 = t1
    t2 = t2
    r1 = r1
    r2 = r2
    a1 = a1
    a2 = a2
    noDraft = noDraft
    noUser = noUser
    noReserve = noReserve
    Users <- MCUsers
    Tasks <- MCTasks
    Drafts <- MCDrafts
    NoDraft <- noDraft
    NoUser <- noUser
    NoReserve <- noReserve
    Prices <- MCPrices
    TopUps <- MCTopUps
    MaxCredit = 0
    Referrer <- MCReferrer
    ReferralPercent = 50
    PostPaidLimit <- MCLimit
    DraftOf <- MCDraftOf
    Receipts <- MCReceipts
    ReceiptUser <- MCReceiptUser
    Amount <- MCAmount
    Reviewers <- MCReviewers
INVARIANT ReviewSound RevokeCleans
PROPERTY RefinesLedger
CHECK_DEADLOCK FALSE
