SPECIFICATION SubscriptionsSpec
CONSTANTS
    sub = sub
    c1 = c1
    c2 = c2
    h1 = h1
    h2 = h2
    Sub = sub
    Keys = {sub}
    Holders = {c1, c2}
    Hands = {h1, h2}
    FirstSub <- MCFirst
    Price = 4
    Fee = 1
    Duration = 2
    Limit = 1
    KeepDays = 0
    Step = 1
    MaxTime = 3
    MaxUse = 2
    MaxStarts = 2
INVARIANTS SubscriptionSound RefundBounded
PROPERTY StatusSettles
CHECK_DEADLOCK FALSE
