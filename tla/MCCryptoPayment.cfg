SPECIFICATION Spec
CONSTANTS
    p1 = p1
    h1 = h1
    h2 = h2
    Sync = sync
    Payments <- MCPayments
    Requests <- MCRequests
    MaxQueue = 1
INVARIANT CryptoSound LaunchedByClaim PaidFirst
PROPERTY PaymentSettles
CHECK_DEADLOCK FALSE
