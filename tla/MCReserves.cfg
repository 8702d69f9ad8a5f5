SPECIFICATION Spec
CONSTANTS
    t1 = t1
    t2 = t2
    c1 = c1
    MaxPlans = 2
    Tasks <- MCTasks
    Cancels <- MCCancels
    MaxRestarts = 1
INVARIANT ReservesSound RenewedOnce
PROPERTY DueSettles
CHECK_DEADLOCK FALSE
