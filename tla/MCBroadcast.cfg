SPECIFICATION Spec
CONSTANTS
    s1 = s1
    s2 = s2
    c1 = c1
    w1 = w1
    w2 = w2
    nobody = nobody
    Recipients <- MCRecipients
    Unreachable <- MCUnreachable
    Batch = 2
    Starters <- MCStarters
    Cancels <- MCCancels
    Workers <- MCWorkers
    Nobody <- nobody
    MaxRestarts = 1
    MaxTime = 1
INVARIANT BroadcastSound RestartRepeatsOne
PROPERTY JobEnds
CHECK_DEADLOCK FALSE
