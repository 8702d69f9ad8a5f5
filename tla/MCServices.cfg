SPECIFICATION ServicesSpec
CONSTANTS
    d1 = d1
    d2 = d2
    web = web
    g1 = g1
    g2 = g2
    m = m
    n = n
    Ids <- MCIds
    Admins <- MCAdmins
    Web <- web
    FirstServer <- MCFirstServer
    NoServer = "none"
    Guardino = {"guardino"}
    Marzban = {"marzban"}
    Budgets <- MCBudgets
SYMMETRY MCSymmetry
CHECK_DEADLOCK FALSE
INVARIANTS
    ServicesFaithful
