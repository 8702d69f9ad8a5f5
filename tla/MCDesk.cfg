SPECIFICATION Spec
CONSTANTS
    boss = boss
    seller = seller
    buyer = buyer
    d1 = d1
    d2 = d2
    m1 = m1
    m2 = m2
    m3 = m3
    s1 = s1
    s2 = s2
    p1 = p1
    p2 = p2
    v = v
    w = w
    h1 = h1
    h2 = h2
    c1 = c1
    c2 = c2
    Keys <- MCKeys
    Hands = {h1, h2}
    MaxStarts = 5
    Users <- MCUsers
    Owners = {boss}
    FirstUsers <- MCFirstUsers
    FirstBook <- MCBook
    FirstOffers <- MCOffers
    Amounts <- MCAmounts
    Caps = {1, 2}
    MaxBook = 5
    Discounts = {d1, d2}
    Menus <- MCMenus
    Services = {s1, s2}
    Customers = {c1, c2}
    Managers = {boss}
    Open = {d2}
    FirstCatalog <- MCFirstCatalog
    FirstLinks <- MCFirstLinks
    FirstReserved <- MCReserved
    Limits = {0, 1}
    Servers = {p1, p2}
    Operators = {boss}
    Values = {v, w}
    MaxRetry = 1
    FirstServers <- MCFirstServers
SYMMETRY MCSymmetry
INVARIANTS AccountsKept TransfersCovered MenusReachable CatalogSound ServersSound
CHECK_DEADLOCK FALSE
