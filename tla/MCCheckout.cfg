SPECIFICATION CheckoutSpec
CONSTANTS
    Shops <- MCShops
    Rial <- MCRial
    MenuAmounts = {2, 4}
    Typed = {1, 3}
    Prices = {1, 3}
    DirectModes = {"purchase", "renew"}
    FirstMin <- MCFirstMin
    Mins = {1, 2}
    MaxEdits = 2
INVARIANTS
    CheckoutSound
    Answered
