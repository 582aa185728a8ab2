SPECIFICATION Spec
CONSTANTS
    r1 = r1
    r2 = r2
    acme = acme
    bolt = bolt
    nvda = nvda
    gme = gme
    Request = {r1, r2}
    Client = {acme, bolt}
    Symbol = {nvda, gme}
    Price = {1, 2}
    Quantity = {1, 2}
    Bodies <- EveryBody
    Equity <- SometimesBroke
    Universe = {nvda}
    MaxOrderFraction = 40
    MaxPositionFraction = 50
    MaxOrdersPerDay = {0, 1}
SYMMETRY Alike
CHECK_DEADLOCK FALSE
INVARIANTS
    
    AverageIsOfPricesPaid
    CancelsAreAnswered
