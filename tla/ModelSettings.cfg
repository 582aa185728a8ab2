SPECIFICATION SettingsSpec
CONSTANTS
    r1 = r1
    r2 = r2
    k1 = k1
    acme = acme
    bolt = bolt
    Request = {r1, r2}
    Token = {k1}
    Tenant = {acme, bolt}
    SessionOf <- Sessions
    Member <- Members
    DefaultTenant = "none"
    SoloTenant = "none"
    ServiceChannel = TRUE
    Life = 1
    Presented <- Callers
    Asks <- Wanted
    Offers <- Catalogues
    Before <- Standing
    KeyRings <- Rings
    Variables = {"AI_KEY"}
    KeyManagement = TRUE
SYMMETRY Symmetric
INVARIANTS
    SettingsAreWhatWasAsked
    CapableUnlessExcused
    KeysGoWhereTheyBelong
