SPECIFICATION Spec
CONSTANTS
    Engines = {"e1"}
    Hosts = {"h1", "h2"}
    Certs = {"c1", "c2"}
    NoCert = "none"
    MaxGen = 4
    Faults <- NoFaults
INVARIANTS
    StoreInv
    IdentityWhole
    IdentityStable
    PinsPersist
