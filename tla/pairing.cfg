SPECIFICATION FairSpec
CONSTANTS
    Machines = {"a", "b"}
    Home = "a"
    Restless = {"a"}
    OldGen = {"b"}
    None = "none"
    Words <- MCWords
    Leading <- MCLeading
    AllDigits <- MCAllDigits
    Apps <- MCApps
    Refs <- MCRefs
    Settings <- MCSettings
    MaxInt = 600000
    Methods = {"client.pair"}
PROPERTIES
    PairedIsMutual
    PinBlamedRightly
    PairingConverges
