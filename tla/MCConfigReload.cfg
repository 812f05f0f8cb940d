SPECIFICATION FairRSpec
CONSTANTS
    h1 = h1
    h2 = h2
    Nobody = Nobody
    Broken = Broken
    Missing = Missing
    Builtin = Builtin
    Handler = {h1, h2}
    MaxSaves = 3
    MaxHandSaves = 1
    MaxCrashes = 1
PROPERTIES
    SavesNotClobbered
    AppliedInForce
    Converges
