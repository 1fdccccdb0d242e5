SPECIFICATION IntentsSpec
CONSTANTS
    h1 = h1
    h2 = h2
    v1 = v1
    v2 = v2
    Intents = {h1, h2}
    Votes = {v1, v2}
    Carries <- MCApart
    MayFail = FALSE
    MaxStores = 1
    MaxCrashes = 0
PROPERTIES
    RelayedIntentsAreSubmitted
CHECK_DEADLOCK FALSE
