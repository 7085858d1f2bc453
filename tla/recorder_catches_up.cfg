SPECIFICATION FairSpec
CONSTANTS
    lights = lights
    garden = garden
    Keys = {lights, garden}
    MaxClock = 3
    MaxInstances = 1
    Reconcile = Reconcile
    Opening = Opening
    NoKey = NoKey
PROPERTY CatchesUp
CHECK_DEADLOCK FALSE
