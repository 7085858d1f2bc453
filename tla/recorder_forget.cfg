SPECIFICATION Spec
CONSTANTS
    lights = lights
    garden = garden
    Keys = {lights}
    MaxClock = 3
    MaxInstances = 1
    Reconcile = Reconcile
    Opening = Opening
    NoKey = NoKey
PROPERTY ForgottenForGood
CHECK_DEADLOCK FALSE
