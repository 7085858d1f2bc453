SPECIFICATION Spec
CONSTANTS
    lights = lights
    garden = garden
    Keys = {lights, garden}
    MaxClock = 3
    MaxInstances = 2
    Reconcile = Reconcile
    Opening = Opening
    NoKey = NoKey
PROPERTIES RecordedInOrder DeletionsAreReal
SYMMETRY Symmetric
CHECK_DEADLOCK FALSE
