SPECIFICATION Spec
CONSTANTS
    lights = lights
    garden = garden
    v1 = v1
    v2 = v2
    Keys = {lights, garden}
    Contents = {v1, v2}
    Absent = Absent
    MaxLength = 4
    Histories <- MCHistories
INVARIANTS ComputesRewritten ComputesSurvivors OthersUntouched
CHECK_DEADLOCK FALSE
