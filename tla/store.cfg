SPECIFICATION FairSpec
CONSTANTS
    p1 = p1
    p2 = p2
    lights = lights
    garden = garden
    v1 = v1
    v2 = v2
    lights1 = lights1
    garden1 = garden1
    Keys = {lights, garden}
    Contents = {v1}
    Absent = Absent
    Procs = {p1, p2}
    NoProc = NoProc
    Names = {garden1}
    Owner <- MCOwner
    Words = {"w"}
    NoPlan = NoPlan
    MaxCommits = 2
    MaxForgets = 2
INVARIANTS TypeOK OneWriter PlanStaysValid NothingMissing MarksInHistory
PROPERTIES ImplementsPromise ForgetIsFinished ForgetErases PendingIsFrozen GenerationGuardsRewrites
CHECK_DEADLOCK FALSE
