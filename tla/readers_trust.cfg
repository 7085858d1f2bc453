SPECIFICATION ReadersSpec
CONSTANTS
    p1 = p1
    lights = lights
    garden = garden
    v1 = v1
    r1 = r1
    r2 = r2
    garden1 = garden1
    Keys = {lights, garden}
    Contents = {v1}
    Absent = Absent
    Procs = {p1}
    NoProc = NoProc
    Names = {}
    Owner <- MCOwner
    Words = {"w"}
    NoPlan = NoPlan
    MaxCommits = 2
    MaxForgets = 1
    Readers = {r1}
    NoReader = NoReader
    NoIndex = NoIndex
    Attempts = 2
INVARIANT AcceptedIndexIsComplete
PROPERTY TrustIsEarned
SYMMETRY Symmetric
CHECK_DEADLOCK FALSE
