SPECIFICATION Spec
CONSTANTS
    clock = clock
    lamp = lamp
    dim = dim
    bright = bright
    o1 = o1
    o2 = o2
    Cards = {clock, lamp}
    Faces = {dim}
    Absent = Absent
    Gone = Gone
    Unsaved = Unsaved
    Unread = Unread
    Ops = {o1, o2}
    Listener = Listener
    Pass = Pass
    MaxChanges = 2
    MaxAsked = 2
PROPERTIES ReplacedIsRecorded OnlyItsOwnCards VersionIsOfTheReplaced FailureIsReal
SYMMETRY Symmetric
CHECK_DEADLOCK FALSE
