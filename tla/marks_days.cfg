SPECIFICATION Spec
CONSTANTS
    plain = plain
    edited = edited
    Contents = {plain, edited}
    Gone = Gone
    MaxDay = 2
    MaxStates = 4
    RecentStates = 3
    Asked = {"patch", "major"}
    MaxEvents = 1
INVARIANTS OneMarkPerDay EveryDayCloses NeverStranded NeverInEachOthersWay PastDaysStayClosed FloorIsLaid
SYMMETRY Symmetric
CHECK_DEADLOCK FALSE
