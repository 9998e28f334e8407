CONSTANTS
    FirstYear = 2011
    LastYear = 2014
    SummerTime <- MCSummerTime
    Today <- MCToday
    Pickers = {"start", "ampm", "ampm2", "multi", "mixed", "single"}
    Params <- MCParams
    Pages <- MCPages
    Texts <- MCTexts
    MaxLost <- MCMaxLost
    Days <- MCDays
    Times <- MCTimes
    FirstDays <- MCFirstDays
SPECIFICATION Spec
INVARIANTS
    TypeOK
    DisplaysDate
    YearInRange
    WeekNumbersISO
    PrintedDateIsRead
    ReleaseEndsPress
PROPERTIES
    ArrowsMoveOneStep
    NavigationKeepsDay
    PickReachesField
    ElectricFollowsMouse
    OpensAtField
