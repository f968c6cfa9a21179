SPECIFICATION Spec
CONSTANTS
    aHour = 6
    aMinute = 10
    Opens = 21600
    Closes = 85500
    HookMax = 3
INVARIANTS
    TypeOK
    SleepsTillOpening
    WaitsOnce
    EndsInTheEvening
PROPERTY
    ComesBack
