CONSTANTS
    Dates <- EdgeDates
    Times <- EdgeTimes
SPECIFICATION Spec
INVARIANTS LogsClockTime ClockInv
