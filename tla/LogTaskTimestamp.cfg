CONSTANTS
    Dates = {}
    Times <- LeapYearTimes
SPECIFICATION Spec
INVARIANTS LogsTimestamp
