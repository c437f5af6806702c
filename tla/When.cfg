\* The time of a scheduled game with 5-bit durations: Day, Second and Horizon
\* keep the order of their real values.
CONSTANTS
    HalfWord = 16
    Day = 3
    Second = 2
    Horizon = 6
    MaxNow = 2
SPECIFICATION Spec
INVARIANTS
    WithinHorizon
    MeansWhatItSays
