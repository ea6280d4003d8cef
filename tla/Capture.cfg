SPECIFICATION Spec
CONSTANTS
    Samples <- MCSamples
    Line <- MCLine
    TrackOf <- MCTrackOf
    EventOf <- MCEventOf
    CarOf <- MCCarOf
    MaxSamples = 4
    StaleAfter = 1
    MaxBytes = 29
INVARIANTS
    Readable
    CompleteIsWhole
    WithinBudget
