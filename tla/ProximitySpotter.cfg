SPECIFICATION Spec
CONSTANTS
    MaxAge = 2
    Occupied = 1
    Clear = 2
    Repeat = 2
    Ttl = 2
    Nothing = Nothing
    MaxClock = 6
    MaxEpoch = 2
    MaxTick = 6
    Seen = {1, 2, 4}
    Frames <- MCFrames
INVARIANTS Fresh CandidateCurrent NoMissedCall
PROPERTIES ClearIsEarned ImplementsFeed
