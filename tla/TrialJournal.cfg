SPECIFICATION Spec
CONSTANTS
    Producers = {voice}
    Closer = desktop
    Worker = worker
    NoFrame = NoFrame
    Sizes = {1, 2}
    MaxFrames = 2
    MaxBytes = 3
    MayAge = FALSE
    MaxOffers = 3
INVARIANTS OverflowNeverSealed
CHECK_DEADLOCK FALSE
