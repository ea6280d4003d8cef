SPECIFICATION FairSpec
CONSTANTS
    Producers = {sdk}
    Closer = sdk
    Worker = worker
    NoFrame = NoFrame
    Sizes = {1, 2}
    MaxFrames = 2
    MaxBytes = 3
    MayAge = TRUE
    MaxOffers = 5
INVARIANTS EveryFrameOnce SealedIsWhole BudgetsHold
PROPERTIES Ends
CHECK_DEADLOCK FALSE
