SPECIFICATION PolicySpec
CONSTANTS
    Keys = {1, 2}
    Revisions <- MCRevisions
    Contents <- MCContents
    Priority <- MCPriority
    MaxTime = 3
    MaxStaged = 2
    Lives = {2}
    StableSamples = 2
    StableFor = 1
    MaxGap = 1
    GlobalCooldown = 1
    ConflictCooldown = 2
INVARIANTS SpokenOnceAndSpaced CandidatesInForce
PROPERTY SpokenOnStableRoad
