SPECIFICATION FairSpec
CONSTANTS
    MaxGeneration = 5
    MaxRevision = 7
    QueueLimit = 2
INVARIANTS ShownIsCurrent FailedIsWithdrawn
PROPERTIES ImplementsLease Ends
