SPECIFICATION FairSpec
CONSTANTS
    Codes <- MCCodes
    Nothing = Nothing
    MaxSerial = 2
    MaxEpoch = 1
INVARIANTS ObsoleteIsCancelled
PROPERTIES AttemptsAdvance NoticeKept OneWarningPerOutage ObsoleteIsSilenced Closes
