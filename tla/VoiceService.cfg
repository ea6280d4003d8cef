SPECIFICATION FairSpec
CONSTANTS
    MaxJobs = 1
    Pressers = {"poller"}
    Nothing = Nothing
INVARIANTS MicrophoneHeld QuestionSilenced PausedIsOff
PROPERTIES ConfirmedAsRead Closes
CHECK_DEADLOCK FALSE
