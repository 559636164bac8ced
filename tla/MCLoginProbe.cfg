CONSTANTS
    CallFrames = 3
    MaxEntries = 2
    MaxExtra = 3
    MaxResends = 1
SPECIFICATION FairSpec
INVARIANTS
    PrintsWhatHappened
    OwnAnswerUnlessResent
PROPERTIES
    AnswerInReachIsTaken
    Ends
CHECK_DEADLOCK FALSE
