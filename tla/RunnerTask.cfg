CONSTANTS
    Depth = 2
    MaxChunks = 3
SPECIFICATION FairSpec
INVARIANTS TypeOK AnswerIsPromptTerminated DoneMeansTerminal
PROPERTIES SessionEndFinishesTask
CHECK_DEADLOCK FALSE
