SPECIFICATION FairSpec
CONSTANTS
    NAPs = 2
    Tries = 2
    Api = {"run", "pause", "cont", "stop"}
    MaxApi = 3
INVARIANTS
    AnswerIsOwn
    RunIsTaken
PROPERTIES
    LaunchFrame
    BootCompletes
    RequestsAnswered
CHECK_DEADLOCK FALSE
