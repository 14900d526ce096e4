SPECIFICATION FairSpec
CONSTANTS
    Modes = {"play", "publish"}
    MaxEcho = 2
    MaxMedia = 2
INVARIANTS
    CommandsInOrder
    OneReadOutstanding
    AnswersAreHandled
    PlayAfterCreateStream
PROPERTIES
    SessionStarts
CHECK_DEADLOCK FALSE
