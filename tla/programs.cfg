SPECIFICATION Spec
CONSTANTS
    Messages <- MCMessages
    MAX = 5
    INF = 1000000000
    Sides <- MCSides
    Files <- MCFiles
    CommandLines <- MCCommandLines
    Numeral <- MCNumeral
    Arguments <- MCArguments
    Strays <- MCStrays
    MaxBacklog = 2
    BufferSize = 3
    NUL = "NUL"
    Unset = "unset"
    Publishers = {"pub1", "pub2"}
    Subscribers = {"sub1", "sub2"}
    Topics = {"test", "bad"}
    IllegalTopics = {"bad"}
    Wanted = 2
    MaxLosses = 1
INVARIANTS
    BurstSeen
    FewestCuts
    RowsFit
    KeepsText
    RecvNeverBlocks
    PrintsTheMessage
    SuccessMeansTaken
    PrintsInOrderOnce
PROPERTIES
    QueuesDrain
    SubscriberFinishes
CHECK_DEADLOCK FALSE
