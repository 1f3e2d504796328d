SPECIFICATION Spec
CONSTANTS
    s1 = s1
    s2 = s2
    Senders <- TwoSenders
    QueueLen = 2
    MayDie = TRUE
    MaxLines = 3
CHECK_DEADLOCK FALSE
INVARIANTS
    ParkedIsOwedANotice
    SenderOrder
PROPERTIES
    EveryWriteIsAnswered
