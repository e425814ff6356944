CONSTANTS
    Senders = {s1, s2}
    Topic = topic
    EmptyTopic = empty
    ChannelDepth = 1
    DefaultDepth = 2
    MaxMessages = 4
SPECIFICATION Spec
INVARIANTS KeptByPolicy OnePublisher
PROPERTIES EventuallyReceived
CHECK_DEADLOCK FALSE
