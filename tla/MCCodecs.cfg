CONSTANTS
    Base = 128
    MaxFragmentPayload = 4
    MaxReassemblyBytes = 100
    StaleFragAge = 1
    MaxPayloadBytes = 1000
    Window = 1
    DefaultWindow = 2
    Items <- MCItems
    PatternChars <- MCPatternChars
    NameChars <- MCNameChars
    TopicChars = {"a", "b", "/"}
    Patterns <- MCPatterns
    MaxPattern = 5
    MaxName = 2
    MaxTopic = 3
    SeqNums = {1, 2}
    Times = {0, 1, 2, 3}
    MaxCalls = 4
    UnicastPortRetries = 3
    Ids = {1, 2, 3}
    Configs <- MCConfigs
    HostAddress <- MCHostAddress
SPECIFICATION Spec
INVARIANTS RoundTrip CutSafe  ReplayOnce HostSound
CHECK_DEADLOCK FALSE
