CONSTANTS
    A = A
    B = B
    R = R
    wa = wa
    wb = wb
    rx = rx
    ry = ry
    Base = 128
    MaxFragmentPayload = 6
    MaxReassemblyBytes = 100
    StaleFragAge = 0
    Nodes = {A, B, R}
    Writers = {wa, wb}
    Readers = {rx, ry}
    NodeOf <- MCNodeOf
    EntityOf <- MCEntityOf
    TopicOf <- MCTopicOf
    Matched <- MCMatched
    Transient = {ry}
    Durable = {A}
    Payloads <- MCPayloads
    Multicast = FALSE
    Depth = 1
    MaxPersistedPayload = 100
    Missing = {0, 4}
    MaxWritten = 2
    MaxRestarts = 1
    MaxTime = 1
SPECIFICATION Spec
INVARIANTS DeliveredWasWritten LoadedWhole LoopEndsOnlyConfused
