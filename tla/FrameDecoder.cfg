SPECIFICATION Spec
CONSTANTS
    Bytes = {0, 1, 2, 3}
    SYNC0 = 2
    SYNC1 = 3
    KnownTypes = {1}
    MaxPayload = 1
    MaxBuffer = 9
    MaxChunk = 4
    NoiseBefore = 4
    NoiseBetween = 1
    Streams <- MCStreams
CHECK_DEADLOCK FALSE
INVARIANTS
    TypeOK
    ChunkingDoesNotMatter
    NoFrameIsLost
