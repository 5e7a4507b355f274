SPECIFICATION Spec
CONSTANTS
    Byte <- Bytes
    StartMark <- Open
    EndMark <- Close
    Malformed = "!"
    MaxEvent = 5
    Streams <- SmallStreams
INVARIANTS
    CutsDoNotMatter
    FailureLosesOnePush
    BufferBounded
PROPERTY
    PushReturns
