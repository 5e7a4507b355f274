SPECIFICATION Spec
CONSTANTS
    Setups <- AllSetups
    MaxEvents = 9
    MaxSessions = 3
INVARIANTS
    TypeOK
    NothingCountedTwice
    LedgerSound
    StreamUnbroken
    InvalidPerSession
PROPERTY
    ImplementsContract
