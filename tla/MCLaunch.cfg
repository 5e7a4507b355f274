SPECIFICATION MCSpec
CONSTANTS
    Hosts = {"loop", "listed", "other"}
    Loopback = {"loop"}
    Ids <- AllIds
    UnsafeIds = {"../x"}
    Files <- AllFiles
    Second = 2
    MaxU64 = 65535
    MaxU32 = 7
    ClientId <- Client
    Readable <- AllReadable
    Paired <- AllPairs
    MaxInstant = 50000
INVARIANTS
    GuardRails
    RampFollowed
    TlsHonoured
PROPERTY
    BackoffGrows
