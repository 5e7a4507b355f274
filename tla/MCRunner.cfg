SPECIFICATION Spec
CONSTANTS
    NotSet = NotSet
    Limits <- AllLimits
    U32Max = 2000000000
    MaxWork = 3
    Latencies = {2}
INVARIANTS
    TypeOK
    AbortGrounded
    StopExplained
PROPERTIES
    ThresholdEndsRun
    StopEndsRun
