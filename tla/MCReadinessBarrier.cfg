SPECIFICATION Spec
CONSTANTS
    alpha = alpha
    bravo = bravo
    charlie = charlie
    main = main
    Aliases  <- MCAliases
    Required <- MCRequired
    Waiters  <- MCWaiters
INVARIANTS
    TypeOK
    OpensOnlyWhenReady
PROPERTY
    ImplementsGate
