SPECIFICATION Safety
CONSTANTS
    alpha = alpha
    bravo = bravo
    Participants <- Pair
    Main = main
    Role <- TwoWay
    Required <- Pair
    SlowConnect = TRUE
    AbruptDisconnect = TRUE
    ReconnectEnabled = TRUE
    MaxAttempts = 1
    ConnectErrors = {"tcp_connect_failed", "tls_handshake_failed"}
    TlsErrors = {"tls_handshake_failed"}
    ReadErrors = {"peer_closed"}
    SendErrors = {"write_failed"}
INVARIANTS
    TypeOK
    SendersGated
    GaugeExact
    ErrorRateBounded
    BudgetExact
    NoOrphanReader
    FailuresFaithful
    QuietAtReturn
PROPERTY
    ImplementsBarrier
