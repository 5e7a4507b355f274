SPECIFICATION Spec
CONSTANTS
    alpha = alpha
    bravo = bravo
    Participants <- Pair
    Main = main
    Role <- Senders
    Required <- JustBravo
    SlowConnect = TRUE
    AbruptDisconnect = FALSE
    ReconnectEnabled = FALSE
    MaxAttempts = 1
    ConnectErrors = {"tcp_connect_failed"}
    TlsErrors = {}
    ReadErrors = {"peer_closed"}
    SendErrors = {"write_failed"}
PROPERTIES
    KeepsContract
    ImplementsWorkload
    DeadlinesTerminate
