SPECIFICATION Spec
CONSTANTS
    alpha = alpha
    bravo = bravo
    Participants <- JustBravo
    Main = main
    Role <- Alone
    Required <- JustBravo
    SlowConnect = TRUE
    AbruptDisconnect = FALSE
    ReconnectEnabled = TRUE
    MaxAttempts = 2
    ConnectErrors = {"tcp_connect_failed"}
    TlsErrors = {}
    ReadErrors = {"peer_closed"}
    SendErrors = {"write_failed"}
PROPERTY
    StopTerminates
