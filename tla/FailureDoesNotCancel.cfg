SPECIFICATION Safety
CONSTANTS
    alpha = alpha
    bravo = bravo
    Participants <- Pair
    Main = main
    Role <- TwoWay
    Required = {}
    SlowConnect = FALSE
    AbruptDisconnect = FALSE
    ReconnectEnabled = FALSE
    MaxAttempts = 1
    ConnectErrors = {"tcp_connect_failed"}
    TlsErrors = {}
    ReadErrors = {"peer_closed"}
    SendErrors = {"write_failed"}
PROPERTY
    FailureCancels
