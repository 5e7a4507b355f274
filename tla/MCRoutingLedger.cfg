SPECIFICATION Spec
CONSTANTS
    alpha = alpha
    bravo = bravo
    charlie = charlie
    delta = delta
    a1 = a1
    a2 = a2
    b1 = b1
    None = None
    Senders = {alpha, bravo}
    Receivers = {charlie, delta}
    Events = {a1, a2, b1}
    SenderOf <- Owner
    Timeout = 0
    MaxClock = 1
    MaxReceived = 3
SYMMETRY Symmetry
INVARIANTS
    TypeOK
    PassMeansRouted
    RoutedMeansPass
    ForbiddenExact
    DeliveriesExact
