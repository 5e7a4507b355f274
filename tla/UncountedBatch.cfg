SPECIFICATION Safety
CONSTANTS
    Setups <- JustTwoWay
    MaxEvents = 5
    MaxSessions = 2
INVARIANT
    EventsAccounted
