\* Spec section 8: one client that never reads its socket.
CONSTANTS
    Conns = {"c1", "c2"}
    Bcasts = {b1}
    Events <- NoEvents
    FailSubscribe = {}
    Stuck <- StuckFirst
    Hole = Hole
    Unsubscribed = Unsubscribed
    Established = Established
SPECIFICATION Spec
\* A server waiting for clients takes no step; that is not a deadlock.
CHECK_DEADLOCK FALSE
PROPERTY BroadcastNotBlockedByStuckObserver
