\* Spec section 5 against the iteration of active_connections.
CONSTANTS
    Conns = {c1, c2}
    Bcasts = {b1}
    Events <- NoEvents
    FailSubscribe = {}
    Stuck <- NoStuck
    Hole = Hole
    Unsubscribed = Unsubscribed
    Established = Established
SPECIFICATION Spec
\* A server waiting for clients takes no step; that is not a deadlock.
CHECK_DEADLOCK FALSE
INVARIANT BroadcastReachesStableObservers
