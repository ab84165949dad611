\* One connection whose pubsub.subscribe raises, and one broadcast.
CONSTANTS
    Conns = {c1}
    Bcasts = {b1}
    Events = {}
    FailSubscribe = {c1}
    Stuck = {}
    Hole = Hole
    Unsubscribed = Unsubscribed
    Established = Established
SPECIFICATION Spec
\* A server waiting for clients takes no step; that is not a deadlock.
CHECK_DEADLOCK FALSE
PROPERTY FailedSubscribeEventuallyClean
