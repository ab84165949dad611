\* The registry, the iterator and liveness of cleanup and relay: two
\* connections, one broadcast, one event.
CONSTANTS
    Conns = {c1, c2}
    Bcasts = {b1}
    Events = {e1}
    FailSubscribe = {c2}
    Stuck <- NoStuck
    Hole = Hole
    Unsubscribed = Unsubscribed
    Established = Established
SPECIFICATION Spec
\* A server waiting for clients takes no step; that is not a deadlock.
CHECK_DEADLOCK FALSE
PROPERTY RegistryEventuallyClean
PROPERTY SubscribedObserversGetEveryEvent
