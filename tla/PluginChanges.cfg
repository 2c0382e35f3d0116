\* One plugin and every kind of change: a start, the prompt and the answer of an exit, and the change after it;
\* and removals and recoveries over two requests, whose consents may be confused.
SPECIFICATION Spec
CONSTANTS
    Plugins = {p1}
    None = None
    Offered = {"install", "retry", "remove", "recovery", "exit", "resolve",
               "review-install", "review-retry", "review-remove"}
    Beside = {"remove", "recovery", "review-install", "review-remove"}
    MaxChanges = 4
    MaxBackends = 2
    MaxRequests = 2
CHECK_DEADLOCK FALSE
INVARIANTS
    BackendsAreOwned
    NoRequestOutlivesItsBackend
    StopsOnlyConfirmed
    ChangesAreCurrent
