----------------------- MODULE NatsSessionProperties -----------------------
(* What NatsApplicationSession promises, over the model of NatsSession. *)
EXTENDS NatsSession

Busy(i) == calls[i].phase \notin {"unused", "settled"}
Live == {"opening", "open", "retiring", "leaked"}

\* "connected" is shown only over the connection of the newest attempt, open,
\* with every other connection confirmed closed: brokers are never joined.
ConnectedIsExclusive ==
    (~Closing /\ connection = "connected") =>
        /\ conn[connectionIntent] = "open"
        /\ \A i \in CallIds \ {connectionIntent} : conn[i] \notin Live

\* "streaming" is shown only over the newest start's subscription, on the
\* connection that is shown as connected, with every other one stopped.
StreamingIsExclusive ==
    (~Closing /\ subscription = "streaming") =>
        /\ connection = "connected"
        /\ sub[subscriptionIntent] = "open"
        /\ calls[subscriptionIntent].kind = "start"
        /\ \A i \in CallIds \ {subscriptionIntent} : sub[i] \notin Live

\* A profile stays reserved while the engine may still use the connection
\* that was opened from it, whoever closes that connection in the end.
ProfileStaysReserved ==
    \A i \in CallIds : conn[i] \in Live => i \in reservations

\* "disconnected" is shown only when the engine owns nothing any more.
DisconnectedIsClean ==
    (~Closing /\ connection = "disconnected") =>
        \A i \in CallIds : conn[i] \notin Live /\ sub[i] \notin Live

\* A shutdown that succeeds has waited for every call and closed everything.
ShutdownIsComplete ==
    shutdown = "ok" =>
        /\ \A i \in CallIds : ~Busy(i) /\ calls[i].cleanup # "pending"
        /\ \A i \in CallIds : conn[i] \notin Live /\ sub[i] \notin Live
        /\ reservations = {}

\* What the snapshots show, and what a shutdown reports, is what the engine owns.
ShownIsOwned ==
    /\ ConnectedIsExclusive /\ StreamingIsExclusive /\ DisconnectedIsClean
    /\ ShutdownIsComplete

\* A cleanup that failed is never lost: the session is latched, or a call
\* that will find the failure again is still under way.
FailedCleanupIsLatched ==
    (~Closing /\ \E i \in CallIds : "leaked" \in {conn[i], sub[i]}) =>
        cleanupFailed \/ \E i \in CallIds : Busy(i) \/ calls[i].cleanup = "pending"

\* What the engine may still use keeps its profile, and what it failed to
\* clean up keeps the session latched.
CleanupIsHeld == ProfileStaysReserved /\ FailedCleanupIsLatched

\* A workspace that drops the snapshots older than the one it holds shows the
\* state of the session: disconnect and stop reserve the revision of their
\* result before they know whether it will be current, and return it even when
\* newer calls have superseded it.
ViewerConverges ==
    ~Closing => viewed.connection = connection /\ viewed.subscription = subscription

\* Every call settles once the engine answers: no stop, disconnect or connect
\* waits for a call that waits for it.
CallsSettle == \A i \in CallIds : Busy(i) ~> ~Busy(i)
============================================================================
