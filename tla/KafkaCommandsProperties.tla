---------------------- MODULE KafkaCommandsProperties ----------------------
(***************************************************************************)
(* What the facade promises of commands that run side by side.             *)
(***************************************************************************)
EXTENDS KafkaCommands

\* The remote operations, the range job, the served read and the connection run
\* under the preferences that are saved now.
OperationsInForce == \A c \in RemoteOperations : commands[c].prefs = prefs.saves
RangesInForce == ranges.prefs \in {None, prefs.saves}
ReadInForce ==
    reading # NoRead /\ ServedBy(reading.conn) => commands[reading.start].prefs = prefs.saves
ConnectionInForce ==
    session.state \in {"connecting", "connected"} => commands[session.op].prefs = prefs.saves

\* Protection is in force for everything remote, because preferences are saved
\* only while none of it is there (KafkaCommandProtection).
ProtectionIsInForce ==
    OperationsInForce /\ RangesInForce /\ ReadInForce /\ ConnectionInForce

\* The newest connection command prevails: the session is never connected for a
\* command after a later one has begun, or the facade is closing
\* (assertConnectionIntent, the lifetime).
NewestCommandPrevails ==
    [][session'.op # session.op /\ session'.state = "connecting" =>
        /\ host = "open"
        /\ \A d \in After(session'.op) :
            IsOfKind(d, ConnectionKinds) => ~commands[d].dispatched]_vars

\* The active profile is the one that the session is connected to, even if its
\* bookkeeping ends after a newer connection (markActive).
ActiveProfileIsConnected ==
    active # None /\ IsConnected => commands[session.op].profile = active

\* A range job runs on the connection that the session serves, and no
\* connection command has begun to change it (RecordRangeFacade, admission).
RangeHasItsConnection ==
    ranges.state = "running" =>
        /\ ServedBy(ranges.conn)
        /\ \A c \in Ids : ~InPhase(c, {"idling", "connecting", "marking", "closing"})

\* What names a connection names the one that serves.
ConnectionIsShared == ActiveProfileIsConnected /\ RangeHasItsConnection

\* A stop, or a newer start, is never undone by a start that was asked for
\* before it and was slow to pass its checks (consumptionIntent).
NewestReadPrevails ==
    reading # NoRead =>
        \A d \in After(reading.start) :
            IsOfKind(d, ReadKinds) => ~commands[d].dispatched

\* A closed facade has answered everything it admitted, and nothing goes on
\* behind it (completeShutdown).
ClosedIsQuiet ==
    host = "closed" =>
        /\ \A c \in Ids : Pending(c) => IsOfKind(c, {"recovery"})
        /\ reading = NoRead /\ RangesIdle
        /\ session.state \in {"disconnected", "failed"}

\* Shutdown ends: it waits for the commands, and none of them waits for it
\* (stopStream: "Joining before tracking avoids shutdown -> admission.idle -> stop -> shutdown").
ShutdownSettles == host = "closing" ~> host = "closed"

\* A presented read is served: connection changes discard what the connection
\* before them was reading (lifecycle.invalidate).
PresentedReadIsServed ==
    reading # NoRead /\ commands[reading.start].answer = "ok" => ServedBy(reading.conn)
============================================================================
