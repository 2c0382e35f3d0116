----------------------- MODULE KafkaSessionRequests -----------------------
(***************************************************************************)
(* KafkaSessionRequests: the requests in flight on the active connection.  *)
(* Every request map of the code belongs to one of four classes:           *)
(*   read      topic, configuration, ACL, log and consumer-group reads     *)
(*   latency   latency probes, whose cleanup a reconnect awaits            *)
(*   mutation  configuration and ACL changes, never fenced                 *)
(*   test      temporary connection tests, independent of the connection   *)
(* A result of "dirty" is a superseded request whose cleanup failed.       *)
(***************************************************************************)
EXTENDS KafkaSessionFields

VARIABLE requests

RequestIds == 1 .. MaxReqs
Classes == {"read", "latency", "mutation", "test"}
Outcomes == {"value", "error", "cleanupError"}
Results == {"none", "value", "error", "superseded", "dirty"}

Request ==
    [class : Classes, phase : {"unused", "running", "settled"},
     connection : Generations \cup {None}, generation : 0 .. MaxOps,
     aborted : BOOLEAN, result : Results]

NoRequest ==
    [class |-> "test", phase |-> "unused", connection |-> None,
     generation |-> 0, aborted |-> FALSE, result |-> "none"]

RequestsInit == requests = [r \in RequestIds |-> NoRequest]
RequestsTypeOK == requests \in [RequestIds -> Request]

Running(classes) ==
    {r \in RequestIds : requests[r].phase = "running" /\ requests[r].class \in classes}

Abort(rs) ==
    [r \in RequestIds |->
        IF r \in rs THEN [requests[r] EXCEPT !.aborted = TRUE] ELSE requests[r]]

\* cancelForReconnect aborts every class but the tests and returns the
\* latency probes; disconnect awaits all it aborts; shutdown the tests too.
SessionClasses == {"read", "latency", "mutation"}

\* Mutant: a new read leaves the one before it running.
ReplacesNothing(class) == {}

\* A new read or probe replaces the one before it; a mutation does not.
Replaces(class) == IF class \in {"read", "latency"} THEN Running({class}) ELSE {}

StartRequest(r, class) ==
    /\ ~shuttingDown
    /\ class # "test" => IsConnected
    /\ requests[r].phase = "unused"
    /\ \A q \in 1 .. r - 1 : requests[q].phase # "unused"
    /\ requests' =
          [Abort(Replaces(class)) EXCEPT ![r] =
              [class |-> class, phase |-> "running",
               connection |-> IF class = "test" THEN None ELSE activeConnection,
               generation |-> IF class = "test" THEN 0 ELSE generation,
               aborted |-> FALSE, result |-> "none"]]

\* isCurrentAdminRequest, the fence after the port answered.
IsCurrentRequest(r) ==
    /\ IsCurrentConnection(requests[r].connection, requests[r].generation)
    /\ ~requests[r].aborted

Superseded(r) == requests[r].class \in {"read", "latency"} /\ ~IsCurrentRequest(r)

ResultOf(r, outcome) ==
    CASE Superseded(r) /\ outcome = "cleanupError" -> "dirty"
      [] Superseded(r) /\ outcome # "cleanupError" -> "superseded"
      [] ~Superseded(r) -> IF outcome = "value" THEN "value" ELSE "error"

SettleRequest(r, outcome) ==
    /\ requests[r].phase = "running"
    /\ requests' = [requests EXCEPT
          ![r] = [@ EXCEPT !.phase = "settled", !.result = ResultOf(r, outcome)]]

RequestStep(r) ==
    \/ \E class \in Classes : StartRequest(r, class)
    \/ \E outcome \in Outcomes : SettleRequest(r, outcome)
===========================================================================
