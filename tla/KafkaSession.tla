--------------------------- MODULE KafkaSession ---------------------------
(***************************************************************************)
(* KafkaApplicationSession: connect, disconnect and shutdown, composed     *)
(* with the consumption and the requests they stop, abort and await.       *)
(*                                                                         *)
(* A lifecycle operation is a record.  Its phase follows its awaits:       *)
(*   cleanup     connect: the replaced resources are being closed          *)
(*   opening     connect: connectionPort.openConnection is in flight       *)
(*   installing  connect: the microtask of closeCancelledConnection        *)
(*   late        connect: opened after being superseded; closing it        *)
(*   cancelled   connect: opened after the caller aborted; closing it      *)
(*   finishing   disconnect, shutdown: awaiting everything it stopped      *)
(*   settled     its promise has settled                                   *)
(* The remaining fields name what the operation still awaits.              *)
(***************************************************************************)
EXTENDS KafkaConsumption, KafkaSessionRequests

CONSTANT
    CallsDuringInstall  \* may a call arrive in the microtask of "installing"?

ASSUME CallsAssumption == CallsDuringInstall \in BOOLEAN

VARIABLES
    ops,                \* every lifecycle operation, by generation
    connectionAttempt,  \* the attempt disconnect and shutdown await, or None
    closures            \* connectionClosures: the tracked close of a connection

lifecycleVars == <<ops, connectionAttempt, closures>>
vars == <<fieldVars, consumptionVars, requests, lifecycleVars>>

OpKinds == {"none", "connect", "disconnect", "shutdown"}
OpPhases == {"none", "cleanup", "opening", "installing", "late", "cancelled",
             "finishing", "settled"}
OpResults == {"none", "ok", "failed", "superseded", "dirty"}

Op ==
    [kind : OpKinds, phase : OpPhases, closes : SUBSET Generations,
     closeFailed : BOOLEAN, stop : ConsumptionIds \cup {None},
     attempt : Generations \cup {None}, reqs : SUBSET RequestIds,
     callerAborted : BOOLEAN, result : OpResults]

NoOp ==
    [kind |-> "none", phase |-> "none", closes |-> {}, closeFailed |-> FALSE,
     stop |-> None, attempt |-> None, reqs |-> {}, callerAborted |-> FALSE,
     result |-> "none"]

Init ==
    /\ FieldsInit
    /\ ConsumptionInit
    /\ RequestsInit
    /\ ops = [g \in Generations |-> NoOp]
    /\ connectionAttempt = None
    /\ closures = [c \in Generations |-> "none"]

TypeOK ==
    /\ FieldsTypeOK
    /\ ConsumptionTypeOK
    /\ RequestsTypeOK
    /\ ops \in [Generations -> Op]
    /\ connectionAttempt \in Generations \cup {None}
    /\ closures \in [Generations -> {"none", "pending", "rejected"}]

\* The bound on the calls of a behaviour.
MayCall ==
    LET Used(calls) == Cardinality({i \in DOMAIN calls : calls[i].phase # "unused"})
    IN  generation + Used(consumptions) + Used(requests) < MaxCalls

---------------------------------------------------------------------------
(* What an operation awaits, and whether any of it failed to clean up.     *)

Outstanding(g) ==
    \/ ops[g].closes # {}
    \/ StopPending(ops[g].stop)
    \/ ops[g].attempt # None /\ ops[ops[g].attempt].phase # "settled"
    \/ \E r \in ops[g].reqs : requests[r].phase = "running"

\* Mutant: a refused close of a connection is not a failure.
CleanupFailedButCloses(g) ==
    \/ StopFailed(ops[g].stop)
    \/ ops[g].attempt # None /\ ops[ops[g].attempt].result = "dirty"
    \/ \E r \in ops[g].reqs : requests[r].result = "dirty"

CleanupFailed(g) ==
    \/ ops[g].closeFailed
    \/ StopFailed(ops[g].stop)
    \/ ops[g].attempt # None /\ ops[ops[g].attempt].result = "dirty"
    \/ \E r \in ops[g].reqs : requests[r].result = "dirty"

Settled(op, result) ==
    [NoOp EXCEPT !.kind = op.kind, !.phase = "settled", !.result = result]

\* Mutant: an attempt is current until another attempt begins.
IsNewestAttempt(g) == connectionAttempt = g

\* An attempt is current until the next lifecycle operation, which takes a
\* new generation and aborts or replaces the controller in one step.
IsCurrent(g) == ~shuttingDown /\ generation = g

\* Calls reach the session from tasks of their own, so none falls in the one
\* microtask of "installing" unless CallsDuringInstall.
CallsReachSession ==
    CallsDuringInstall \/ \A g \in Generations : ops[g].phase # "installing"

\* Mutant: the serving connection is dropped without being closed.
TrackedClosesButActive == {c \in Generations : closures[c] # "none"}

\* closeTrackedConnections: retry or join the tracked closes, add the active.
TrackedCloses ==
    {c \in Generations : closures[c] # "none"} \cup ({activeConnection} \ {None})

CloseTracked ==
    closures' = [c \in Generations |->
                    IF c \in TrackedCloses THEN "pending" ELSE closures[c]]

---------------------------------------------------------------------------
Connect ==
    LET g == generation + 1
        probes == Running({"latency"})
        cleansUp == HasConsumptionToStop \/ TrackedCloses # {} \/ probes # {}
    IN  /\ MayCall /\ CallsReachSession
        /\ ~shuttingDown
        /\ g \in Generations
        /\ generation' = g
        /\ snapshot' = "connecting"
        /\ activeConnection' = None
        /\ connectionAttempt' = g
        /\ CloseTracked
        /\ StopConsumptionEffect
        /\ requests' = Abort(Running(SessionClasses))
        /\ ops' = [ops EXCEPT ![g] =
                      [NoOp EXCEPT !.kind = "connect",
                                   !.phase = IF cleansUp THEN "cleanup" ELSE "opening",
                                   !.closes = TrackedCloses,
                                   !.stop = StopBarrier,
                                   !.reqs = probes]]
        /\ UNCHANGED <<shuttingDown, connections>>

\* disconnect() and shutdown() differ in the tests and in shuttingDown; once
\* shutting down, both return the promise of the shutdown.
End(kind) ==
    LET g == generation + 1
        awaited == IF kind = "shutdown" THEN Classes ELSE SessionClasses
    IN  /\ MayCall /\ CallsReachSession
        /\ ~shuttingDown
        /\ g \in Generations
        /\ generation' = g
        /\ shuttingDown' = (kind = "shutdown")
        /\ snapshot' = "disconnecting"
        /\ activeConnection' = None
        /\ CloseTracked
        /\ StopConsumptionEffect
        /\ requests' = Abort(Running(awaited))
        /\ ops' = [ops EXCEPT ![g] =
                      [NoOp EXCEPT !.kind = kind,
                                   !.phase = "finishing",
                                   !.closes = TrackedCloses,
                                   !.stop = StopBarrier,
                                   !.attempt = connectionAttempt,
                                   !.reqs = Running(awaited)]]
        /\ UNCHANGED <<connections, connectionAttempt>>

Disconnect == End("disconnect")
Shutdown == End("shutdown")

\* The signal the caller gave connect() aborts.
CallerAborts(g) ==
    /\ CallsReachSession
    /\ ops[g].phase \in {"cleanup", "opening"}
    /\ ~ops[g].callerAborted
    /\ ops' = [ops EXCEPT ![g].callerAborted = TRUE]
    /\ UNCHANGED <<fieldVars, consumptionVars, requests, connectionAttempt, closures>>

---------------------------------------------------------------------------
(* The steps of establishConnection.                                       *)

\* The promise of connect() settles; clearConnectionAttempt runs with it.
SettleAttempt(g, result) ==
    /\ ops' = [ops EXCEPT ![g] = Settled(@, result)]
    /\ connectionAttempt' = IF connectionAttempt = g THEN None ELSE connectionAttempt
    /\ UNCHANGED <<generation, shuttingDown, activeConnection, consumptionVars, requests, closures>>

\* A current attempt publishes its failure, a superseded one keeps silent.
FailAttempt(g) ==
    /\ SettleAttempt(g, IF IsCurrent(g) THEN "failed" ELSE "superseded")
    /\ snapshot' = IF IsCurrent(g) THEN "failed" ELSE snapshot

\* The awaited cleanup settled, or five seconds passed.
LeaveCleanup(g, failed) ==
    \/ /\ failed \/ ~IsCurrent(g) \/ ops[g].callerAborted
       /\ FailAttempt(g)
       /\ UNCHANGED connections
    \/ /\ ~failed /\ IsCurrent(g) /\ ~ops[g].callerAborted
       /\ ops' = [ops EXCEPT ![g] = [NoOp EXCEPT !.kind = "connect", !.phase = "opening"]]
       /\ UNCHANGED <<fieldVars, consumptionVars, requests, connectionAttempt, closures>>

CleanupSettles(g) ==
    /\ ops[g].phase = "cleanup"
    /\ ~Outstanding(g)
    /\ LeaveCleanup(g, CleanupFailed(g))

\* Mutant: the timer covers the closes only.
CleanupExpiresOnCloses(g) ==
    /\ ops[g].phase = "cleanup"
    /\ ops[g].closes # {}
    /\ LeaveCleanup(g, TRUE)

CleanupExpires(g) ==
    /\ ops[g].phase = "cleanup"
    /\ Outstanding(g)
    /\ LeaveCleanup(g, TRUE)

OpenFails(g) ==
    /\ ops[g].phase = "opening"
    /\ FailAttempt(g)
    /\ UNCHANGED connections

OpenSucceeds(g) ==
    /\ ops[g].phase = "opening"
    /\ connections' = [connections EXCEPT ![g] = "open"]
    /\ ops' = [ops EXCEPT ![g].phase =
                  IF ~IsCurrent(g) THEN "late"
                  ELSE IF ops[g].callerAborted THEN "cancelled" ELSE "installing"]
    /\ UNCHANGED <<generation, shuttingDown, snapshot, activeConnection, consumptionVars,
                   requests, connectionAttempt, closures>>

\* closeSuperseded: a refused close travels with the superseded error.
LateConnectionCloses(g, failed) ==
    /\ ops[g].phase = "late"
    /\ connections' = [connections EXCEPT ![g] = IF failed THEN "leaked" ELSE "closed"]
    /\ SettleAttempt(g, IF failed THEN "dirty" ELSE "superseded")
    /\ UNCHANGED snapshot

\* closeCancelledConnection: a refused close travels with the abort reason.
CancelledConnectionCloses(g, failed) ==
    /\ ops[g].phase = "cancelled"
    /\ connections' = [connections EXCEPT ![g] = IF failed THEN "leaked" ELSE "closed"]
    /\ FailAttempt(g)

\* The microtask after closeCancelledConnection found no abort.
Install(g) ==
    /\ ops[g].phase = "installing"
    /\ activeConnection' = g
    /\ snapshot' = "connected"
    /\ ops' = [ops EXCEPT ![g] = Settled(@, "ok")]
    /\ connectionAttempt' = IF connectionAttempt = g THEN None ELSE connectionAttempt
    /\ UNCHANGED <<generation, shuttingDown, connections, consumptionVars, requests, closures>>

---------------------------------------------------------------------------
(* completeDisconnect and completeShutdown.                                *)
FinishEnd(g, failed) ==
    /\ ops' = [ops EXCEPT ![g] = Settled(@, IF failed THEN "failed" ELSE "ok")]
    /\ snapshot' = IF generation # g THEN snapshot
                   ELSE IF failed THEN "failed" ELSE "disconnected"
    /\ UNCHANGED <<generation, shuttingDown, activeConnection, connections, consumptionVars,
                   requests, connectionAttempt, closures>>

EndSettles(g) ==
    /\ ops[g].phase = "finishing"
    /\ ~Outstanding(g)
    /\ FinishEnd(g, CleanupFailed(g))

\* Mutant: the timer covers the closes only.
EndExpiresOnCloses(g) ==
    /\ ops[g].phase = "finishing"
    /\ ops[g].closes # {}
    /\ FinishEnd(g, TRUE)

EndExpires(g) ==
    /\ ops[g].phase = "finishing"
    /\ Outstanding(g)
    /\ FinishEnd(g, TRUE)

\* A refused close stays in connectionClosures for the next operation.
ClosureAfter(failed) == IF failed THEN "rejected" ELSE "none"

\* A tracked close settles: every operation that joined it hears of it.
TrackedConnectionCloses(c, failed) ==
    /\ closures[c] = "pending"
    /\ closures' = [closures EXCEPT ![c] = ClosureAfter(failed)]
    /\ connections' = IF failed THEN connections ELSE [connections EXCEPT ![c] = "closed"]
    /\ consumptionStop' = IF failed THEN consumptionStop ELSE BarrierAfterClose(c)
    /\ ops' = [g \in Generations |->
                  IF c \in ops[g].closes
                  THEN [ops[g] EXCEPT !.closes = @ \ {c},
                                      !.closeFailed = @ \/ failed]
                  ELSE ops[g]]
    /\ UNCHANGED <<generation, shuttingDown, snapshot, activeConnection, consumer, consumptions,
                   requests, connectionAttempt>>

---------------------------------------------------------------------------
LifecycleStep(g) ==
    \/ CallerAborts(g)
    \/ CleanupSettles(g)
    \/ CleanupExpires(g)
    \/ OpenFails(g)
    \/ OpenSucceeds(g)
    \/ \E failed \in BOOLEAN :
          \/ LateConnectionCloses(g, failed)
          \/ CancelledConnectionCloses(g, failed)
          \/ TrackedConnectionCloses(g, failed)
    \/ Install(g)
    \/ EndSettles(g)
    \/ EndExpires(g)

ConsumptionNext ==
    /\ \/ StopConsumption
       \/ \E k \in ConsumptionIds :
             /\ consumptions[k].phase = "unused" => MayCall
             /\ ConsumptionStep(k)
    /\ UNCHANGED <<fieldVars, requests, lifecycleVars>>

RequestNext ==
    /\ \E r \in RequestIds :
          /\ requests[r].phase = "unused" => MayCall
          /\ RequestStep(r)
    /\ UNCHANGED <<fieldVars, consumptionVars, lifecycleVars>>

Next ==
    \/ Connect
    \/ Disconnect
    \/ Shutdown
    \/ \E g \in Generations : LifecycleStep(g)
    \/ ConsumptionNext
    \/ RequestNext

Spec == Init /\ [][Next]_vars

\* The five-second timer fires, and a settled wait resumes its function.
TimerFairness ==
    \A g \in Generations :
        /\ WF_vars(EndSettles(g) \/ EndExpires(g))
        /\ WF_vars(CleanupSettles(g) \/ CleanupExpires(g))
        /\ WF_vars(Install(g))

\* The port answers every open and every direct close.
PortFairness ==
    \A g \in Generations :
        /\ WF_vars(OpenSucceeds(g) \/ OpenFails(g))
        /\ WF_vars(\E failed \in BOOLEAN : LateConnectionCloses(g, failed))
        /\ WF_vars(\E failed \in BOOLEAN : CancelledConnectionCloses(g, failed))

\* The adapter answers every stream open and stream close.
StreamFairness ==
    \A k \in ConsumptionIds :
        WF_vars(/\ \/ BeginOpen(k)
                   \/ StreamOpens(k)
                   \/ \E failed \in BOOLEAN :
                         \/ StreamOpenFails(k, failed)
                         \/ LateStreamCloses(k, failed)
                         \/ StreamCloses(k, failed)
                   \/ StopSettles(k)
                   \/ RejectBehindStop(k) /\ StopFailed(consumptions[k].after)
                /\ UNCHANGED <<fieldVars, requests, lifecycleVars>>)

TimedSpec == Spec /\ TimerFairness

===========================================================================
