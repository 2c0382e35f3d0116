------------------------ MODULE KafkaSessionProofs ------------------------
(***************************************************************************)
(* Theorems about KafkaApplicationSession, for every number of operations, *)
(* consumptions and requests: its generations, the stop barrier, the quiet *)
(* of "disconnected" and the fence of a read.                              *)
(***************************************************************************)
EXTENDS KafkaSessionProperties, TLAPS

---------------------------------------------------------------------------
(* Type correctness.  The operators that compute next values come first.   *)

LEMMA NoneIsNoGeneration == None \notin Generations /\ None \notin ConsumptionIds
BY DEF None, Generations, ConsumptionIds

\* stopConsumption() leaves well-typed consumptions and a well-typed barrier.
LEMMA StopTyped ==
    ASSUME ConsumptionTypeOK
    PROVE  /\ StopBarrier \in ConsumptionIds \cup {None}
           /\ AfterStop \in [ConsumptionIds -> Consumption]
<1>1. StopBarrier \in ConsumptionIds \cup {None}
  BY DEF ConsumptionTypeOK, StopBarrier
<1>2. ASSUME NEW k \in ConsumptionIds
      PROVE  Stopped(consumptions[k]) \in Consumption
  BY ZenonT(40) DEF ConsumptionTypeOK, Consumption, Stopped, IsCovered, StopStates, Phases
<1>3. AfterStop \in [ConsumptionIds -> Consumption]
  BY <1>2 DEF ConsumptionTypeOK, AfterStop
<1>. QED
  BY <1>1, <1>3

\* Aborting requests leaves well-typed requests.
LEMMA AbortTyped ==
    ASSUME RequestsTypeOK, NEW rs
    PROVE  Abort(rs) \in [RequestIds -> Request]
BY DEF RequestsTypeOK, Abort, Request

LEMMA TrackedTyped ==
    ASSUME FieldsTypeOK
    PROVE  TrackedCloses \subseteq Generations
BY DEF FieldsTypeOK, TrackedCloses

LEMMA RunningTyped ==
    ASSUME NEW classes
    PROVE  Running(classes) \subseteq RequestIds
BY DEF Running

LEMMA SettledTyped ==
    ASSUME NEW op \in Op, NEW result \in OpResults
    PROVE  Settled(op, result) \in Op
BY DEF Settled, NoOp, Op, OpPhases, OpResults, OpKinds, None

LEMMA NoOpTyped == NoOp \in Op
BY DEF NoOp, Op, OpPhases, OpResults, OpKinds, None

LEMMA InitTyped == Init => TypeOK
<1> SUFFICES ASSUME Init PROVE TypeOK
  OBVIOUS
<1>1. FieldsTypeOK
  <2>1. shuttingDown \in BOOLEAN
    BY DEF Init, FieldsInit
  <2>2. generation \in 0 .. MaxOps /\ snapshot \in Snapshots
    BY BoundsAssumption DEF Init, FieldsInit, Snapshots
  <2>3. connections \in [Generations -> Resources]
    BY DEF Init, FieldsInit, Resources
  <2>. QED
    BY <2>1, <2>2, <2>3 DEF Init, FieldsInit, FieldsTypeOK
<1>2. NoConsumption \in Consumption
  BY BoundsAssumption DEF NoConsumption, Consumption, Phases, StopStates, Residues
<1>3. ConsumptionTypeOK
  BY <1>2 DEF Init, ConsumptionInit, ConsumptionTypeOK
<1>4. RequestsTypeOK
  BY BoundsAssumption DEF Init, RequestsInit, RequestsTypeOK, NoRequest, Request, Classes, Results
<1>. QED
  BY <1>1, <1>3, <1>4, NoOpTyped DEF Init, TypeOK

\* Every step of a consumption keeps the three variables well typed.
LEMMA ConsumptionStepTyped ==
    ASSUME TypeOK, NEW k \in ConsumptionIds, ConsumptionStep(k)
    PROVE  ConsumptionTypeOK'
<1>. USE DEF TypeOK
<1>1. NoConsumption \in Consumption
  BY BoundsAssumption DEF NoConsumption, Consumption, Phases, StopStates, Residues
<1>2. ASSUME NEW residue \in Residues, Finish(k, residue)
      PROVE  ConsumptionTypeOK'
  <2>1. [consumptions[k] EXCEPT !.phase = "done", !.after = None, !.residue = residue]
            \in Consumption
    BY ZenonT(20) DEF ConsumptionTypeOK, Consumption, Phases
  <2>. QED
    BY <1>2, <2>1 DEF Finish, Drop, ConsumptionTypeOK
<1>3. CASE StartConsumption(k)
  <2>1. CASE IsConnected
    <3>1. [NoConsumption EXCEPT !.phase = "waiting",
                                !.connection = activeConnection,
                                !.generation = generation,
                                !.after = StopBarrier] \in Consumption
      BY <1>1, StopTyped DEF Consumption, FieldsTypeOK, Phases
    <3>. QED
      BY <1>3, <2>1, <3>1, StopTyped DEF StartConsumption, ConsumptionTypeOK
  <2>2. CASE ~IsConnected
    BY <1>3, <2>2, StopTyped
    DEF StartConsumption, StopConsumptionEffect, ConsumptionTypeOK
  <2>. QED
    BY <2>1, <2>2
<1>4. CASE BeginOpen(k)
  <2>1. CASE Finish(k, "none")
    BY <2>1, <1>2 DEF Residues
  <2>2. CASE ~Finish(k, "none")
    <3>1. [consumptions[k] EXCEPT !.phase = "opening", !.after = None] \in Consumption
      BY ZenonT(30) DEF ConsumptionTypeOK, Consumption, Phases
    <3>. QED
      BY <1>4, <2>2, <3>1 DEF BeginOpen, ConsumptionTypeOK
  <2>. QED
    BY <2>1, <2>2
<1>5. CASE RejectBehindStop(k)
  BY <1>5, <1>2 DEF RejectBehindStop, Residues
<1>6. CASE StreamOpens(k)
  BY <1>6 DEF StreamOpens, ConsumptionTypeOK, Consumption, Phases
<1>7. ASSUME NEW failed \in BOOLEAN, StreamOpenFails(k, failed)
      PROVE  ConsumptionTypeOK'
  BY <1>7, <1>2 DEF StreamOpenFails, Residues
<1>8. ASSUME NEW failed \in BOOLEAN, LateStreamCloses(k, failed)
      PROVE  ConsumptionTypeOK'
  BY <1>8, <1>2 DEF LateStreamCloses, Residues
<1>9. ASSUME NEW failed \in BOOLEAN, StreamCloses(k, failed)
      PROVE  ConsumptionTypeOK'
  <2>1. /\ [consumptions[k] EXCEPT !.phase = "done", !.residue = "stream", !.stop = "failed"]
               \in Consumption
        /\ [consumptions[k] EXCEPT !.phase = "done",
                                   !.residue = IF failed THEN "stream" ELSE "none"]
               \in Consumption
    BY ZenonT(60) DEF ConsumptionTypeOK, Consumption, Phases, StopStates, Residues
  <2>. QED
    BY <1>9, <2>1 DEF StreamCloses, ConsumptionTypeOK
<1>10. CASE PumpEnds(k)
  BY <1>10 DEF PumpEnds, ConsumptionTypeOK, Consumption, Phases
<1>11. CASE StopSettles(k)
  <2>1. [consumptions[k] EXCEPT !.stop = IF StopFails(k) THEN "failed" ELSE "ok",
                                !.previous = None] \in Consumption
    BY ZenonT(30) DEF ConsumptionTypeOK, Consumption, StopStates
  <2>. QED
    BY <1>11, <2>1 DEF StopSettles, ConsumptionTypeOK
<1>. QED
  BY <1>3, <1>4, <1>5, <1>6, <1>7, <1>8, <1>9, <1>10, <1>11 DEF ConsumptionStep

LEMMA RequestStepTyped ==
    ASSUME TypeOK, NEW r \in RequestIds, RequestStep(r)
    PROVE  RequestsTypeOK'
<1>1. ASSUME NEW class \in Classes, StartRequest(r, class)
      PROVE  RequestsTypeOK'
  <2>1. Abort(Replaces(class)) \in [RequestIds -> Request]
    BY AbortTyped DEF TypeOK
  <2>2. [class |-> class, phase |-> "running",
         connection |-> IF class = "test" THEN None ELSE activeConnection,
         generation |-> IF class = "test" THEN 0 ELSE generation,
         aborted |-> FALSE, result |-> "none"] \in Request
    BY BoundsAssumption DEF TypeOK, FieldsTypeOK, Request, Results, None
  <2>. QED
    BY <1>1, <2>1, <2>2 DEF StartRequest, RequestsTypeOK
<1>2. ASSUME NEW outcome \in Outcomes, SettleRequest(r, outcome)
      PROVE  RequestsTypeOK'
  <2>1. ResultOf(r, outcome) \in Results
    BY DEF ResultOf, Results
  <2>. QED
    BY <1>2, <2>1, ZenonT(30) DEF TypeOK, SettleRequest, RequestsTypeOK, Request
<1>. QED
  BY <1>1, <1>2 DEF RequestStep

\* What connect, disconnect and shutdown share: the stop and the aborts.
LEMMA StopAndAbortTyped ==
    ASSUME TypeOK, StopConsumptionEffect, CloseTracked, NEW rs, requests' = Abort(rs)
    PROVE  /\ ConsumptionTypeOK'
           /\ RequestsTypeOK'
           /\ closures' \in [Generations -> {"none", "pending", "rejected"}]
<1>1. ConsumptionTypeOK'
  BY StopTyped DEF TypeOK, StopConsumptionEffect, ConsumptionTypeOK
<1>2. RequestsTypeOK'
  BY AbortTyped DEF TypeOK, RequestsTypeOK
<1>3. closures' \in [Generations -> {"none", "pending", "rejected"}]
  BY DEF TypeOK, CloseTracked
<1>. QED
  BY <1>1, <1>2, <1>3

LEMMA ConnectTyped == ASSUME TypeOK, Connect PROVE TypeOK'
<1> DEFINE g == generation + 1
<1> DEFINE op ==
      [NoOp EXCEPT !.kind = "connect",
                   !.phase = IF \/ HasConsumptionToStop
                                \/ TrackedCloses # {}
                                \/ Running({"latency"}) # {}
                             THEN "cleanup" ELSE "opening",
                   !.closes = TrackedCloses,
                   !.stop = StopBarrier,
                   !.reqs = Running({"latency"})]
<1>1. op \in Op
  BY StopTyped, TrackedTyped, RunningTyped
  DEF TypeOK, Op, NoOp, OpKinds, OpPhases, OpResults
<1>2. ops' = [ops EXCEPT ![g] = op]
  BY DEF Connect
<1>3. ops' \in [Generations -> Op]
  <2>. HIDE DEF op
  <2>. QED
    BY <1>1, <1>2 DEF TypeOK
<1>4. FieldsTypeOK'
  BY DEF TypeOK, FieldsTypeOK, Connect, Generations, Snapshots, None
<1>5. ConsumptionTypeOK' /\ RequestsTypeOK'
      /\ closures' \in [Generations -> {"none", "pending", "rejected"}]
  BY StopAndAbortTyped DEF Connect
<1>6. connectionAttempt' \in Generations \cup {None}
  BY DEF Connect
<1>. QED
  BY <1>3, <1>4, <1>5, <1>6 DEF TypeOK

LEMMA EndTyped ==
    ASSUME TypeOK, NEW kind \in {"disconnect", "shutdown"}, End(kind)
    PROVE  TypeOK'
<1> DEFINE g == generation + 1
<1> DEFINE awaited == IF kind = "shutdown" THEN Classes ELSE SessionClasses
<1> DEFINE op ==
      [NoOp EXCEPT !.kind = kind,
                   !.phase = "finishing",
                   !.closes = TrackedCloses,
                   !.stop = StopBarrier,
                   !.attempt = connectionAttempt,
                   !.reqs = Running(awaited)]
<1>1. op \in Op
  BY StopTyped, TrackedTyped, RunningTyped
  DEF TypeOK, Op, NoOp, OpKinds, OpPhases, OpResults
<1>2. ops' = [ops EXCEPT ![g] = op]
  BY DEF End
<1>3. ops' \in [Generations -> Op]
  <2>. HIDE DEF op
  <2>. QED
    BY <1>1, <1>2 DEF TypeOK
<1>4. FieldsTypeOK'
  <2>1. shuttingDown' \in BOOLEAN
    BY DEF End
  <2>2. generation' \in 0 .. MaxOps
    BY DEF TypeOK, FieldsTypeOK, End, Generations
  <2>. QED
    BY <2>1, <2>2 DEF TypeOK, FieldsTypeOK, End, Snapshots
<1>5. ConsumptionTypeOK' /\ RequestsTypeOK'
      /\ closures' \in [Generations -> {"none", "pending", "rejected"}]
  BY StopAndAbortTyped DEF End
<1>6. connectionAttempt' \in Generations \cup {None}
  BY DEF End, TypeOK
<1>. QED
  BY <1>3, <1>4, <1>5, <1>6 DEF TypeOK

\* Settling an operation and publishing its failure.
LEMMA SettledOpsTyped ==
    ASSUME TypeOK, NEW g \in Generations, NEW result \in OpResults,
           ops' = [ops EXCEPT ![g] = Settled(@, result)]
    PROVE  ops' \in [Generations -> Op]
<1>1. Settled(ops[g], result) \in Op
  BY SettledTyped DEF TypeOK
<1>. QED
  BY <1>1 DEF TypeOK

LEMMA FailAttemptTyped ==
    ASSUME TypeOK, NEW g \in Generations, FailAttempt(g),
           connections' \in [Generations -> Resources]
    PROVE  TypeOK'
<1> DEFINE result == IF IsCurrent(g) THEN "failed" ELSE "superseded"
<1>1. result \in OpResults
  BY DEF OpResults
<1>2. ops' \in [Generations -> Op]
  <2>1. ops' = [ops EXCEPT ![g] = Settled(@, result)]
    BY DEF FailAttempt, SettleAttempt
  <2>. QED
    BY <1>1, <2>1, SettledOpsTyped
<1>3. FieldsTypeOK'
  BY DEF TypeOK, FieldsTypeOK, FailAttempt, SettleAttempt, Snapshots
<1>4. ConsumptionTypeOK' /\ RequestsTypeOK'
  BY DEF TypeOK, FailAttempt, SettleAttempt, ConsumptionTypeOK, RequestsTypeOK, consumptionVars
<1>. QED
  BY <1>2, <1>3, <1>4 DEF TypeOK, FailAttempt, SettleAttempt

LEMMA LeaveCleanupTyped ==
    ASSUME TypeOK, NEW g \in Generations, NEW failed, LeaveCleanup(g, failed)
    PROVE  TypeOK'
<1>1. CASE FailAttempt(g) /\ UNCHANGED connections
  BY <1>1, FailAttemptTyped DEF TypeOK, FieldsTypeOK
<1>2. CASE ~(FailAttempt(g) /\ UNCHANGED connections)
  <2>1. [NoOp EXCEPT !.kind = "connect", !.phase = "opening"] \in Op
    BY NoOpTyped DEF Op, OpKinds, OpPhases
  <2>. QED
    BY <1>2, <2>1
    DEF LeaveCleanup, TypeOK, FieldsTypeOK, ConsumptionTypeOK, RequestsTypeOK,
        fieldVars, consumptionVars
<1>. QED
  BY <1>1, <1>2

LEMMA FinishEndTyped ==
    ASSUME TypeOK, NEW g \in Generations, NEW failed, FinishEnd(g, failed)
    PROVE  TypeOK'
<1> DEFINE result == IF failed THEN "failed" ELSE "ok"
<1>1. result \in OpResults
  BY DEF OpResults
<1>2. ops' \in [Generations -> Op]
  <2>1. ops' = [ops EXCEPT ![g] = Settled(@, result)]
    BY DEF FinishEnd
  <2>. QED
    BY <1>1, <2>1, SettledOpsTyped
<1>. QED
  BY <1>2
  DEF FinishEnd, TypeOK, FieldsTypeOK, ConsumptionTypeOK, RequestsTypeOK, consumptionVars,
      Snapshots

\* Every step of a lifecycle operation after its call.
LEMMA LifecycleStepTyped ==
    ASSUME TypeOK, NEW g \in Generations, LifecycleStep(g)
    PROVE  TypeOK'
<1>1. CASE CallerAborts(g)
  <2>1. [ops[g] EXCEPT !.callerAborted = TRUE] \in Op
    <3>1. ASSUME NEW op \in Op PROVE [op EXCEPT !.callerAborted = TRUE] \in Op
      BY DEF Op
    <3>. QED
      BY <3>1 DEF TypeOK
  <2>. QED
    BY <1>1, <2>1
    DEF CallerAborts, TypeOK, FieldsTypeOK, ConsumptionTypeOK, RequestsTypeOK, fieldVars,
        consumptionVars
<1>2. CASE CleanupSettles(g) \/ CleanupExpires(g)
  BY <1>2, LeaveCleanupTyped DEF CleanupSettles, CleanupExpires
<1>3. CASE OpenFails(g)
  BY <1>3, FailAttemptTyped DEF OpenFails, TypeOK, FieldsTypeOK
<1>4. CASE OpenSucceeds(g)
  <2>1. ASSUME NEW phase \in OpPhases
        PROVE  [ops[g] EXCEPT !.phase = phase] \in Op
    BY DEF TypeOK, Op
  <2> DEFINE phase == IF ~IsCurrent(g) THEN "late"
                      ELSE IF ops[g].callerAborted THEN "cancelled" ELSE "installing"
  <2>2. phase \in OpPhases
    BY DEF OpPhases
  <2>3. ops' \in [Generations -> Op]
    <3>1. ops' = [ops EXCEPT ![g] = [@ EXCEPT !.phase = phase]]
      BY <1>4 DEF OpenSucceeds, TypeOK
    <3>2. [ops[g] EXCEPT !.phase = phase] \in Op
      BY <2>1, <2>2
    <3>. HIDE DEF phase
    <3>. QED
      BY <3>1, <3>2 DEF TypeOK
  <2>4. connections' \in [Generations -> Resources]
    BY <1>4 DEF OpenSucceeds, TypeOK, FieldsTypeOK, Resources
  <2>. QED
    BY <1>4, <2>3, <2>4
    DEF OpenSucceeds, TypeOK, FieldsTypeOK, ConsumptionTypeOK, RequestsTypeOK, consumptionVars
<1>5. ASSUME NEW failed \in BOOLEAN, LateConnectionCloses(g, failed)
      PROVE  TypeOK'
  <2> DEFINE result == IF failed THEN "dirty" ELSE "superseded"
  <2>1. result \in OpResults
    BY DEF OpResults
  <2>2. ops' \in [Generations -> Op]
    <3>1. ops' = [ops EXCEPT ![g] = Settled(@, result)]
      BY <1>5 DEF LateConnectionCloses, SettleAttempt
    <3>. QED
      BY <2>1, <3>1, SettledOpsTyped
  <2>3. connections' \in [Generations -> Resources]
    BY <1>5 DEF LateConnectionCloses, TypeOK, FieldsTypeOK, Resources
  <2>. QED
    BY <1>5, <2>2, <2>3
    DEF LateConnectionCloses, SettleAttempt, TypeOK, FieldsTypeOK, ConsumptionTypeOK,
        RequestsTypeOK, consumptionVars
<1>6. ASSUME NEW failed \in BOOLEAN, CancelledConnectionCloses(g, failed)
      PROVE  TypeOK'
  <2>1. connections' \in [Generations -> Resources]
    BY <1>6 DEF CancelledConnectionCloses, TypeOK, FieldsTypeOK, Resources
  <2>. QED
    BY <1>6, <2>1, FailAttemptTyped DEF CancelledConnectionCloses
<1>7. ASSUME NEW failed \in BOOLEAN, TrackedConnectionCloses(g, failed)
      PROVE  TypeOK'
  <2>1. ASSUME NEW h \in Generations
        PROVE  [ops[h] EXCEPT !.closes = @ \ {g}, !.closeFailed = @ \/ failed] \in Op
    <3>1. ASSUME NEW op \in Op
          PROVE  [op EXCEPT !.closes = @ \ {g}, !.closeFailed = @ \/ failed] \in Op
      BY DEF Op
    <3>. QED
      BY <3>1 DEF TypeOK
  <2>2. ops' \in [Generations -> Op]
    BY <1>7, <2>1 DEF TrackedConnectionCloses, TypeOK
  <2>3. connections' \in [Generations -> Resources]
    BY <1>7 DEF TrackedConnectionCloses, TypeOK, FieldsTypeOK, Resources
  <2>4. closures' \in [Generations -> {"none", "pending", "rejected"}]
    BY <1>7 DEF TrackedConnectionCloses, ClosureAfter, TypeOK
  <2>5. ConsumptionTypeOK'
    BY <1>7 DEF TrackedConnectionCloses, TypeOK, ConsumptionTypeOK, BarrierAfterClose
  <2>. QED
    BY <1>7, <2>2, <2>3, <2>4, <2>5
    DEF TrackedConnectionCloses, TypeOK, FieldsTypeOK, RequestsTypeOK
<1>8. CASE Install(g)
  <2>1. ops' \in [Generations -> Op]
    BY <1>8, SettledOpsTyped DEF Install, OpResults
  <2>2. FieldsTypeOK'
    BY <1>8 DEF Install, TypeOK, FieldsTypeOK, Snapshots
  <2>. QED
    BY <1>8, <2>1, <2>2
    DEF Install, TypeOK, ConsumptionTypeOK, RequestsTypeOK, consumptionVars
<1>9. CASE EndSettles(g) \/ EndExpires(g)
  BY <1>9, FinishEndTyped DEF EndSettles, EndExpires
<1>. QED
  BY <1>1, <1>2, <1>3, <1>4, <1>5, <1>6, <1>7, <1>8, <1>9 DEF LifecycleStep

\* Every field, consumption, request and operation keeps its type: no step
\* leaves a promise or a barrier that names a resource that does not exist.
THEOREM SessionTyped == Spec => []TypeOK
<1>1. Init => TypeOK
  BY InitTyped
<1>2. TypeOK /\ [Next]_vars => TypeOK'
  <2> SUFFICES ASSUME TypeOK, [Next]_vars PROVE TypeOK'
    OBVIOUS
  <2>1. CASE UNCHANGED vars
    BY <2>1
    DEF vars, fieldVars, consumptionVars, lifecycleVars, TypeOK, FieldsTypeOK,
        ConsumptionTypeOK, RequestsTypeOK
  <2>2. CASE Connect
    BY <2>2, ConnectTyped
  <2>3. CASE Disconnect \/ Shutdown
    BY <2>3, EndTyped DEF Disconnect, Shutdown
  <2>4. ASSUME NEW g \in Generations, LifecycleStep(g) PROVE TypeOK'
    BY <2>4, LifecycleStepTyped
  <2>5. CASE ConsumptionNext
    <3>1. ConsumptionTypeOK'
      <4>1. CASE StopConsumption
        BY <4>1, StopTyped DEF StopConsumption, StopConsumptionEffect, ConsumptionTypeOK, TypeOK
      <4>2. ASSUME NEW k \in ConsumptionIds, ConsumptionStep(k) PROVE ConsumptionTypeOK'
        BY <4>2, ConsumptionStepTyped
      <4>. QED
        BY <2>5, <4>1, <4>2 DEF ConsumptionNext
    <3>. QED
      BY <2>5, <3>1
      DEF ConsumptionNext, TypeOK, FieldsTypeOK, RequestsTypeOK, fieldVars, lifecycleVars
  <2>6. CASE RequestNext
    <3>1. RequestsTypeOK'
      BY <2>6, RequestStepTyped DEF RequestNext
    <3>. QED
      BY <2>6, <3>1
      DEF RequestNext, TypeOK, FieldsTypeOK, ConsumptionTypeOK, fieldVars, consumptionVars,
          lifecycleVars
  <2>. QED
    BY <2>1, <2>2, <2>3, <2>4, <2>5, <2>6 DEF Next
<1>. QED
  BY <1>1, <1>2, PTL DEF Spec

---------------------------------------------------------------------------
(* Ownership of connections.  The invariant is OwnershipInv: the two       *)
(* properties plus what an unsettled attempt owns.  It needs the           *)
(* assumption that no call falls into the microtask of "installing".       *)

LEMMA OwnershipInit == Init => OwnershipInv
BY DEF Init, FieldsInit, OwnershipInv, ServingIsCurrent, OpenConnectionIsOwned,
       AttemptOwnsConnection, NoOp, None, Generations

\* A new lifecycle operation revokes the serving connection and tracks it.
LEMMA OwnershipOfCall ==
    ASSUME TypeOK, OwnershipInv, ~CallsDuringInstall, CallsReachSession, ~shuttingDown,
           generation + 1 \in Generations, generation' = generation + 1,
           snapshot' \in {"connecting", "disconnecting"}, activeConnection' = None,
           CloseTracked, UNCHANGED connections,
           ops'[generation + 1].phase \in {"cleanup", "opening", "finishing"},
           \A h \in Generations \ {generation + 1} : ops'[h] = ops[h]
    PROVE  OwnershipInv'
<1> DEFINE g == generation + 1
<1>1. \A h \in Generations : ops[h].phase # "installing"
  BY DEF CallsReachSession
<1>2. /\ ops[g].phase = "none"
      /\ connections[g] = "none" /\ closures[g] = "none" /\ activeConnection # g
  BY DEF OwnershipInv, AttemptOwnsConnection, TypeOK, FieldsTypeOK
<1>3. ServingIsCurrent'
  BY DEF ServingIsCurrent
<1>4. ASSUME NEW c \in Generations
      PROVE  closures'[c] # "none" <=> (closures[c] # "none" \/ c = activeConnection)
  BY NoneIsNoGeneration DEF CloseTracked, TrackedCloses, TypeOK
<1>5. OpenConnectionIsOwned'
  BY <1>2, <1>4 DEF OwnershipInv, OpenConnectionIsOwned, TypeOK
<1>6. AttemptOwnsConnection'
  <2> SUFFICES ASSUME NEW h \in Generations
               PROVE  /\ h > g => ops'[h].phase = "none"
                      /\ ops'[h].phase \in {"none", "cleanup", "opening", "finishing"} =>
                            connections[h] = "none"
                      /\ ops'[h].phase \in {"installing", "late", "cancelled"} =>
                            connections[h] = "open"
                      /\ ops'[h].phase = "installing" => IsCurrent(h)'
                      /\ ops'[h].phase # "settled" =>
                            closures'[h] = "none" /\ activeConnection' # h
                      /\ closures'[h] # "none" => connections[h] = "open"
    BY DEF AttemptOwnsConnection
  <2>1. CASE h = g
    BY <1>2, <1>4, <2>1, NoneIsNoGeneration DEF TypeOK, OwnershipInv, ServingIsCurrent
  <2>2. CASE h # g
    BY <1>1, <1>4, <2>2, NoneIsNoGeneration
    DEF TypeOK, FieldsTypeOK, Generations, OwnershipInv, ServingIsCurrent, AttemptOwnsConnection
  <2>. QED
    BY <2>1, <2>2
<1>. QED
  BY <1>3, <1>5, <1>6 DEF OwnershipInv

\* An unsettled attempt settles without serving: its connection, if it had
\* one, was closed or its close was refused.
LEMMA OwnershipOfFailure ==
    ASSUME TypeOK, OwnershipInv, NEW g \in Generations,
           ops[g].phase \notin {"none", "settled"},
           NEW op, op.phase = "settled", ops' = [ops EXCEPT ![g] = op],
           connections' \in [Generations -> Resources], connections'[g] # "open",
           \A c \in Generations \ {g} : connections'[c] = connections[c],
           UNCHANGED <<generation, shuttingDown, activeConnection, closures>>,
           \/ UNCHANGED snapshot
           \/ generation = g /\ snapshot' \in {"failed", "disconnected"}
    PROVE  OwnershipInv'
<1>1. closures[g] = "none" /\ activeConnection # g
  BY DEF OwnershipInv, AttemptOwnsConnection
<1>2. ServingIsCurrent'
  <2>1. CASE UNCHANGED snapshot
    BY <1>1, <2>1 DEF OwnershipInv, ServingIsCurrent, TypeOK, FieldsTypeOK
  <2>2. CASE generation = g /\ snapshot' \in {"failed", "disconnected"}
    <3>1. activeConnection = None
      BY <1>1, <2>2 DEF OwnershipInv, ServingIsCurrent
    <3>. QED
      BY <2>2, <3>1 DEF ServingIsCurrent
  <2>. QED
    BY <2>1, <2>2
<1>3. OpenConnectionIsOwned'
  BY DEF OwnershipInv, OpenConnectionIsOwned, TypeOK
<1>4. AttemptOwnsConnection'
  BY <1>1 DEF OwnershipInv, AttemptOwnsConnection, TypeOK, IsCurrent, FieldsTypeOK, Generations
<1>. QED
  BY <1>2, <1>3, <1>4 DEF OwnershipInv

\* A step that leaves connections, closures and phases alone, and may only
\* publish for an unsettled newest operation, preserves ownership.
LEMMA OwnershipOfProgress ==
    ASSUME TypeOK, OwnershipInv, UNCHANGED <<fieldVars, closures>>,
           \A g \in Generations :
              \/ ops'[g].phase = ops[g].phase
              \/ ops[g].phase = "cleanup" /\ ops'[g].phase = "opening"
    PROVE  OwnershipInv'
<1>1. ServingIsCurrent' /\ OpenConnectionIsOwned'
  BY DEF OwnershipInv, ServingIsCurrent, OpenConnectionIsOwned, fieldVars
<1>2. AttemptOwnsConnection'
  BY DEF OwnershipInv, AttemptOwnsConnection, IsCurrent, fieldVars, TypeOK, FieldsTypeOK,
         Generations
<1>. QED
  BY <1>1, <1>2 DEF OwnershipInv

LEMMA OwnershipStep ==
    ASSUME TypeOK, OwnershipInv, ~CallsDuringInstall, [Next]_vars
    PROVE  OwnershipInv'
<1>1. CASE UNCHANGED vars \/ ConsumptionNext \/ RequestNext
  <2>1. UNCHANGED <<fieldVars, closures, ops>>
    BY <1>1 DEF vars, lifecycleVars, ConsumptionNext, RequestNext
  <2>. QED
    BY <2>1, OwnershipOfProgress
<1>2. CASE Connect
  <2> DEFINE op ==
        [NoOp EXCEPT !.kind = "connect",
                     !.phase = IF \/ HasConsumptionToStop
                                  \/ TrackedCloses # {}
                                  \/ Running({"latency"}) # {}
                               THEN "cleanup" ELSE "opening",
                     !.closes = TrackedCloses,
                     !.stop = StopBarrier,
                     !.reqs = Running({"latency"})]
  <2>1. op.phase \in {"cleanup", "opening", "finishing"}
    BY DEF NoOp
  <2>2. ops' = [ops EXCEPT ![generation + 1] = op]
    BY <1>2 DEF Connect
  <2>3. /\ CallsReachSession /\ ~shuttingDown /\ generation + 1 \in Generations
        /\ generation' = generation + 1 /\ activeConnection' = None
        /\ snapshot' \in {"connecting", "disconnecting"}
        /\ CloseTracked /\ UNCHANGED connections
    BY <1>2 DEF Connect
  <2>4. /\ ops'[generation + 1].phase \in {"cleanup", "opening", "finishing"}
        /\ \A h \in Generations \ {generation + 1} : ops'[h] = ops[h]
    <3>. HIDE DEF op
    <3>. QED
      BY <2>1, <2>2, <2>3 DEF TypeOK
  <2>. QED
    BY <2>3, <2>4, OwnershipOfCall
<1>3. ASSUME NEW kind \in {"disconnect", "shutdown"}, End(kind)
      PROVE  OwnershipInv'
  <2> DEFINE awaited == IF kind = "shutdown" THEN Classes ELSE SessionClasses
  <2> DEFINE op ==
        [NoOp EXCEPT !.kind = kind,
                     !.phase = "finishing",
                     !.closes = TrackedCloses,
                     !.stop = StopBarrier,
                     !.attempt = connectionAttempt,
                     !.reqs = Running(awaited)]
  <2>1. op.phase \in {"cleanup", "opening", "finishing"}
    BY DEF NoOp
  <2>2. ops' = [ops EXCEPT ![generation + 1] = op]
    BY <1>3 DEF End
  <2>3. /\ CallsReachSession /\ ~shuttingDown /\ generation + 1 \in Generations
        /\ generation' = generation + 1 /\ activeConnection' = None
        /\ snapshot' \in {"connecting", "disconnecting"}
        /\ CloseTracked /\ UNCHANGED connections
    BY <1>3 DEF End
  <2>4. /\ ops'[generation + 1].phase \in {"cleanup", "opening", "finishing"}
        /\ \A h \in Generations \ {generation + 1} : ops'[h] = ops[h]
    <3>. HIDE DEF op
    <3>. QED
      BY <2>1, <2>2, <2>3 DEF TypeOK
  <2>. QED
    BY <2>3, <2>4, OwnershipOfCall
<1>4. ASSUME NEW g \in Generations, FailAttempt(g), connections'[g] # "open",
             connections' \in [Generations -> Resources],
             ops[g].phase \in {"cleanup", "opening", "cancelled"},
             \A c \in Generations \ {g} : connections'[c] = connections[c]
      PROVE  OwnershipInv'
  <2> DEFINE op == Settled(ops[g], IF IsCurrent(g) THEN "failed" ELSE "superseded")
  <2>1. op.phase = "settled" /\ ops' = [ops EXCEPT ![g] = op]
    BY <1>4 DEF FailAttempt, SettleAttempt, Settled, NoOp, TypeOK
  <2>. HIDE DEF op
  <2>. QED
    BY <1>4, <2>1, OwnershipOfFailure DEF FailAttempt, SettleAttempt, IsCurrent
<1>5. ASSUME NEW g \in Generations, LifecycleStep(g)
      PROVE  OwnershipInv'
  <2>1. CASE CallerAborts(g)
    <3>1. \A h \in Generations : ops'[h].phase = ops[h].phase
      BY <2>1 DEF CallerAborts, TypeOK, Op
    <3>. QED
      BY <2>1, <3>1, OwnershipOfProgress DEF CallerAborts
  <2>2. ASSUME NEW failed, ops[g].phase = "cleanup", LeaveCleanup(g, failed)
        PROVE  OwnershipInv'
    <3>1. CASE FailAttempt(g) /\ UNCHANGED connections
      BY <1>4, <2>2, <3>1 DEF TypeOK, FieldsTypeOK, OwnershipInv, AttemptOwnsConnection
    <3>2. CASE ~(FailAttempt(g) /\ UNCHANGED connections)
      <4>1. /\ UNCHANGED <<fieldVars, closures>>
            /\ ops' = [ops EXCEPT ![g] = [NoOp EXCEPT !.kind = "connect", !.phase = "opening"]]
        BY <2>2, <3>2 DEF LeaveCleanup
      <4>2. [NoOp EXCEPT !.kind = "connect", !.phase = "opening"].phase = "opening"
        BY DEF NoOp
      <4>3. \A h \in Generations :
              \/ ops'[h].phase = ops[h].phase
              \/ ops[h].phase = "cleanup" /\ ops'[h].phase = "opening"
        BY <2>2, <4>1, <4>2 DEF TypeOK
      <4>. QED
        BY <4>1, <4>3, OwnershipOfProgress
    <3>. QED
      BY <3>1, <3>2
  <2>3. CASE CleanupSettles(g) \/ CleanupExpires(g)
    BY <2>2, <2>3 DEF CleanupSettles, CleanupExpires
  <2>4. CASE OpenFails(g)
    BY <1>4, <2>4
    DEF OpenFails, TypeOK, FieldsTypeOK, OwnershipInv, AttemptOwnsConnection
  <2>5. CASE OpenSucceeds(g)
    <3> DEFINE phase == IF ~IsCurrent(g) THEN "late"
                        ELSE IF ops[g].callerAborted THEN "cancelled" ELSE "installing"
    <3>1. /\ \A h \in Generations \ {g} : ops'[h] = ops[h]
          /\ ops'[g].phase = phase
      BY <2>5 DEF OpenSucceeds, TypeOK, Op
    <3>2. phase \in {"installing", "late", "cancelled"}
          /\ (phase = "installing" => IsCurrent(g))
      OBVIOUS
    <3>3. /\ connections'[g] = "open"
          /\ \A h \in Generations \ {g} : connections'[h] = connections[h]
          /\ UNCHANGED <<generation, shuttingDown, snapshot, activeConnection, closures>>
      BY <2>5 DEF OpenSucceeds, TypeOK, FieldsTypeOK
    <3>4. closures[g] = "none" /\ activeConnection # g
      BY <2>5 DEF OpenSucceeds, OwnershipInv, AttemptOwnsConnection
    <3>5. generation >= g
      BY <2>5 DEF OpenSucceeds, OwnershipInv, AttemptOwnsConnection, TypeOK, FieldsTypeOK,
                  Generations
    <3>. HIDE DEF phase
    <3>6. ServingIsCurrent'
      BY <3>3, <3>4 DEF OwnershipInv, ServingIsCurrent, TypeOK, FieldsTypeOK
    <3>7. OpenConnectionIsOwned'
      BY <3>1, <3>2, <3>3 DEF OwnershipInv, OpenConnectionIsOwned
    <3>8. AttemptOwnsConnection'
      BY <3>1, <3>2, <3>3, <3>4, <3>5
      DEF OwnershipInv, AttemptOwnsConnection, IsCurrent, TypeOK, FieldsTypeOK, Generations
    <3>. QED
      BY <3>6, <3>7, <3>8 DEF OwnershipInv
  <2>6. ASSUME NEW failed \in BOOLEAN, LateConnectionCloses(g, failed)
        PROVE  OwnershipInv'
    <3> DEFINE op == Settled(ops[g], IF failed THEN "dirty" ELSE "superseded")
    <3>1. op.phase = "settled" /\ ops' = [ops EXCEPT ![g] = op]
      BY <2>6 DEF LateConnectionCloses, SettleAttempt, Settled, NoOp, TypeOK
    <3>2. /\ connections' \in [Generations -> Resources] /\ connections'[g] # "open"
          /\ \A c \in Generations \ {g} : connections'[c] = connections[c]
      BY <2>6 DEF LateConnectionCloses, TypeOK, FieldsTypeOK, Resources
    <3>. HIDE DEF op
    <3>. QED
      BY <2>6, <3>1, <3>2, OwnershipOfFailure DEF LateConnectionCloses, SettleAttempt
  <2>7. ASSUME NEW failed \in BOOLEAN, CancelledConnectionCloses(g, failed)
        PROVE  OwnershipInv'
    <3>1. /\ connections' \in [Generations -> Resources] /\ connections'[g] # "open"
          /\ \A c \in Generations \ {g} : connections'[c] = connections[c]
      BY <2>7 DEF CancelledConnectionCloses, TypeOK, FieldsTypeOK, Resources
    <3>. QED
      BY <1>4, <2>7, <3>1 DEF CancelledConnectionCloses
  <2>8. ASSUME NEW failed \in BOOLEAN, TrackedConnectionCloses(g, failed)
        PROVE  OwnershipInv'
    <3>1. \A h \in Generations : ops'[h].phase = ops[h].phase
      <4>1. ASSUME NEW op \in Op
            PROVE  [op EXCEPT !.closes = @ \ {g}, !.closeFailed = @ \/ failed].phase = op.phase
        BY DEF Op
      <4>. QED
        BY <2>8, <4>1 DEF TrackedConnectionCloses, TypeOK
    <3>2. activeConnection # g /\ connections[g] = "open" /\ closures[g] # "none"
      <4>1. closures[g] = "pending"
        BY <2>8 DEF TrackedConnectionCloses
      <4>. QED
        BY <4>1, NoneIsNoGeneration DEF OwnershipInv, ServingIsCurrent, AttemptOwnsConnection
    <3>3. /\ UNCHANGED <<generation, shuttingDown, snapshot, activeConnection>>
          /\ \A h \in Generations \ {g} : /\ closures'[h] = closures[h]
                                          /\ connections'[h] = connections[h]
          /\ \/ closures'[g] = "none" /\ connections'[g] = "closed"
             \/ closures'[g] = "rejected" /\ connections'[g] = "open"
      BY <2>8, <3>2 DEF TrackedConnectionCloses, ClosureAfter, TypeOK, FieldsTypeOK
    <3>4. ServingIsCurrent' /\ OpenConnectionIsOwned'
      BY <3>1, <3>2, <3>3
      DEF OwnershipInv, ServingIsCurrent, OpenConnectionIsOwned, TypeOK, FieldsTypeOK
    <3>5. AttemptOwnsConnection'
      BY <3>1, <3>2, <3>3 DEF OwnershipInv, AttemptOwnsConnection, IsCurrent
    <3>. QED
      BY <3>4, <3>5 DEF OwnershipInv
  <2>9. CASE Install(g)
    <3>1. /\ IsCurrent(g) /\ connections[g] = "open" /\ closures[g] = "none"
          /\ activeConnection = None
      BY <2>9 DEF Install, OwnershipInv, AttemptOwnsConnection, ServingIsCurrent, IsCurrent
    <3>2. /\ ops'[g].phase = "settled"
          /\ \A h \in Generations \ {g} : ops'[h] = ops[h]
      BY <2>9 DEF Install, Settled, NoOp, TypeOK
    <3>3. UNCHANGED <<generation, shuttingDown, connections, closures>>
          /\ activeConnection' = g /\ snapshot' = "connected"
      BY <2>9 DEF Install
    <3>4. ServingIsCurrent' /\ OpenConnectionIsOwned'
      BY <3>1, <3>2, <3>3, NoneIsNoGeneration
      DEF OwnershipInv, ServingIsCurrent, OpenConnectionIsOwned, IsCurrent
    <3>5. AttemptOwnsConnection'
      BY <3>1, <3>2, <3>3
      DEF OwnershipInv, AttemptOwnsConnection, IsCurrent, TypeOK, FieldsTypeOK, Generations
    <3>. QED
      BY <3>4, <3>5 DEF OwnershipInv
  <2>10. ASSUME NEW failed, ops[g].phase = "finishing", FinishEnd(g, failed)
         PROVE  OwnershipInv'
    <3> DEFINE op == Settled(ops[g], IF failed THEN "failed" ELSE "ok")
    <3>1. op.phase = "settled" /\ ops' = [ops EXCEPT ![g] = op]
      BY <2>10 DEF FinishEnd, Settled, NoOp, TypeOK
    <3>2. connections[g] = "none"
      BY <2>10 DEF OwnershipInv, AttemptOwnsConnection
    <3>. HIDE DEF op
    <3>. QED
      BY <2>10, <3>1, <3>2, OwnershipOfFailure DEF FinishEnd, TypeOK, FieldsTypeOK
  <2>11. CASE EndSettles(g) \/ EndExpires(g)
    BY <2>10, <2>11 DEF EndSettles, EndExpires
  <2>. QED
    BY <1>5, <2>1, <2>3, <2>4, <2>5, <2>6, <2>7, <2>8, <2>9, <2>11 DEF LifecycleStep
<1>. QED
  BY <1>1, <1>2, <1>3, <1>5 DEF Next, Disconnect, Shutdown

\* The invariant holds in every behaviour.
THEOREM OwnershipInvariant ==
    ASSUME ~CallsDuringInstall
    PROVE  Spec => []OwnershipInv
<1>1. Init => OwnershipInv
  BY OwnershipInit
<1>2. TypeOK /\ OwnershipInv /\ [Next]_vars => OwnershipInv'
  BY OwnershipStep
<1>. QED
  BY <1>1, <1>2, SessionTyped, PTL DEF Spec

\* A serving connection is always the newest operation's, open, and not being
\* closed (writeContext and every fence of session.ts rely on it).
THEOREM ServingStaysCurrent ==
    ASSUME ~CallsDuringInstall
    PROVE  Spec => []ServingIsCurrent
<1>1. OwnershipInv => ServingIsCurrent
  BY DEF OwnershipInv
<1>. QED
  BY <1>1, OwnershipInvariant, PTL

\* No interleaving of connects, disconnects, aborts and closes leaves an open
\* connection that nothing will close.
THEOREM NoConnectionIsForgotten ==
    ASSUME ~CallsDuringInstall
    PROVE  Spec => []OpenConnectionIsOwned
<1>1. OwnershipInv => OpenConnectionIsOwned
  BY DEF OwnershipInv
<1>. QED
  BY <1>1, OwnershipInvariant, PTL

\* The two together: whatever calls overlap, the session knows the one
\* connection it may lend, and every other open one has somebody to close it.
THEOREM ConnectionsStayOwned ==
    ASSUME ~CallsDuringInstall
    PROVE  Spec => []ConnectionsAreOwned
<1>1. OwnershipInv => ConnectionsAreOwned
  BY DEF OwnershipInv, ConnectionsAreOwned
<1>. QED
  BY <1>1, OwnershipInvariant, PTL

---------------------------------------------------------------------------
(* The session implements the lease.                                       *)

LEMMA LifecycleStepImplements ==
    ASSUME TypeOK, OwnershipInv, NEW g \in Generations, LifecycleStep(g)
    PROVE  Lease!Grant \/ UNCHANGED <<generation, activeConnection, shuttingDown>>
<1>1. CASE Install(g)
  <2>1. activeConnection = None /\ generation = g /\ ~shuttingDown
    BY <1>1 DEF Install, OwnershipInv, AttemptOwnsConnection, ServingIsCurrent, IsCurrent
  <2>. QED
    BY <1>1, <2>1 DEF Install, Lease!Grant, None, Generations
<1>2. CASE ~Install(g)
  <2>1. CASE CleanupSettles(g) \/ CleanupExpires(g) \/ OpenFails(g)
    BY <2>1
    DEF CleanupSettles, CleanupExpires, LeaveCleanup, OpenFails, FailAttempt, SettleAttempt,
        fieldVars
  <2>2. CASE EndSettles(g) \/ EndExpires(g)
    BY <2>2 DEF EndSettles, EndExpires, FinishEnd
  <2>3. CASE OpenSucceeds(g) \/ CallerAborts(g)
    BY <2>3 DEF OpenSucceeds, CallerAborts, fieldVars
  <2>4. ASSUME NEW failed \in BOOLEAN,
               \/ LateConnectionCloses(g, failed)
               \/ CancelledConnectionCloses(g, failed)
               \/ TrackedConnectionCloses(g, failed)
        PROVE  UNCHANGED <<generation, activeConnection, shuttingDown>>
    BY <2>4
    DEF LateConnectionCloses, CancelledConnectionCloses, TrackedConnectionCloses, FailAttempt,
        SettleAttempt
  <2>. QED
    BY <1>2, <2>1, <2>2, <2>3, <2>4 DEF LifecycleStep
<1>. QED
  BY <1>1, <1>2

\* Connect, disconnect and shutdown revoke the lease the moment they are
\* called; only the newest attempt grants it, once; after shutdown nobody does.
THEOREM SessionImplementsLease ==
    ASSUME ~CallsDuringInstall
    PROVE  Spec => ImplementsLease
<1>1. Init => Lease!LeaseInit
  BY DEF Init, FieldsInit, Lease!LeaseInit, None
<1>2. TypeOK /\ OwnershipInv /\ [Next]_vars => [Lease!LeaseNext]_Lease!leaseVars
  <2> SUFFICES ASSUME TypeOK, OwnershipInv, [Next]_vars
               PROVE  Lease!LeaseNext \/ UNCHANGED <<generation, activeConnection, shuttingDown>>
    BY DEF Lease!leaseVars
  <2>1. CASE UNCHANGED vars \/ ConsumptionNext \/ RequestNext
    BY <2>1 DEF vars, fieldVars, ConsumptionNext, RequestNext
  <2>2. CASE Connect
    BY <2>2 DEF Connect, Lease!LeaseNext, Lease!Revoke, TypeOK, FieldsTypeOK, None
  <2>3. ASSUME NEW kind, End(kind) PROVE Lease!LeaseNext
    <3>1. shuttingDown' \in BOOLEAN
      BY <2>3 DEF End
    <3>. QED
      BY <2>3, <3>1 DEF End, Lease!LeaseNext, Lease!Revoke, None
  <2>4. ASSUME NEW g \in Generations, LifecycleStep(g)
        PROVE  Lease!LeaseNext \/ UNCHANGED <<generation, activeConnection, shuttingDown>>
    BY <2>4, LifecycleStepImplements DEF Lease!LeaseNext
  <2>. QED
    BY <2>1, <2>2, <2>3, <2>4 DEF Next, Disconnect, Shutdown
<1>. QED
  BY <1>1, <1>2, SessionTyped, OwnershipInvariant, PTL DEF Spec, ImplementsLease, Lease!LeaseSpec

---------------------------------------------------------------------------
(* The stop barrier.  The invariant BarrierInv says what a consumption may *)
(* be doing, which stops the barrier stands for, and why a stop fails.     *)

IsPending(k) == consumptions[k].stop = "pending"
IsWorking(k) == consumptions[k].phase \notin {"unused", "done"}
IsReleased(k) == consumptions[k].phase = "done" /\ ~Unconfirmed(k)

\* What the barrier has to answer for.
IsLeft(k) == IsPending(k) \/ Unconfirmed(k)

\* The stop of b, a later consumption of the same connection, covers k.
Holds(b, k) ==
    /\ b # None /\ k <= b
    /\ consumptions[b].stop \in {"pending", "failed"}
    /\ consumptions[k].connection = consumptions[b].connection
    /\ IsPending(k) => IsPending(b)

\* Consumptions are used in order.
InOrder ==
    \A k \in ConsumptionIds :
        /\ consumptions[k].phase = "unused" => consumptions[k] = NoConsumption
        /\ consumptions[k].phase # "unused" =>
              \A j \in 1 .. k - 1 : consumptions[j].phase # "unused"

\* The consumer is the newest consumption and borrows the serving connection;
\* it waits behind the barrier it found, or there is no barrier.
ConsumerIsCurrent ==
    consumer # None =>
        /\ IsCurrentConsumption(consumer)
        /\ consumptions[consumer].phase \in {"waiting", "opening", "streaming", "closing"}
        /\ consumptions[consumer].stop = "none"
        /\ consumptionStop \in {None, consumptions[consumer].after}
        /\ consumptions[consumer].phase # "waiting" => consumptionStop = None
        /\ \A j \in ConsumptionIds : j > consumer => consumptions[j].phase = "unused"

\* Whatever works and is not the consumer has been stopped; only a stopped or
\* failed one leaves a residue; whatever is past waiting found all released.
WorkIsStopped ==
    \A k \in ConsumptionIds :
        /\ IsWorking(k) /\ k # consumer => IsPending(k)
        /\ consumptions[k].phase = "streaming" => k = consumer
        /\ consumptions[k].residue # "none" =>
              consumptions[k].phase = "done" /\ consumptions[k].stop \in {"pending", "failed"}
        /\ consumptions[k].stop \in {"ok", "failed"} => consumptions[k].phase = "done"
        /\ consumptions[k].stop = "none" =>
              consumptions[k].covered /\ consumptions[k].previous = None
        /\ IsWorking(k) /\ consumptions[k].phase # "waiting" =>
              \A j \in 1 .. k - 1 : IsReleased(j)

\* The barrier stands for a stop that is pending or failed, and holds
\* everything that is left.
BarrierHolds ==
    /\ consumptionStop # None => consumptions[consumptionStop].stop \in {"pending", "failed"}
    /\ \A k \in ConsumptionIds : IsLeft(k) => Holds(consumptionStop, k)

\* A pending stop awaits the stop that holds everything left before it.
Follows(k, p) ==
    /\ p < k /\ consumptions[p].stop # "none"
    /\ consumptions[p].connection = consumptions[k].connection
    /\ consumptions[k].covered = consumptions[p].covered
    /\ consumptions[k].phase \in {"waiting", "done"} /\ consumptions[k].residue = "none"

Leads(k) ==
    /\ consumptions[k].phase \in {"waiting", "closing"} \/ consumptions[k].residue = "stream"
          => consumptions[k].covered
    /\ consumptions[k].phase \in {"opening", "late"} \/ consumptions[k].residue = "late"
          => ~consumptions[k].covered

ChainHolds ==
    \A k \in ConsumptionIds :
        IsPending(k) =>
            LET p == consumptions[k].previous
            IN  /\ IF p = None THEN Leads(k) ELSE Follows(k, p)
                /\ \A j \in 1 .. k - 1 : IsLeft(j) => Holds(p, j)

\* A stop fails for a residue that its connection covers, or for a late one.
HasCause(p) ==
    IF consumptions[p].covered
    THEN \E j \in ConsumptionIds : /\ consumptions[j].residue = "stream"
                                   /\ consumptions[j].connection = consumptions[p].connection
    ELSE \E j \in ConsumptionIds : consumptions[j].residue = "late"

FailureHasCause ==
    \A p \in ConsumptionIds : consumptions[p].stop = "failed" => HasCause(p)

IsLate(j) ==
    \/ consumptions[j].residue = "late"
    \/ IsPending(j) /\ consumptions[j].phase \in {"opening", "late"}

\* No close of a connection lifts a barrier that holds a late stream.
LateIsUncovered ==
    \A j \in ConsumptionIds :
        IsLate(j) => consumptionStop # None /\ ~consumptions[consumptionStop].covered

\* A covered barrier goes with its connection.
ClosedIsReleased ==
    StopFailed(consumptionStop) /\ consumptions[consumptionStop].covered =>
        connections[consumptions[consumptionStop].connection] # "closed"

StreamInv ==
    /\ InOrder /\ ConsumerIsCurrent /\ WorkIsStopped /\ BarrierHolds
    /\ ChainHolds /\ FailureHasCause /\ LateIsUncovered /\ ClosedIsReleased

\* A consumption borrows a connection whose attempt has settled.
UsedIsSettled ==
    \A k \in ConsumptionIds :
        consumptions[k].phase # "unused" =>
            /\ consumptions[k].connection \in Generations
            /\ ops[consumptions[k].connection].phase = "settled"

\* A barrier beside a serving connection stands for streams of that connection.
BarrierServes ==
    activeConnection # None /\ consumptionStop # None =>
        consumptions[consumptionStop].connection = activeConnection

\* The newest operation opens only past the barrier, and ends only with it.
NewestWaits ==
    \A g \in Generations : g = generation =>
        /\ ops[g].phase \in {"cleanup", "finishing"} => consumptionStop \in {None, ops[g].stop}
        /\ ops[g].phase \in {"opening", "installing", "late", "cancelled"} =>
              consumptionStop = None
        /\ ops[g].phase = "finishing" =>
              /\ \A h \in Generations :
                    closures[h] # "none" => h \in ops[g].closes \/ ops[g].closeFailed
              /\ Running(SessionClasses) \subseteq ops[g].reqs

BarrierInv == StreamInv /\ UsedIsSettled /\ BarrierServes /\ NewestWaits

\* A consumption that moves on without touching the stops.  It was working;
\* it stays the consumer unless it is done, and what it leaves behind is held
\* already.
LEMMA StreamMoves ==
    ASSUME TypeOK, ConsumptionTypeOK', StreamInv, UNCHANGED <<fieldVars, consumptionStop>>,
           NEW k \in ConsumptionIds, NEW c, NEW d,
           c = consumptions[k], d = consumptions'[k], IsWorking(k),
           \A j \in ConsumptionIds \ {k} : consumptions'[j] = consumptions[j],
           d.phase \notin {"unused", "waiting"},
           d.stop = c.stop, d.previous = c.previous, d.covered = c.covered,
           d.connection = c.connection, d.generation = c.generation,
           consumer' = IF d.phase = "done" THEN Drop(k) ELSE consumer,
           consumer = k /\ d.phase # "done" =>
              d.phase \in {"opening", "streaming", "closing"} /\ consumptionStop = None,
           d.phase = "streaming" => consumer = k,
           d.phase # "done" => \A j \in 1 .. k - 1 : IsReleased(j),
           d.residue # "none" => d.phase = "done" /\ c.stop = "pending",
           c.stop = "pending" =>
              \/ d.phase = "done" /\ d.residue = "none"
              \/ c.phase = "closing" /\ d.phase = "done" /\ d.residue = "stream"
              \/ c.phase \in {"opening", "late"} /\ d.phase = "done" /\ d.residue = "late"
              \/ c.phase \in {"opening", "late"} /\ d.phase = "late" /\ d.residue = "none"
    PROVE  StreamInv'
<1>1. c.residue = "none" /\ c.phase \notin {"unused", "done"}
  BY DEF StreamInv, WorkIsStopped, IsWorking
<1>2. \A j \in ConsumptionIds :
         /\ consumptions'[j].stop = consumptions[j].stop
         /\ consumptions'[j].previous = consumptions[j].previous
         /\ consumptions'[j].covered = consumptions[j].covered
         /\ consumptions'[j].connection = consumptions[j].connection
         /\ consumptions'[j].generation = consumptions[j].generation
  OBVIOUS
<1>3. \A j \in ConsumptionIds : IsPending(j)' = IsPending(j)
  BY <1>2 DEF IsPending
<1>4. \A j \in ConsumptionIds : IsLeft(j)' => IsLeft(j)
  BY <1>2, <1>3 DEF IsLeft, Unconfirmed, ConnectionOf, IsPending, fieldVars
<1>5. \A b \in ConsumptionIds \cup {None}, j \in ConsumptionIds : Holds(b, j) => Holds(b, j)'
  BY <1>2, <1>3 DEF Holds
<1>6. \A j \in ConsumptionIds : consumptions'[j].phase = "unused" <=> consumptions[j].phase = "unused"
  BY <1>1
<1>7. InOrder'
  <2>1. \A j \in ConsumptionIds : \A i \in 1 .. j - 1 : i \in ConsumptionIds
    BY BoundsAssumption DEF ConsumptionIds
  <2>. QED
    BY <1>1, <1>6, <2>1 DEF StreamInv, InOrder
<1>8. consumer' \in {consumer, None} /\ (consumer' = None => consumer \in {None, k})
  BY DEF Drop
<1>9. ConsumerIsCurrent'
  <2> SUFFICES ASSUME consumer' # None PROVE ConsumerIsCurrent'
    BY DEF ConsumerIsCurrent
  <2>1. consumer \in ConsumptionIds /\ consumer' = consumer
    BY <1>8 DEF TypeOK, ConsumptionTypeOK
  <2>2. IsCurrentConsumption(consumer)'
    BY <1>2, <2>1
    DEF StreamInv, ConsumerIsCurrent, IsCurrentConsumption, IsCurrentConnection, fieldVars
  <2>3. CASE consumer = k
    <3>1. d.phase # "done"
      BY <2>1, <2>3, NoneIsNoGeneration DEF Drop
    <3>. QED
      BY <1>2, <1>6, <2>1, <2>2, <2>3, <3>1 DEF StreamInv, ConsumerIsCurrent
  <2>4. CASE consumer # k
    BY <1>2, <1>6, <2>1, <2>2, <2>4 DEF StreamInv, ConsumerIsCurrent
  <2>. QED
    BY <2>3, <2>4
<1>10. WorkIsStopped'
  <2> SUFFICES ASSUME NEW m \in ConsumptionIds
      PROVE
        /\ IsWorking(m)' /\ m # consumer' => IsPending(m)'
        /\ consumptions'[m].phase = "streaming" => m = consumer'
        /\ consumptions'[m].residue # "none" =>
              consumptions'[m].phase = "done" /\ consumptions'[m].stop \in {"pending", "failed"}
        /\ consumptions'[m].stop \in {"ok", "failed"} => consumptions'[m].phase = "done"
        /\ consumptions'[m].stop = "none" =>
              consumptions'[m].covered /\ consumptions'[m].previous = None
        /\ IsWorking(m)' /\ consumptions'[m].phase # "waiting" =>
              \A j \in 1 .. m - 1 : IsReleased(j)'
    BY DEF WorkIsStopped
  <2>0. \A j \in 1 .. m - 1 : j \in ConsumptionIds
    BY BoundsAssumption DEF ConsumptionIds
  <2>1. \A j \in ConsumptionIds : IsReleased(j) => IsReleased(j)'
    BY <1>1, <1>2 DEF IsReleased, Unconfirmed, ConnectionOf, fieldVars
  <2>2. CASE m = k
    BY <1>1, <1>2, <1>3, <1>8, <2>0, <2>1, <2>2 DEF StreamInv, WorkIsStopped, IsWorking, Drop
  <2>3. CASE m # k
    BY <1>1, <1>2, <1>3, <1>8, <2>0, <2>1, <2>3 DEF StreamInv, WorkIsStopped, IsWorking, Drop
  <2>. QED
    BY <2>2, <2>3
<1>11. BarrierHolds'
  BY <1>2, <1>4, <1>5 DEF StreamInv, BarrierHolds, TypeOK, ConsumptionTypeOK
<1>12. ChainHolds'
  <2> SUFFICES ASSUME NEW m \in ConsumptionIds, IsPending(m)'
      PROVE  /\ IF consumptions'[m].previous = None THEN Leads(m)'
                ELSE Follows(m, consumptions[m].previous)'
             /\ \A j \in 1 .. m - 1 : IsLeft(j)' => Holds(consumptions[m].previous, j)'
    BY <1>2 DEF ChainHolds
  <2> DEFINE p == consumptions[m].previous
  <2>0. /\ \A j \in 1 .. m - 1 : j \in ConsumptionIds
        /\ p \in ConsumptionIds \cup {None}
    BY BoundsAssumption DEF ConsumptionIds, TypeOK, ConsumptionTypeOK, Consumption
  <2>1. /\ IF p = None THEN Leads(m) ELSE Follows(m, p)
        /\ \A j \in 1 .. m - 1 : IsLeft(j) => Holds(p, j)
    BY <1>3 DEF StreamInv, ChainHolds
  <2>2. ASSUME p = None PROVE Leads(m)'
    BY <1>1, <1>2, <1>3, <2>1, <2>2 DEF Leads, IsPending
  <2>3. ASSUME p # None PROVE Follows(m, p)'
    BY <1>1, <1>2, <1>3, <2>0, <2>1, <2>3 DEF Follows, IsPending
  <2>. QED
    BY <1>2, <1>4, <1>5, <2>0, <2>1, <2>2, <2>3
<1>13. FailureHasCause'
  BY <1>1, <1>2 DEF StreamInv, FailureHasCause, HasCause
<1>14. LateIsUncovered'
  <2>1. \A j \in ConsumptionIds : IsLate(j)' => IsLate(j)
    BY <1>1, <1>3 DEF IsLate, IsPending
  <2>. QED
    BY <1>2, <2>1 DEF StreamInv, LateIsUncovered, TypeOK, ConsumptionTypeOK
<1>15. ClosedIsReleased'
  BY <1>2 DEF StreamInv, ClosedIsReleased, StopFailed, fieldVars, TypeOK, ConsumptionTypeOK
<1>. QED
  BY <1>7, <1>9, <1>10, <1>11, <1>12, <1>13, <1>14, <1>15 DEF StreamInv

\* Without a barrier every stream but the consumer's is released.
LEMMA NothingIsLeft ==
    ASSUME TypeOK, StreamInv, consumptionStop = None
    PROVE  \A j \in ConsumptionIds :
              /\ ~IsLeft(j)
              /\ consumptions[j].phase # "unused" /\ j # consumer => IsReleased(j)
BY DEF StreamInv, BarrierHolds, Holds, WorkIsStopped, IsWorking, IsLeft, IsReleased

\* The steps of openConsumption and pumpConsumption that leave the barrier.
LEMMA StreamMovesStep ==
    ASSUME TypeOK, StreamInv, NEW k \in ConsumptionIds, UNCHANGED fieldVars, ConsumptionTypeOK',
           \/ BeginOpen(k) \/ RejectBehindStop(k) \/ StreamOpens(k) \/ PumpEnds(k)
           \/ \E failed \in BOOLEAN :
                 \/ StreamOpenFails(k, failed) \/ LateStreamCloses(k, failed)
                 \/ StreamCloses(k, failed) /\ ~(failed /\ IsCurrentConsumption(k))
    PROVE  StreamInv'
<1> DEFINE c == consumptions[k]
           d == consumptions'[k]
<1>1. c \in Consumption /\ 1 .. k - 1 \subseteq ConsumptionIds
  BY BoundsAssumption DEF TypeOK, ConsumptionTypeOK, ConsumptionIds
<1>2. IsCurrentConsumption(k) <=> consumer = k
  BY NoneIsNoGeneration DEF StreamInv, ConsumerIsCurrent, IsCurrentConsumption
<1>3. consumer # k /\ IsWorking(k) => c.stop = "pending"
  BY DEF StreamInv, WorkIsStopped, IsPending
<1>4. consumer = k => c.stop = "none"
  BY NoneIsNoGeneration DEF StreamInv, ConsumerIsCurrent
<1>5. ASSUME NEW residue \in Residues, Finish(k, residue)
      PROVE  /\ \A j \in ConsumptionIds \ {k} : consumptions'[j] = consumptions[j]
             /\ consumer' = Drop(k) /\ consumptionStop' = consumptionStop
             /\ d.phase = "done" /\ d.residue = residue
             /\ d.stop = c.stop /\ d.previous = c.previous /\ d.covered = c.covered
             /\ d.connection = c.connection /\ d.generation = c.generation
  BY <1>1, <1>5 DEF Finish, TypeOK, ConsumptionTypeOK, Consumption
<1>6. CASE BeginOpen(k)
  <2>1. CASE IsCurrentConsumption(k)
    <3>1. /\ consumptions' = [consumptions EXCEPT ![k] = [@ EXCEPT !.phase = "opening", !.after = None]]
          /\ UNCHANGED <<consumer, consumptionStop>> /\ c.phase = "waiting"
      BY <1>6, <2>1 DEF BeginOpen
    <3>2. /\ \A j \in ConsumptionIds \ {k} : consumptions'[j] = consumptions[j]
          /\ d.phase = "opening" /\ d.residue = c.residue
          /\ d.stop = c.stop /\ d.previous = c.previous /\ d.covered = c.covered
          /\ d.connection = c.connection /\ d.generation = c.generation
      BY <1>1, <3>1 DEF TypeOK, ConsumptionTypeOK, Consumption
    <3>3. consumptionStop = None
      BY <1>2, <1>6, <2>1, NoneIsNoGeneration
      DEF BeginOpen, PreviousStopIsOver, StreamInv, BarrierHolds, ConsumerIsCurrent
    <3>4. \A j \in 1 .. k - 1 : IsReleased(j)
      BY <1>1, <1>2, <2>1, <3>1, <3>3, NothingIsLeft
      DEF StreamInv, InOrder, ConsumptionIds
    <3>5. c.residue = "none" /\ IsWorking(k)
      BY <3>1 DEF StreamInv, WorkIsStopped, IsWorking
    <3>6. c = consumptions[k] /\ d = consumptions'[k]
      OBVIOUS
    <3> HIDE DEF c, d
    <3>7. c.stop = "none" /\ consumer = k /\ consumer' = consumer /\ UNCHANGED consumptionStop
      BY <1>2, <1>4, <2>1, <3>1, Zenon
    <3>. QED
      BY <3>2, <3>3, <3>4, <3>5, <3>6, <3>7, StreamMoves
  <2>2. CASE ~IsCurrentConsumption(k)
    <3>1. Finish(k, "none") /\ IsWorking(k)
      BY <1>6, <2>2 DEF BeginOpen, IsWorking
    <3>. QED
      BY <1>5, <3>1, StreamMoves DEF Residues
  <2>. QED
    BY <2>1, <2>2
<1>7. CASE RejectBehindStop(k)
  <2>1. Finish(k, "none") /\ IsWorking(k)
    BY <1>7 DEF RejectBehindStop, IsWorking
  <2>. QED
    BY <1>5, <2>1, StreamMoves DEF Residues
<1>8. CASE StreamOpens(k)
  <2>1. /\ \A j \in ConsumptionIds \ {k} : consumptions'[j] = consumptions[j]
        /\ d.phase = IF consumer = k THEN "streaming" ELSE "late"
        /\ d.residue = c.residue /\ c.phase = "opening"
        /\ d.stop = c.stop /\ d.previous = c.previous /\ d.covered = c.covered
        /\ d.connection = c.connection /\ d.generation = c.generation
        /\ UNCHANGED <<consumer, consumptionStop>>
    BY <1>1, <1>2, <1>8 DEF StreamOpens, TypeOK, ConsumptionTypeOK, Consumption
  <2>2. IsWorking(k) /\ c.residue = "none" /\ \A j \in 1 .. k - 1 : IsReleased(j)
    BY <2>1 DEF StreamInv, WorkIsStopped, IsWorking
  <2>3. consumer = k => consumptionStop = None
    BY <2>1, NoneIsNoGeneration DEF StreamInv, ConsumerIsCurrent
  <2>. QED
    BY <1>3, <1>4, <2>1, <2>2, <2>3, StreamMoves
<1>9. CASE PumpEnds(k)
  <2>1. /\ \A j \in ConsumptionIds \ {k} : consumptions'[j] = consumptions[j]
        /\ d.phase = "closing" /\ d.residue = c.residue /\ c.phase = "streaming"
        /\ d.stop = c.stop /\ d.previous = c.previous /\ d.covered = c.covered
        /\ d.connection = c.connection /\ d.generation = c.generation
        /\ UNCHANGED <<consumer, consumptionStop>>
    BY <1>1, <1>9 DEF PumpEnds, TypeOK, ConsumptionTypeOK, Consumption
  <2>2. /\ IsWorking(k) /\ c.residue = "none" /\ consumer = k
        /\ \A j \in 1 .. k - 1 : IsReleased(j)
    BY <2>1 DEF StreamInv, WorkIsStopped, IsWorking
  <2>3. consumptionStop = None
    BY <2>1, <2>2, NoneIsNoGeneration DEF StreamInv, ConsumerIsCurrent
  <2>. QED
    BY <1>4, <2>1, <2>2, <2>3, StreamMoves
<1>10. ASSUME NEW failed \in BOOLEAN, StreamOpenFails(k, failed)
       PROVE  StreamInv'
  <2> DEFINE residue == IF failed /\ ~IsCurrentConsumption(k) THEN "late" ELSE "none"
  <2>1. Finish(k, residue) /\ residue \in Residues /\ c.phase = "opening" /\ IsWorking(k)
    BY <1>10 DEF StreamOpenFails, Residues, IsWorking
  <2>2. residue = "none" \/ (residue = "late" /\ consumer # k)
    BY <1>2
  <2>. HIDE DEF residue
  <2>. QED
    BY <1>3, <1>5, <2>1, <2>2, StreamMoves
<1>11. ASSUME NEW failed \in BOOLEAN, LateStreamCloses(k, failed)
       PROVE  StreamInv'
  <2> DEFINE residue == IF failed THEN "late" ELSE "none"
  <2>1. Finish(k, residue) /\ residue \in Residues /\ c.phase = "late" /\ IsWorking(k)
    BY <1>11 DEF LateStreamCloses, Residues, IsWorking
  <2>2. consumer # k /\ residue \in {"none", "late"}
    BY <2>1, NoneIsNoGeneration DEF StreamInv, ConsumerIsCurrent
  <2>. HIDE DEF residue
  <2>. QED
    BY <1>3, <1>5, <2>1, <2>2, StreamMoves
<1>12. ASSUME NEW failed \in BOOLEAN, StreamCloses(k, failed),
              ~(failed /\ IsCurrentConsumption(k))
       PROVE  StreamInv'
  <2> DEFINE residue == IF failed THEN "stream" ELSE "none"
  <2>1. /\ consumptions' = [consumptions EXCEPT
              ![k] = [@ EXCEPT !.phase = "done", !.residue = residue]]
        /\ c.phase = "closing" /\ IsWorking(k)
        /\ consumer' = Drop(k) /\ UNCHANGED consumptionStop
    BY <1>2, <1>12 DEF StreamCloses, IsWorking, Drop
  <2>2. residue = "none" \/ (residue = "stream" /\ consumer # k)
    BY <1>2, <1>12
  <2>. HIDE DEF residue
  <2>3. /\ \A j \in ConsumptionIds \ {k} : consumptions'[j] = consumptions[j]
        /\ d.phase = "done" /\ d.residue = residue
        /\ d.stop = c.stop /\ d.previous = c.previous /\ d.covered = c.covered
        /\ d.connection = c.connection /\ d.generation = c.generation
    BY <1>1, <2>1 DEF TypeOK, ConsumptionTypeOK, Consumption
  <2>. QED
    BY <1>3, <2>1, <2>2, <2>3, StreamMoves
<1>. QED
  BY <1>6, <1>7, <1>8, <1>9, <1>10, <1>11, <1>12

\* A refused close of the stream that is consumed becomes the barrier: at
\* that moment nothing else is left.
LEMMA RefusedCloseStep ==
    ASSUME TypeOK, OwnershipInv, StreamInv, NEW k \in ConsumptionIds, UNCHANGED fieldVars,
           ConsumptionTypeOK', StreamCloses(k, TRUE), IsCurrentConsumption(k)
    PROVE  StreamInv' /\ consumptions'[k].connection = activeConnection
<1> DEFINE c == consumptions[k]
           d == consumptions'[k]
<1>1. /\ c \in Consumption
      /\ \A j \in ConsumptionIds : 1 .. j - 1 \subseteq ConsumptionIds
  BY BoundsAssumption DEF TypeOK, ConsumptionTypeOK, ConsumptionIds
<1>2. /\ consumer = k /\ c.phase = "closing" /\ c.stop = "none" /\ c.connection = activeConnection
      /\ activeConnection # None /\ consumptionStop = None /\ c.covered /\ c.previous = None
      /\ \A j \in ConsumptionIds : j > k => consumptions[j].phase = "unused"
  BY NoneIsNoGeneration
  DEF StreamInv, ConsumerIsCurrent, StreamCloses, IsCurrentConsumption, IsCurrentConnection,
      WorkIsStopped, OwnershipInv, ServingIsCurrent
<1>3. /\ consumer' = None /\ consumptionStop' = k
      /\ \A j \in ConsumptionIds \ {k} : consumptions'[j] = consumptions[j]
      /\ d.phase = "done" /\ d.residue = "stream" /\ d.stop = "failed"
      /\ d.previous = None /\ d.covered /\ d.connection = activeConnection
  <2>1. /\ consumer' = None /\ consumptionStop' = k
        /\ consumptions' = [consumptions EXCEPT
              ![k] = [@ EXCEPT !.phase = "done", !.residue = "stream", !.stop = "failed"]]
    BY DEF StreamCloses
  <2>. QED
    BY <1>1, <1>2, <2>1 DEF TypeOK, ConsumptionTypeOK, Consumption
<1>4. \A j \in ConsumptionIds \ {k} :
         /\ ~IsLeft(j) /\ ~IsWorking(j)
         /\ consumptions[j].residue # "late" /\ consumptions[j].stop # "pending"
  BY <1>2, NothingIsLeft
  DEF IsWorking, IsReleased, IsLeft, IsPending, Unconfirmed, StreamInv, WorkIsStopped
<1>5. \A j \in ConsumptionIds \ {k} : ~IsLeft(j)' /\ ~IsWorking(j)' /\ ~IsPending(j)'
  BY <1>3, <1>4 DEF IsLeft, IsPending, IsWorking, Unconfirmed, ConnectionOf, fieldVars
<1>6. ~IsPending(k)' /\ ~IsWorking(k)'
  BY <1>3 DEF IsPending, IsWorking
<1>7. InOrder' /\ ConsumerIsCurrent'
  BY <1>1, <1>2, <1>3 DEF StreamInv, InOrder, ConsumerIsCurrent
<1>8. WorkIsStopped'
  BY <1>2, <1>3, <1>5, <1>6 DEF StreamInv, WorkIsStopped
<1>9. BarrierHolds' /\ ChainHolds'
  <2>1. Holds(k, k)'
    BY <1>3, <1>6, NoneIsNoGeneration DEF Holds, ConsumptionIds
  <2>. QED
    BY <1>3, <1>5, <1>6, <2>1 DEF BarrierHolds, ChainHolds
<1>10. FailureHasCause'
  <2>1. ASSUME NEW p \in ConsumptionIds \ {k}, consumptions'[p].stop = "failed" PROVE HasCause(p)'
    <3>1. HasCause(p)
      BY <1>3, <2>1 DEF StreamInv, FailureHasCause
    <3>2. c.residue = "none"
      BY <1>2 DEF StreamInv, WorkIsStopped
    <3>. QED
      BY <1>3, <2>1, <3>1, <3>2 DEF HasCause
  <2>2. HasCause(k)'
    BY <1>3 DEF HasCause
  <2>. QED
    BY <2>1, <2>2 DEF FailureHasCause
<1>11. LateIsUncovered'
  BY <1>3, <1>4 DEF LateIsUncovered, IsLate, IsPending
<1>12. ClosedIsReleased'
  BY <1>2, <1>3 DEF ClosedIsReleased, OwnershipInv, ServingIsCurrent, fieldVars
<1>. QED
  BY <1>3, <1>7, <1>8, <1>9, <1>10, <1>11, <1>12 DEF StreamInv

\* completeConsumptionStop.  A stop that resolves had nothing left behind it;
\* one that rejects beside its closed connection leaves nothing unconfirmed.
LEMMA StopSettlesStep ==
    ASSUME TypeOK, StreamInv, NEW k \in ConsumptionIds, UNCHANGED fieldVars,
           ConsumptionTypeOK', StopSettles(k)
    PROVE  StreamInv'
<1> DEFINE c == consumptions[k]
           d == consumptions'[k]
           p == c.previous
           lifted == ~StopFails(k) \/ (c.covered /\ connections[c.connection] = "closed")
<1>1. /\ c \in Consumption /\ p \in ConsumptionIds \cup {None}
      /\ \A j \in ConsumptionIds : 1 .. j - 1 \subseteq ConsumptionIds
  BY BoundsAssumption DEF TypeOK, ConsumptionTypeOK, ConsumptionIds, Consumption
<1>2. /\ c.phase = "done" /\ IsPending(k) /\ ~StopPending(p)
      /\ consumer' = consumer
      /\ consumptionStop' = IF consumptionStop = k /\ lifted THEN None ELSE consumptionStop
      /\ \A j \in ConsumptionIds \ {k} : consumptions'[j] = consumptions[j]
      /\ d.stop = (IF StopFails(k) THEN "failed" ELSE "ok") /\ d.previous = None
      /\ d.phase = "done" /\ d.residue = c.residue /\ d.after = c.after
      /\ d.covered = c.covered /\ d.connection = c.connection
  BY <1>1 DEF StopSettles, IsPending, TypeOK, ConsumptionTypeOK, Consumption
<1>. HIDE DEF lifted
<1>3. \A j \in ConsumptionIds :
         /\ consumptions'[j].phase = consumptions[j].phase
         /\ consumptions'[j].residue = consumptions[j].residue
         /\ consumptions'[j].after = consumptions[j].after
         /\ consumptions'[j].covered = consumptions[j].covered
         /\ consumptions'[j].connection = consumptions[j].connection
  BY <1>2
<1>4. k # consumer
  BY <1>2, NoneIsNoGeneration DEF StreamInv, ConsumerIsCurrent, IsPending
<1>5. /\ \A j \in 1 .. k - 1 : IsLeft(j) => Holds(p, j) /\ ~IsPending(j)
      /\ IF p = None THEN Leads(k) ELSE Follows(k, p)
  BY <1>1, <1>2 DEF StreamInv, ChainHolds, Holds, StopPending, IsPending
<1>6. ~StopFails(k) => c.residue = "none" /\ \A j \in 1 .. k - 1 : ~IsLeft(j)
  BY <1>2, <1>5 DEF StopFails, StopFailed, Holds, StopPending
<1>7. /\ \A j \in ConsumptionIds : Unconfirmed(j)' = Unconfirmed(j)
      /\ \A j \in ConsumptionIds \ {k} : IsPending(j)' = IsPending(j)
      /\ ~IsPending(k)'
  BY <1>2, <1>3 DEF Unconfirmed, ConnectionOf, IsPending, fieldVars
<1>8. \A j \in ConsumptionIds : IsLeft(j)' => IsLeft(j)
  BY <1>2, <1>7 DEF IsLeft
<1>9. ASSUME consumptionStop = k, lifted, NEW j \in ConsumptionIds
      PROVE  ~IsLeft(j)'
  <2> SUFFICES ASSUME IsLeft(j)' PROVE FALSE
    OBVIOUS
  <2>1. IsLeft(j) /\ j <= k /\ consumptions[j].connection = c.connection
    BY <1>8, <1>9 DEF StreamInv, BarrierHolds, Holds
  <2>2. ~IsPending(j)'
    BY <1>5, <1>7, <2>1 DEF ConsumptionIds
  <2>3. CASE ~StopFails(k)
    <3>1. j = k
      BY <1>6, <2>1, <2>3 DEF ConsumptionIds
    <3>. QED
      BY <1>6, <1>7, <2>3, <3>1 DEF IsLeft, Unconfirmed
  <2>4. CASE c.covered /\ connections[c.connection] = "closed"
    <3>1. Unconfirmed(j)
      BY <1>7, <2>2 DEF IsLeft
    <3>2. consumptions[j].residue # "late"
      BY <1>9, <2>4 DEF StreamInv, LateIsUncovered, IsLate
    <3>. QED
      BY <2>1, <2>4, <3>1, <3>2 DEF Unconfirmed, ConnectionOf
  <2>. QED
    BY <1>9, <2>3, <2>4 DEF lifted
<1>10. InOrder'
  BY <1>1, <1>2, <1>3 DEF StreamInv, InOrder
<1>11. ConsumerIsCurrent'
  <2>1. consumer # None => consumptions'[consumer] = consumptions[consumer]
    BY <1>2, <1>4 DEF TypeOK, ConsumptionTypeOK
  <2>. QED
    BY <1>2, <1>3, <2>1
    DEF StreamInv, ConsumerIsCurrent, IsCurrentConsumption, IsCurrentConnection, fieldVars
<1>12. WorkIsStopped'
  <2>1. \A j \in ConsumptionIds : IsReleased(j)' = IsReleased(j)
    BY <1>3, <1>7 DEF IsReleased
  <2> SUFFICES ASSUME NEW m \in ConsumptionIds
      PROVE
        /\ IsWorking(m)' /\ m # consumer' => IsPending(m)'
        /\ consumptions'[m].phase = "streaming" => m = consumer'
        /\ consumptions'[m].residue # "none" =>
              consumptions'[m].phase = "done" /\ consumptions'[m].stop \in {"pending", "failed"}
        /\ consumptions'[m].stop \in {"ok", "failed"} => consumptions'[m].phase = "done"
        /\ consumptions'[m].stop = "none" =>
              consumptions'[m].covered /\ consumptions'[m].previous = None
        /\ IsWorking(m)' /\ consumptions'[m].phase # "waiting" =>
              \A j \in 1 .. m - 1 : IsReleased(j)'
    BY DEF WorkIsStopped
  <2>2. CASE m = k
    BY <1>2, <1>6, <2>2 DEF IsWorking
  <2>3. CASE m # k
    BY <1>1, <1>2, <1>7, <2>1, <2>3 DEF StreamInv, WorkIsStopped, IsWorking
  <2>. QED
    BY <2>2, <2>3
<1>13. ASSUME NEW b \in ConsumptionIds \cup {None}, NEW j \in ConsumptionIds,
              Holds(b, j), IsLeft(j)', b # k \/ StopFails(k)
       PROVE  Holds(b, j)'
  <2>1. b \in ConsumptionIds /\ j <= b
    BY <1>13 DEF Holds
  <2>2. CASE b = k
    <3>1. ~IsPending(j)'
      BY <1>5, <1>7, <1>8, <1>13, <2>1, <2>2 DEF ConsumptionIds
    <3>. QED
      BY <1>2, <1>3, <1>13, <2>1, <2>2, <3>1 DEF Holds
  <2>3. CASE b # k
    BY <1>2, <1>3, <1>7, <1>13, <2>1, <2>3 DEF Holds
  <2>. QED
    BY <2>2, <2>3
<1>14. BarrierHolds'
  <2>1. CASE consumptionStop' = None
    <3>1. \A j \in ConsumptionIds : ~IsLeft(j)'
      BY <1>2, <1>8, <1>9, <2>1 DEF StreamInv, BarrierHolds, Holds
    <3>. QED
      BY <2>1, <3>1 DEF BarrierHolds
  <2>2. CASE consumptionStop' # None
    <3>1. /\ consumptionStop' = consumptionStop /\ consumptionStop \in ConsumptionIds
          /\ consumptionStop # k \/ StopFails(k)
      BY <1>2, <2>2 DEF lifted, TypeOK, ConsumptionTypeOK
    <3>2. consumptions'[consumptionStop].stop \in {"pending", "failed"}
      BY <1>2, <3>1, NoneIsNoGeneration DEF StreamInv, BarrierHolds
    <3>. QED
      BY <1>8, <1>13, <3>1, <3>2 DEF StreamInv, BarrierHolds
  <2>. QED
    BY <2>1, <2>2
<1>15. ChainHolds'
  <2> SUFFICES ASSUME NEW m \in ConsumptionIds, IsPending(m)'
      PROVE  /\ IF consumptions'[m].previous = None THEN Leads(m)'
                ELSE Follows(m, consumptions[m].previous)'
             /\ \A j \in 1 .. m - 1 : IsLeft(j)' => Holds(consumptions[m].previous, j)'
    BY DEF ChainHolds
  <2> DEFINE q == consumptions[m].previous
  <2>1. /\ m # k /\ consumptions'[m] = consumptions[m] /\ IsPending(m)
        /\ q \in ConsumptionIds \cup {None} /\ 1 .. m - 1 \subseteq ConsumptionIds
    BY <1>1, <1>2, <1>7 DEF TypeOK, ConsumptionTypeOK, Consumption
  <2>2. /\ IF q = None THEN Leads(m) ELSE Follows(m, q)
        /\ \A j \in 1 .. m - 1 : IsLeft(j) => Holds(q, j)
    BY <2>1 DEF StreamInv, ChainHolds
  <2>3. q = None => Leads(m)'
    BY <2>1, <2>2 DEF Leads
  <2>4. q # None => Follows(m, q)'
    BY <1>2, <1>3, <2>1, <2>2 DEF Follows
  <2>5. ASSUME NEW j \in 1 .. m - 1, IsLeft(j)' PROVE Holds(q, j)'
    <3>1. IsLeft(j) /\ Holds(q, j) /\ j \in ConsumptionIds
      BY <1>8, <2>1, <2>2, <2>5
    <3>2. q # k \/ StopFails(k)
      <4> SUFFICES ASSUME q = k, ~StopFails(k) PROVE FALSE
        OBVIOUS
      <4>1. j = k
        BY <1>6, <3>1 DEF Holds, ConsumptionIds
      <4>. QED
        BY <1>6, <1>7, <2>5, <4>1 DEF IsLeft, Unconfirmed
    <3>. QED
      BY <1>13, <2>1, <2>5, <3>1, <3>2
  <2>. QED
    BY <2>1, <2>3, <2>4, <2>5
<1>16. FailureHasCause'
  <2>1. \A q \in ConsumptionIds : HasCause(q)' = HasCause(q)
    BY <1>3 DEF HasCause
  <2>2. ASSUME StopFails(k) PROVE HasCause(k)
    <3>1. CASE c.residue # "none"
      <4>1. p = None /\ Leads(k) /\ c.residue \in {"stream", "late"}
        BY <1>1, <1>5, <3>1 DEF Follows, Consumption, Residues
      <4>. QED
        BY <4>1 DEF Leads, HasCause
    <3>2. CASE c.residue = "none"
      <4>1. p \in ConsumptionIds /\ consumptions[p].stop = "failed"
        BY <1>1, <2>2, <3>2 DEF StopFails, StopFailed
      <4>2. HasCause(p) /\ Follows(k, p)
        BY <1>5, <4>1, NoneIsNoGeneration DEF StreamInv, FailureHasCause
      <4>. QED
        BY <4>2 DEF HasCause, Follows
    <3>. QED
      BY <3>1, <3>2
  <2>. QED
    BY <1>2, <2>1, <2>2 DEF StreamInv, FailureHasCause
<1>17. LateIsUncovered'
  <2> SUFFICES ASSUME NEW j \in ConsumptionIds, IsLate(j)'
               PROVE  consumptionStop' # None /\ ~consumptions'[consumptionStop'].covered
    BY DEF LateIsUncovered
  <2>1. IsLate(j) /\ IsLeft(j)'
    BY <1>2, <1>3, <1>7 DEF IsLate, IsLeft, Unconfirmed, IsPending
  <2>2. consumptionStop # None /\ ~consumptions[consumptionStop].covered
    BY <2>1 DEF StreamInv, LateIsUncovered
  <2>. QED
    BY <1>2, <1>3, <1>9, <2>1, <2>2 DEF TypeOK, ConsumptionTypeOK
<1>18. ClosedIsReleased'
  <2> SUFFICES ASSUME consumptionStop' # None PROVE ClosedIsReleased'
    BY DEF ClosedIsReleased, StopFailed
  <2>1. consumptionStop' = consumptionStop /\ consumptionStop \in ConsumptionIds
    BY <1>2 DEF TypeOK, ConsumptionTypeOK
  <2>2. CASE consumptionStop = k
    BY <1>2, <1>3, <2>1, <2>2 DEF ClosedIsReleased, lifted, fieldVars
  <2>3. CASE consumptionStop # k
    BY <1>2, <1>3, <2>1, <2>3 DEF StreamInv, ClosedIsReleased, StopFailed, fieldVars
  <2>. QED
    BY <2>2, <2>3
<1>. QED
  BY <1>10, <1>11, <1>12, <1>14, <1>15, <1>16, <1>17, <1>18 DEF StreamInv

\* stopConsumption(), and with it the consumption that a start puts in place:
\* the consumer's stop becomes the barrier and awaits the one before it.
LEMMA StopAndStart ==
    ASSUME TypeOK, ConsumptionTypeOK', OwnershipInv, StreamInv, BarrierServes,
           UNCHANGED connections,
           consumptionStop' = StopBarrier,
           consumer # None => consumptions'[consumer] = Stopped(consumptions[consumer]),
           \A j \in ConsumptionIds : j # consumer /\ j # consumer' =>
              consumptions'[j] = consumptions[j],
           consumer' # None =>
              /\ IsFresh(consumer') /\ IsConnected /\ ~shuttingDown /\ UNCHANGED fieldVars
              /\ consumptions'[consumer'] =
                    [NoConsumption EXCEPT !.phase = "waiting",
                                          !.connection = activeConnection,
                                          !.generation = generation,
                                          !.after = StopBarrier]
    PROVE  /\ StreamInv'
           /\ \A j \in ConsumptionIds : j # consumer' =>
                 /\ consumptions'[j].connection = consumptions[j].connection
                 /\ consumptions'[j].phase = "unused" <=> consumptions[j].phase = "unused"
           /\ consumer # None => consumptions[consumer].connection = activeConnection
<1>0. PICK m, n, s, t : m = consumer /\ n = consumer' /\ s = consumptionStop /\ t = consumptionStop'
  OBVIOUS
<1>. USE <1>0
<1> DEFINE c == consumptions[m]
           d == consumptions'[m]
           e == consumptions'[n]
<1>1. /\ m \in ConsumptionIds \cup {None} /\ n \in ConsumptionIds \cup {None}
      /\ s \in ConsumptionIds \cup {None} /\ t \in ConsumptionIds \cup {None}
      /\ \A j \in ConsumptionIds : 1 .. j - 1 \subseteq ConsumptionIds
      /\ None \notin ConsumptionIds
      /\ \A j \in ConsumptionIds : consumptions[j] \in Consumption
  BY BoundsAssumption, NoneIsNoGeneration
  DEF TypeOK, ConsumptionTypeOK, ConsumptionIds, Consumption
<1>2. ASSUME m # None
      PROVE  /\ IsCurrentConsumption(m) /\ c.connection = activeConnection
             /\ activeConnection # None
             /\ c.phase \in {"waiting", "opening", "streaming", "closing"} /\ c.stop = "none"
             /\ c.phase # "waiting" => s = None
             /\ \A j \in ConsumptionIds : j > m => consumptions[j].phase = "unused"
             /\ c.residue = "none" /\ c.previous = None
  BY <1>1, <1>2
  DEF StreamInv, ConsumerIsCurrent, IsCurrentConsumption, IsCurrentConnection, WorkIsStopped,
      OwnershipInv, ServingIsCurrent
<1>3. ASSUME m # None
      PROVE  /\ d.stop = "pending" /\ d.previous = s /\ d.covered = IsCovered(c)
             /\ d.phase = (IF c.phase = "streaming" THEN "closing" ELSE c.phase)
             /\ d.residue = "none" /\ d.connection = activeConnection /\ d.after = c.after
  <2>1. c \in Consumption /\ d = Stopped(c)
    BY <1>1, <1>3
  <2>. QED
    BY <1>2, <1>3, <2>1 DEF Stopped, Consumption
<1>4. ASSUME n # None
      PROVE  /\ consumptions[n].phase = "unused" /\ consumptions[n].stop = "none"
             /\ consumptions[n].residue = "none"
             /\ \A j \in 1 .. n - 1 : consumptions[j].phase # "unused"
             /\ \A j \in ConsumptionIds : j > n => consumptions[j].phase = "unused"
             /\ n # m /\ (m # None => m < n)
             /\ e.phase = "waiting" /\ e.connection = activeConnection
             /\ e.generation = generation /\ e.after = t /\ e.stop = "none"
             /\ e.residue = "none" /\ e.previous = None /\ e.covered
  <2>1. /\ consumptions[n].phase = "unused" /\ consumptions[n] = NoConsumption
        /\ \A j \in 1 .. n - 1 : consumptions[j].phase # "unused"
    BY <1>1, <1>4 DEF IsFresh, StreamInv, InOrder
  <2>2. \A j \in ConsumptionIds : j > n => consumptions[j].phase = "unused"
    BY <1>1, <1>4, <2>1 DEF StreamInv, InOrder, ConsumptionIds
  <2>3. n # m /\ (m # None => m < n)
    BY <1>1, <1>2, <1>4, <2>1, <2>2 DEF ConsumptionIds
  <2>. QED
    BY <1>4, <2>1, <2>2, <2>3, ZenonT(40) DEF NoConsumption
<1>5. \A j \in ConsumptionIds : j # n =>
         /\ consumptions'[j].connection = consumptions[j].connection
         /\ consumptions'[j].residue = consumptions[j].residue
         /\ consumptions'[j].phase = "unused" <=> consumptions[j].phase = "unused"
  BY <1>1, <1>2, <1>3
<1>6. \A j \in ConsumptionIds : IsPending(j)' <=> (IsPending(j) \/ j = m)
  BY <1>1, <1>2, <1>3, <1>4 DEF IsPending
<1>7. \A j \in ConsumptionIds : Unconfirmed(j)' <=> Unconfirmed(j)
  BY <1>1, <1>4, <1>5 DEF Unconfirmed, ConnectionOf
<1>8. \A j \in ConsumptionIds : IsLeft(j)' <=> (IsLeft(j) \/ j = m)
  BY <1>6, <1>7 DEF IsLeft
<1>9. \A j \in ConsumptionIds : IsLeft(j) =>
         j # n /\ j # m /\ consumptions[j].phase # "unused" /\ (m # None => j < m)
  <2>1. \A j \in ConsumptionIds : IsLeft(j) => consumptions[j].phase # "unused"
    BY DEF StreamInv, InOrder, NoConsumption, IsLeft, IsPending, Unconfirmed
  <2>. QED
    BY <1>1, <1>2, <1>4, <2>1 DEF IsLeft, IsPending, Unconfirmed, ConsumptionIds
<1>10. \A b \in ConsumptionIds \cup {None}, j \in ConsumptionIds :
          Holds(b, j) /\ IsLeft(j) => Holds(b, j)' /\ b # m /\ b # n
  <2> SUFFICES ASSUME NEW b \in ConsumptionIds, NEW j \in ConsumptionIds, Holds(b, j), IsLeft(j)
               PROVE  Holds(b, j)' /\ b # m /\ b # n
    BY DEF Holds
  <2>1. b # m /\ b # n
    BY <1>1, <1>2, <1>4 DEF Holds
  <2>. QED
    BY <1>5, <1>6, <1>9, <2>1 DEF Holds
<1>11. ASSUME m # None, NEW j \in ConsumptionIds, IsLeft(j) \/ j = m
       PROVE  Holds(m, j)'
  <2>1. CASE j = m
    BY <1>1, <1>3, <1>11, <2>1 DEF Holds, ConsumptionIds, IsPending
  <2>2. CASE IsLeft(j)
    <3>1. s # None /\ consumptions[j].connection = activeConnection
      BY <1>2, <1>11, <2>2 DEF StreamInv, BarrierHolds, Holds, BarrierServes
    <3>. QED
      BY <1>1, <1>3, <1>5, <1>9, <1>11, <2>2, <3>1 DEF Holds, IsPending, ConsumptionIds
  <2>. QED
    BY <1>11, <2>1, <2>2
<1>12. InOrder'
  <2> SUFFICES ASSUME NEW j \in ConsumptionIds
               PROVE  /\ consumptions'[j].phase = "unused" => consumptions'[j] = NoConsumption
                      /\ consumptions'[j].phase # "unused" =>
                            \A i \in 1 .. j - 1 : consumptions'[i].phase # "unused"
    BY DEF InOrder
  <2>1. CASE j = n
    BY <1>1, <1>4, <1>5, <2>1
  <2>2. CASE j # n
    <3>1. consumptions'[j].phase = "unused" => consumptions'[j] = consumptions[j]
      BY <1>1, <1>2, <1>5, <2>2
    <3>2. \A i \in 1 .. j - 1 : consumptions[i].phase # "unused" => consumptions'[i].phase # "unused"
      BY <1>1, <1>4, <1>5
    <3>. QED
      BY <1>1, <1>5, <2>2, <3>1, <3>2 DEF StreamInv, InOrder
  <2>. QED
    BY <2>1, <2>2
<1>13. ConsumerIsCurrent'
  <2> SUFFICES ASSUME n # None PROVE ConsumerIsCurrent'
    BY DEF ConsumerIsCurrent
  <2>1. IsCurrentConsumption(n)'
    BY <1>4 DEF IsCurrentConsumption, IsCurrentConnection, IsConnected, fieldVars
  <2>2. \A j \in ConsumptionIds : j > n => consumptions'[j].phase = "unused"
    BY <1>1, <1>4, <1>5 DEF ConsumptionIds
  <2>. QED
    BY <1>4, <2>1, <2>2 DEF ConsumerIsCurrent
<1>14. WorkIsStopped'
  <2>1. \A j \in ConsumptionIds : IsReleased(j) => IsReleased(j)'
    BY <1>1, <1>2, <1>4, <1>7 DEF IsReleased
  <2> SUFFICES ASSUME NEW k \in ConsumptionIds
      PROVE
        /\ IsWorking(k)' /\ k # consumer' => IsPending(k)'
        /\ consumptions'[k].phase = "streaming" => k = consumer'
        /\ consumptions'[k].residue # "none" =>
              consumptions'[k].phase = "done" /\ consumptions'[k].stop \in {"pending", "failed"}
        /\ consumptions'[k].stop \in {"ok", "failed"} => consumptions'[k].phase = "done"
        /\ consumptions'[k].stop = "none" =>
              consumptions'[k].covered /\ consumptions'[k].previous = None
        /\ IsWorking(k)' /\ consumptions'[k].phase # "waiting" =>
              \A j \in 1 .. k - 1 : IsReleased(j)'
    BY DEF WorkIsStopped
  <2>2. CASE k = n
    BY <1>1, <1>4, <2>2
  <2>3. CASE k = m /\ k # n
    <3>1. c.phase # "waiting" => \A j \in 1 .. k - 1 : IsReleased(j)
      BY <1>1, <1>2, <2>3 DEF StreamInv, WorkIsStopped, IsWorking
    <3>. QED
      BY <1>1, <1>2, <1>3, <2>1, <2>3, <3>1 DEF IsPending
  <2>4. CASE k # m /\ k # n
    <3>1. consumptions'[k] = consumptions[k] /\ IsPending(k)' = IsPending(k)
      BY <2>4 DEF IsPending
    <3>. QED
      BY <1>1, <2>1, <2>4, <3>1 DEF StreamInv, WorkIsStopped, IsWorking
  <2>. QED
    BY <2>2, <2>3, <2>4
<1>15. BarrierHolds'
  <2>1. CASE m = None
    <3>1. t = s
      BY <2>1 DEF StopBarrier
    <3>2. s # None => s # n /\ consumptions'[s] = consumptions[s]
      BY <1>1, <1>4, <2>1, <3>1 DEF StreamInv, BarrierHolds
    <3>3. \A j \in ConsumptionIds : IsLeft(j)' => Holds(s, j)'
      BY <1>1, <1>8, <1>10, <2>1 DEF StreamInv, BarrierHolds
    <3>. QED
      BY <3>1, <3>2, <3>3 DEF StreamInv, BarrierHolds
  <2>2. CASE m # None
    <3>1. t = m
      BY <2>2 DEF StopBarrier
    <3>2. \A j \in ConsumptionIds : IsLeft(j)' => Holds(m, j)'
      BY <1>8, <1>11, <2>2
    <3>. QED
      BY <1>3, <2>2, <3>1, <3>2 DEF BarrierHolds
  <2>. QED
    BY <2>1, <2>2
<1>16. ASSUME m # None, s # None
       PROVE  Follows(m, s)' /\ s \in ConsumptionIds /\ s # m /\ s # n
  <2>1. /\ s \in ConsumptionIds /\ consumptions[s].stop \in {"pending", "failed"}
        /\ consumptions[s].connection = activeConnection
    BY <1>1, <1>2, <1>16 DEF StreamInv, BarrierHolds, BarrierServes
  <2>2. s # m /\ s # n
    BY <1>2, <1>4, <1>16, <2>1
  <2>3. s < m
    BY <1>1, <1>2, <1>16, <2>1, <2>2 DEF StreamInv, InOrder, NoConsumption, ConsumptionIds
  <2>4. c.phase = "waiting" /\ (IsCovered(c) <=> consumptions[s].covered)
    BY <1>2, <1>16 DEF IsCovered
  <2>5. d.covered = consumptions[s].covered
    BY <1>1, <1>3, <1>16, <2>1, <2>4 DEF IsCovered, Consumption
  <2>. QED
    BY <1>3, <1>16, <2>1, <2>2, <2>3, <2>4, <2>5 DEF Follows
<1>17. ASSUME m # None, s = None
       PROVE  Leads(m)'
  BY <1>2, <1>3, <1>17, ZenonT(20) DEF Leads, IsCovered
<1>18. ChainHolds'
  <2> SUFFICES ASSUME NEW k \in ConsumptionIds, IsPending(k)'
      PROVE  /\ IF consumptions'[k].previous = None THEN Leads(k)'
                ELSE Follows(k, consumptions[k].previous)'
             /\ \A j \in 1 .. k - 1 : IsLeft(j)' => Holds(consumptions[k].previous, j)'
    BY DEF ChainHolds
  <2>1. CASE k = m
    <3>1. m # None /\ consumptions'[k].previous = s
      BY <1>1, <1>3, <2>1
    <3>2. \A j \in 1 .. k - 1 : IsLeft(j)' => Holds(s, j)'
      BY <1>1, <1>8, <1>10, <2>1 DEF StreamInv, BarrierHolds, ConsumptionIds
    <3>. QED
      BY <1>16, <1>17, <2>1, <3>1, <3>2
  <2>2. CASE k # m
    <3> DEFINE q == consumptions[k].previous
    <3>1. /\ IsPending(k) /\ k # n /\ consumptions'[k] = consumptions[k]
          /\ q \in ConsumptionIds \cup {None}
          /\ m # None => k < m
      BY <1>1, <1>4, <1>6, <1>9, <2>2 DEF IsPending, IsLeft, Consumption
    <3>2. /\ IF q = None THEN Leads(k) ELSE Follows(k, q)
          /\ \A j \in 1 .. k - 1 : IsLeft(j) => Holds(q, j)
      BY <3>1 DEF StreamInv, ChainHolds
    <3>3. q = None => Leads(k)'
      BY <3>1, <3>2 DEF Leads
    <3>4. q # None => Follows(k, q)'
      <4> SUFFICES ASSUME q # None PROVE Follows(k, q)'
        OBVIOUS
      <4>1. q # m /\ q # n /\ q \in ConsumptionIds
        BY <1>2, <1>4, <3>1, <3>2 DEF Follows
      <4>. QED
        BY <3>1, <3>2, <4>1 DEF Follows
    <3>5. \A j \in 1 .. k - 1 : IsLeft(j)' => Holds(q, j)'
      BY <1>1, <1>8, <1>10, <3>1, <3>2 DEF ConsumptionIds
    <3>. QED
      BY <3>1, <3>3, <3>4, <3>5
  <2>. QED
    BY <2>1, <2>2
<1>19. FailureHasCause'
  <2> SUFFICES ASSUME NEW q \in ConsumptionIds, consumptions'[q].stop = "failed" PROVE HasCause(q)'
    BY DEF FailureHasCause
  <2>1. q # m /\ q # n
    BY <1>1, <1>3, <1>4
  <2>2. HasCause(q) /\ consumptions'[q] = consumptions[q]
    BY <2>1 DEF StreamInv, FailureHasCause
  <2>3. \A j \in ConsumptionIds : consumptions[j].residue # "none" => j # n
    BY <1>1, <1>4
  <2>. QED
    BY <1>5, <2>2, <2>3 DEF HasCause
<1>20. LateIsUncovered'
  <2> SUFFICES ASSUME NEW j \in ConsumptionIds, IsLate(j)'
               PROVE  t # None /\ ~consumptions'[t].covered
    BY DEF LateIsUncovered
  <2>1. IsLate(j) \/ (j = m /\ c.phase \in {"opening", "late"})
    BY <1>1, <1>3, <1>4 DEF IsLate, IsPending
  <2>2. CASE m = None
    <3>1. IsLate(j) /\ t = s /\ s # None /\ ~consumptions[s].covered
      BY <1>1, <2>1, <2>2 DEF StopBarrier, StreamInv, LateIsUncovered
    <3>2. s # n
      BY <1>4, <3>1 DEF StreamInv, BarrierHolds
    <3>. QED
      BY <1>1, <2>2, <3>1, <3>2
  <2>3. CASE m # None
    <3>1. t = m /\ ~IsCovered(c)
      BY <2>1, <2>3 DEF StopBarrier, StreamInv, LateIsUncovered, IsCovered
    <3>. QED
      BY <1>3, <2>3, <3>1
  <2>. QED
    BY <2>2, <2>3
<1>21. ClosedIsReleased'
  <2>1. CASE m = None
    <3>1. t = s /\ (s # None => s # n)
      BY <1>4, <2>1 DEF StopBarrier, StreamInv, BarrierHolds
    <3>2. s # None => consumptions'[s] = consumptions[s]
      BY <1>1, <2>1, <3>1
    <3>. QED
      BY <3>1, <3>2 DEF StreamInv, ClosedIsReleased, StopFailed
  <2>2. CASE m # None
    BY <1>3, <2>2 DEF ClosedIsReleased, StopFailed, StopBarrier
  <2>. QED
    BY <2>1, <2>2
<1>. QED
  BY <1>2, <1>5, <1>12, <1>13, <1>14, <1>15, <1>18, <1>19, <1>20, <1>21 DEF StreamInv

\* A step of the lifecycle leaves the streams alone.  It may confirm some of
\* them, and lift the barrier once it holds nothing any more.
LEMMA StreamsRest ==
    ASSUME TypeOK, StreamInv, UNCHANGED <<consumer, consumptions>>,
           consumer # None => UNCHANGED <<generation, shuttingDown, snapshot, activeConnection>>,
           \A j \in ConsumptionIds : Unconfirmed(j)' => Unconfirmed(j),
           \/ UNCHANGED consumptionStop
           \/ consumptionStop' = None /\ \A j \in ConsumptionIds : ~IsPending(j) /\ ~Unconfirmed(j)',
           ClosedIsReleased'
    PROVE  StreamInv'
<1>1. \A j \in ConsumptionIds : 1 .. j - 1 \subseteq ConsumptionIds
  BY BoundsAssumption DEF ConsumptionIds
<1>2. /\ \A j \in ConsumptionIds : IsPending(j)' = IsPending(j) /\ (IsLeft(j)' => IsLeft(j))
      /\ \A b, j : Holds(b, j)' = Holds(b, j)
  BY DEF IsPending, IsLeft, Holds
<1>3. InOrder'
  BY DEF StreamInv, InOrder
<1>4. ConsumerIsCurrent'
  BY DEF StreamInv, ConsumerIsCurrent, IsCurrentConsumption, IsCurrentConnection
<1>5. WorkIsStopped'
  BY <1>1, <1>2 DEF StreamInv, WorkIsStopped, IsWorking, IsReleased
<1>6. BarrierHolds'
  BY <1>2 DEF StreamInv, BarrierHolds, IsLeft
<1>7. ChainHolds'
  <2> SUFFICES ASSUME NEW m \in ConsumptionIds, IsPending(m)'
      PROVE  LET p == consumptions'[m].previous
             IN  /\ IF p = None THEN Leads(m)' ELSE Follows(m, consumptions[m].previous)'
                 /\ \A j \in 1 .. m - 1 : IsLeft(j)' => Holds(consumptions[m].previous, j)'
    BY DEF ChainHolds
  <2>. QED
    BY <1>1, <1>2 DEF StreamInv, ChainHolds, Leads, Follows
<1>8. FailureHasCause'
  BY DEF StreamInv, FailureHasCause, HasCause
<1>9. LateIsUncovered'
  BY DEF StreamInv, LateIsUncovered, IsLate, IsPending, Unconfirmed
<1>. QED
  BY <1>3, <1>4, <1>5, <1>6, <1>7, <1>8, <1>9 DEF StreamInv

\* What an unsettled attempt does with its connection concerns no stream.
LEMMA StreamsRestByAttempt ==
    ASSUME TypeOK, StreamInv, UsedIsSettled, UNCHANGED consumptionVars,
           NEW g \in Generations, ops[g].phase # "settled",
           \A h \in Generations \ {g} : connections'[h] = connections[h],
           consumer # None => UNCHANGED <<generation, shuttingDown, snapshot, activeConnection>>
    PROVE  StreamInv'
<1>1. UNCHANGED <<consumer, consumptions, consumptionStop>>
  BY DEF consumptionVars
<1>2. \A j \in ConsumptionIds :
         consumptions[j].phase # "unused" =>
            connections'[consumptions[j].connection] = connections[consumptions[j].connection]
  BY DEF UsedIsSettled
<1>3. \A j \in ConsumptionIds : Unconfirmed(j)' => Unconfirmed(j)
  BY <1>1, <1>2 DEF Unconfirmed, ConnectionOf, StreamInv, InOrder, NoConsumption
<1>4. ClosedIsReleased'
  BY <1>1, <1>2 DEF StreamInv, ClosedIsReleased, InOrder, NoConsumption, StopFailed, TypeOK,
                    ConsumptionTypeOK
<1>. QED
  BY <1>1, <1>3, <1>4, StreamsRest

\* finishConnectionClose: the connection covers its streams, and the barrier
\* goes with the last of them.
LEMMA StreamsRestByClose ==
    ASSUME TypeOK, StreamInv, UsedIsSettled, UNCHANGED <<consumer, consumptions>>,
           UNCHANGED <<generation, shuttingDown, snapshot, activeConnection>>,
           NEW c \in Generations, connections' = [connections EXCEPT ![c] = "closed"],
           consumptionStop' = BarrierAfterClose(c)
    PROVE  StreamInv'
<1>1. connections'[c] = "closed" /\ \A h \in Generations \ {c} : connections'[h] = connections[h]
  BY DEF TypeOK, FieldsTypeOK
<1>2. \A j \in ConsumptionIds :
         /\ consumptions[j].phase # "unused" => consumptions[j].connection \in Generations
         /\ consumptions[j].residue # "none" \/ consumptions[j].stop # "none" =>
               consumptions[j].phase # "unused"
  BY DEF UsedIsSettled, StreamInv, InOrder, NoConsumption
<1>3. \A j \in ConsumptionIds : Unconfirmed(j)' => Unconfirmed(j)
  BY <1>1, <1>2 DEF Unconfirmed, ConnectionOf
<1>4. CASE consumptionStop' = consumptionStop
  <2>1. ClosedIsReleased'
    <3> SUFFICES ASSUME StopFailed(consumptionStop), consumptions[consumptionStop].covered
                 PROVE  connections'[consumptions[consumptionStop].connection] # "closed"
      BY <1>4 DEF ClosedIsReleased, StopFailed
    <3>1. consumptionStop # None /\ consumptions[consumptionStop].connection # c
      BY <1>4 DEF BarrierAfterClose, StopFailed
    <3>. QED
      BY <1>1, <1>2, <3>1 DEF StreamInv, ClosedIsReleased, StopFailed, TypeOK, ConsumptionTypeOK
  <2>. QED
    BY <1>3, <1>4, <2>1, StreamsRest
<1>5. CASE consumptionStop' # consumptionStop
  <2>1. /\ consumptionStop' = None /\ StopFailed(consumptionStop)
        /\ consumptions[consumptionStop].covered
        /\ consumptions[consumptionStop].connection = c
    BY <1>5 DEF BarrierAfterClose
  <2>2. ASSUME NEW j \in ConsumptionIds, IsLeft(j)
        PROVE  /\ ~IsPending(j) /\ consumptions[j].connection = c
               /\ consumptions[j].residue # "late"
    BY <2>1, <2>2 DEF StreamInv, BarrierHolds, Holds, IsPending, StopFailed, LateIsUncovered, IsLate
  <2>3. \A j \in ConsumptionIds : ~IsPending(j) /\ ~Unconfirmed(j)'
    BY <1>1, <1>3, <2>2 DEF IsLeft, Unconfirmed, ConnectionOf
  <2>4. ClosedIsReleased'
    BY <2>1 DEF ClosedIsReleased, StopFailed
  <2>. QED
    BY <1>3, <2>1, <2>3, <2>4, StreamsRest
<1>. QED
  BY <1>4, <1>5

---------------------------------------------------------------------------
(* The barrier and the operations that wait for it.                        *)

LEMMA BarrierInit == Init => BarrierInv
<1> SUFFICES ASSUME Init PROVE BarrierInv
  OBVIOUS
<1>1. /\ consumer = None /\ consumptionStop = None
      /\ \A k \in ConsumptionIds :
            /\ consumptions[k] = NoConsumption
            /\ consumptions[k].phase = "unused" /\ consumptions[k].stop = "none"
            /\ consumptions[k].residue = "none" /\ consumptions[k].covered
            /\ consumptions[k].previous = None
      /\ \A g \in Generations : ops[g].phase = "none"
  BY DEF Init, FieldsInit, ConsumptionInit, NoConsumption, NoOp
<1>2. \A k \in ConsumptionIds : ~IsLeft(k) /\ ~IsPending(k) /\ ~IsWorking(k) /\ ~IsLate(k)
  BY <1>1 DEF IsLeft, IsPending, IsWorking, IsLate, Unconfirmed
<1>3. StreamInv
  BY <1>1, <1>2
  DEF StreamInv, InOrder, ConsumerIsCurrent, WorkIsStopped, BarrierHolds, ChainHolds,
      FailureHasCause, LateIsUncovered, ClosedIsReleased, StopFailed
<1>. QED
  BY <1>1, <1>3 DEF BarrierInv, UsedIsSettled, BarrierServes, NewestWaits

\* No step but a start uses a consumption, and none lends it another connection.
LEMMA ConsumptionFrame ==
    ASSUME TypeOK, NEW k \in ConsumptionIds, ConsumptionStep(k), ~StartConsumption(k)
    PROVE  /\ consumptions[k].phase # "unused" /\ consumptions'[k].phase # "unused"
           /\ consumptions'[k].connection = consumptions[k].connection
           /\ \A j \in ConsumptionIds \ {k} : consumptions'[j] = consumptions[j]
           /\ \/ consumptionStop' \in {consumptionStop, None}
              \/ StreamCloses(k, TRUE) /\ IsCurrentConsumption(k) /\ consumptionStop' = k
<1>1. consumptions[k] \in Consumption /\ consumptions \in [ConsumptionIds -> Consumption]
  BY DEF TypeOK, ConsumptionTypeOK
<1>2. ASSUME NEW residue, Finish(k, residue), consumptions[k].phase # "unused"
      PROVE  /\ consumptions'[k].phase # "unused" /\ consumptionStop' = consumptionStop
             /\ consumptions'[k].connection = consumptions[k].connection
             /\ \A j \in ConsumptionIds \ {k} : consumptions'[j] = consumptions[j]
  BY <1>1, <1>2 DEF Finish, Consumption
<1>3. CASE BeginOpen(k)
  <2>1. CASE Finish(k, "none")
    BY <1>2, <1>3, <2>1 DEF BeginOpen
  <2>2. CASE ~Finish(k, "none")
    <3>1. /\ consumptions[k].phase = "waiting" /\ consumptionStop' = consumptionStop
          /\ consumptions' = [consumptions EXCEPT
                ![k] = [@ EXCEPT !.phase = "opening", !.after = None]]
      BY <1>3, <2>2 DEF BeginOpen
    <3>. QED
      BY <1>1, <3>1 DEF Consumption
  <2>. QED
    BY <2>1, <2>2
<1>4. CASE RejectBehindStop(k)
  BY <1>2, <1>4 DEF RejectBehindStop
<1>5. CASE StreamOpens(k)
  BY <1>1, <1>5 DEF StreamOpens, Consumption
<1>6. ASSUME NEW failed \in BOOLEAN, StreamOpenFails(k, failed) \/ LateStreamCloses(k, failed)
      PROVE  /\ consumptions[k].phase # "unused"
             /\ consumptions'[k].phase # "unused" /\ consumptionStop' = consumptionStop
             /\ consumptions'[k].connection = consumptions[k].connection
             /\ \A j \in ConsumptionIds \ {k} : consumptions'[j] = consumptions[j]
  BY <1>2, <1>6 DEF StreamOpenFails, LateStreamCloses
<1>7. ASSUME NEW failed \in BOOLEAN, StreamCloses(k, failed)
      PROVE  /\ consumptions[k].phase # "unused" /\ consumptions'[k].phase # "unused"
             /\ consumptions'[k].connection = consumptions[k].connection
             /\ \A j \in ConsumptionIds \ {k} : consumptions'[j] = consumptions[j]
             /\ \/ consumptionStop' = consumptionStop
                \/ StreamCloses(k, TRUE) /\ IsCurrentConsumption(k) /\ consumptionStop' = k
  <2>1. CASE failed /\ IsCurrentConsumption(k)
    <3>1. failed = TRUE
      BY <2>1
    <3>2. /\ consumptions[k].phase = "closing" /\ consumptionStop' = k
          /\ consumptions' = [consumptions EXCEPT
                ![k] = [@ EXCEPT !.phase = "done", !.residue = "stream", !.stop = "failed"]]
      BY <1>7, <2>1 DEF StreamCloses
    <3>. QED
      BY <1>1, <1>7, <2>1, <3>1, <3>2 DEF Consumption
  <2>2. CASE ~(failed /\ IsCurrentConsumption(k))
    <3> DEFINE residue == IF failed THEN "stream" ELSE "none"
    <3>1. /\ consumptions[k].phase = "closing" /\ consumptionStop' = consumptionStop
          /\ consumptions' = [consumptions EXCEPT
                ![k] = [@ EXCEPT !.phase = "done", !.residue = residue]]
      BY <1>7, <2>2 DEF StreamCloses
    <3>. HIDE DEF residue
    <3>. QED
      BY <1>1, <3>1 DEF Consumption
  <2>. QED
    BY <2>1, <2>2
<1>8. CASE PumpEnds(k)
  BY <1>1, <1>8 DEF PumpEnds, Consumption
<1>9. CASE StopSettles(k)
  <2> DEFINE stop == IF StopFails(k) THEN "failed" ELSE "ok"
  <2>1. /\ consumptions[k].phase = "done" /\ consumptionStop' \in {consumptionStop, None}
        /\ consumptions' = [consumptions EXCEPT ![k] = [@ EXCEPT !.stop = stop, !.previous = None]]
    BY <1>9 DEF StopSettles
  <2>. HIDE DEF stop
  <2>. QED
    BY <1>1, <2>1 DEF Consumption
<1>. QED
  BY <1>3, <1>4, <1>5, <1>6, <1>7, <1>8, <1>9 DEF ConsumptionStep

\* While a connection serves, no operation waits.
LEMMA NoneWaits ==
    ASSUME TypeOK, OwnershipInv, activeConnection # None
    PROVE  activeConnection \in Generations /\ ops[generation].phase = "settled"
BY DEF TypeOK, FieldsTypeOK, OwnershipInv, ServingIsCurrent, AttemptOwnsConnection

LEMMA BarrierConsumption ==
    ASSUME TypeOK, TypeOK', OwnershipInv, BarrierInv, ConsumptionNext
    PROVE  BarrierInv'
<1>1. UNCHANGED <<generation, shuttingDown, snapshot, activeConnection, connections, requests,
                  ops, connectionAttempt, closures>>
  BY DEF ConsumptionNext, fieldVars, lifecycleVars
<1>2. ConsumptionTypeOK' /\ UNCHANGED fieldVars
  BY DEF TypeOK, ConsumptionNext
<1>3. ASSUME \/ consumptionStop' \in {consumptionStop, None}
             \/ activeConnection # None
      PROVE  NewestWaits'
  <2>1. CASE consumptionStop' \in {consumptionStop, None}
    BY <1>1, <2>1 DEF BarrierInv, NewestWaits, Running
  <2>2. CASE activeConnection # None
    <3>1. ops[generation].phase = "settled"
      BY <2>2, NoneWaits
    <3>. QED
      BY <1>1, <3>1 DEF NewestWaits
  <2>. QED
    BY <1>3, <2>1, <2>2
<1>4. ASSUME consumptionStop' = StopBarrier,
             consumer # None => consumptions'[consumer] = Stopped(consumptions[consumer]),
             \A j \in ConsumptionIds : j # consumer /\ j # consumer' =>
                consumptions'[j] = consumptions[j],
             consumer' # None =>
                /\ IsFresh(consumer') /\ IsConnected /\ ~shuttingDown
                /\ consumptions'[consumer'] =
                      [NoConsumption EXCEPT !.phase = "waiting",
                                            !.connection = activeConnection,
                                            !.generation = generation,
                                            !.after = StopBarrier]
      PROVE  BarrierInv'
  <2>1. /\ StreamInv'
        /\ \A j \in ConsumptionIds : j # consumer' =>
              /\ consumptions'[j].connection = consumptions[j].connection
              /\ consumptions'[j].phase = "unused" <=> consumptions[j].phase = "unused"
        /\ consumer # None => consumptions[consumer].connection = activeConnection
    BY <1>1, <1>2, <1>4, StopAndStart DEF BarrierInv
  <2>2. UsedIsSettled'
    <3> SUFFICES ASSUME NEW j \in ConsumptionIds, consumptions'[j].phase # "unused"
                 PROVE  /\ consumptions'[j].connection \in Generations
                        /\ ops[consumptions'[j].connection].phase = "settled"
      BY <1>1 DEF UsedIsSettled
    <3>1. CASE j = consumer'
      <4>1. consumer' # None /\ activeConnection # None
        BY <1>4, <3>1, NoneIsNoGeneration DEF IsConnected
      <4>2. activeConnection \in Generations /\ ops[activeConnection].phase = "settled"
        BY <4>1, NoneWaits DEF OwnershipInv, ServingIsCurrent
      <4>3. consumptions'[j].connection = activeConnection
        BY <1>4, <3>1, <4>1 DEF NoConsumption
      <4>. QED
        BY <4>2, <4>3
    <3>2. CASE j # consumer'
      BY <2>1, <3>2 DEF BarrierInv, UsedIsSettled
    <3>. QED
      BY <3>1, <3>2
  <2>3. BarrierServes' /\ (consumer # None => activeConnection # None)
    <3>1. consumer # None => activeConnection # None
      BY DEF BarrierInv, StreamInv, ConsumerIsCurrent, IsCurrentConsumption,
             IsCurrentConnection, OwnershipInv, ServingIsCurrent
    <3>2. ASSUME consumptionStop' # None PROVE consumptionStop' # consumer'
      BY <1>4, <3>2, NoneIsNoGeneration
      DEF StopBarrier, IsFresh, BarrierInv, StreamInv, ConsumerIsCurrent, BarrierHolds, InOrder,
          NoConsumption, TypeOK, ConsumptionTypeOK
    <3>3. ASSUME consumptionStop' # None, activeConnection # None
          PROVE  consumptions'[consumptionStop'].connection = activeConnection
      <4>1. consumptionStop' \in ConsumptionIds
        BY <1>2, <3>3 DEF ConsumptionTypeOK
      <4>2. consumptions[consumptionStop'].connection = activeConnection
        BY <1>4, <2>1, <3>3 DEF StopBarrier, BarrierInv, BarrierServes
      <4>. QED
        BY <2>1, <3>2, <3>3, <4>1, <4>2
    <3>. QED
      BY <1>1, <3>1, <3>3 DEF BarrierServes
  <2>4. NewestWaits'
    BY <1>3, <1>4, <2>3 DEF StopBarrier
  <2>. QED
    BY <2>1, <2>2, <2>3, <2>4 DEF BarrierInv
<1>5. CASE StopConsumptionEffect
  <2>1. /\ consumer' = None /\ consumptionStop' = StopBarrier
        /\ consumer # None => consumptions'[consumer] = Stopped(consumptions[consumer])
        /\ \A j \in ConsumptionIds : j # consumer => consumptions'[j] = consumptions[j]
    BY <1>5 DEF StopConsumptionEffect, AfterStop, TypeOK, ConsumptionTypeOK
  <2>. QED
    BY <1>4, <2>1
<1>6. ASSUME NEW k \in ConsumptionIds, StartConsumption(k), ~StopConsumptionEffect
      PROVE  BarrierInv'
  <2> DEFINE new == [NoConsumption EXCEPT !.phase = "waiting",
                                          !.connection = activeConnection,
                                          !.generation = generation,
                                          !.after = StopBarrier]
  <2>1. /\ IsConnected /\ IsFresh(k) /\ ~shuttingDown
        /\ consumer' = k /\ consumptionStop' = StopBarrier
        /\ consumptions' = [AfterStop EXCEPT ![k] = new]
    BY <1>6 DEF StartConsumption
  <2>. HIDE DEF new
  <2>2. consumer # k
    BY <2>1, NoneIsNoGeneration DEF IsFresh, BarrierInv, StreamInv, ConsumerIsCurrent
  <2>3. /\ consumptions'[k] = new
        /\ consumer # None => consumptions'[consumer] = Stopped(consumptions[consumer])
        /\ \A j \in ConsumptionIds : j # consumer /\ j # k => consumptions'[j] = consumptions[j]
    BY <2>1, <2>2 DEF AfterStop, TypeOK, ConsumptionTypeOK
  <2>. QED
    BY <1>4, <2>1, <2>3 DEF new
<1>7. ASSUME NEW k \in ConsumptionIds, ConsumptionStep(k), ~StartConsumption(k)
      PROVE  BarrierInv'
  <2>1. CASE StreamCloses(k, TRUE) /\ IsCurrentConsumption(k)
    <3>1. StreamInv' /\ consumptions'[k].connection = activeConnection
      BY <1>2, <2>1, RefusedCloseStep DEF BarrierInv
    <3>2. activeConnection # None
      BY <2>1 DEF IsCurrentConsumption, IsCurrentConnection, OwnershipInv, ServingIsCurrent
    <3>3. UsedIsSettled'
      BY <1>1, <1>7, ConsumptionFrame DEF BarrierInv, UsedIsSettled
    <3>4. consumptionStop' = k
      BY <2>1 DEF StreamCloses
    <3>. QED
      BY <1>1, <1>3, <3>1, <3>2, <3>3, <3>4 DEF BarrierInv, BarrierServes
  <2>2. CASE ~(StreamCloses(k, TRUE) /\ IsCurrentConsumption(k))
    <3>1. ASSUME StopSettles(k) PROVE StreamInv'
      BY <1>2, <3>1, StopSettlesStep DEF BarrierInv
    <3>2. ASSUME ~StopSettles(k) PROVE StreamInv'
      <4>1. \/ BeginOpen(k) \/ RejectBehindStop(k) \/ StreamOpens(k) \/ PumpEnds(k)
            \/ \E failed \in BOOLEAN :
                  \/ StreamOpenFails(k, failed) \/ LateStreamCloses(k, failed)
                  \/ StreamCloses(k, failed) /\ ~(failed /\ IsCurrentConsumption(k))
        <5>1. ASSUME NEW failed \in BOOLEAN, StreamCloses(k, failed)
              PROVE  ~(failed /\ IsCurrentConsumption(k))
          <6>1. failed => failed = TRUE
            OBVIOUS
          <6>. QED
            BY <2>2, <5>1, <6>1
        <5>. QED
          BY <1>7, <3>2, <5>1 DEF ConsumptionStep
      <4>. QED
        BY <1>2, <4>1, StreamMovesStep DEF BarrierInv
    <3>3. StreamInv'
      BY <3>1, <3>2
    <3>4. consumptionStop' \in {consumptionStop, None}
      BY <1>7, <2>2, ConsumptionFrame
    <3>5. UsedIsSettled'
      BY <1>1, <1>7, ConsumptionFrame DEF BarrierInv, UsedIsSettled
    <3>6. BarrierServes'
      BY <1>1, <1>7, <3>4, ConsumptionFrame
      DEF BarrierInv, BarrierServes, TypeOK, ConsumptionTypeOK
    <3>. QED
      BY <1>3, <3>3, <3>4, <3>5, <3>6 DEF BarrierInv
  <2>. QED
    BY <2>1, <2>2
<1>. QED
  BY <1>5, <1>6, <1>7 DEF ConsumptionNext, StopConsumption

\* A request of the session starts only while a connection serves.
LEMMA BarrierRequest ==
    ASSUME TypeOK, OwnershipInv, BarrierInv, RequestNext
    PROVE  BarrierInv' /\ (activeConnection = None =>
                              Running(SessionClasses)' \subseteq Running(SessionClasses))
<1>1. UNCHANGED <<generation, shuttingDown, snapshot, activeConnection, connections, consumer,
                  consumptionStop, consumptions, ops, connectionAttempt, closures>>
  BY DEF RequestNext, fieldVars, consumptionVars, lifecycleVars
<1>2. activeConnection = None => Running(SessionClasses)' \subseteq Running(SessionClasses)
  <2> SUFFICES ASSUME activeConnection = None, NEW q \in RequestIds,
                      requests'[q].phase = "running", requests'[q].class \in SessionClasses
               PROVE  requests[q].phase = "running" /\ requests[q].class \in SessionClasses
    BY DEF Running
  <2>1. PICK r \in RequestIds : RequestStep(r)
    BY DEF RequestNext
  <2>2. requests \in [RequestIds -> Request]
    BY DEF TypeOK, RequestsTypeOK
  <2>3. ASSUME NEW class \in Classes, StartRequest(r, class)
        PROVE  requests[q].phase = "running" /\ requests[q].class \in SessionClasses
    <3>1. class = "test"
      BY <2>3 DEF StartRequest, IsConnected
    <3> DEFINE new == [class |-> class, phase |-> "running",
                       connection |-> IF class = "test" THEN None ELSE activeConnection,
                       generation |-> IF class = "test" THEN 0 ELSE generation,
                       aborted |-> FALSE, result |-> "none"]
    <3>2. requests' = [Abort(Replaces(class)) EXCEPT ![r] = new] /\ new.class = "test"
      BY <2>3, <3>1 DEF StartRequest
    <3>. HIDE DEF new
    <3>3. q # r
      BY <3>2 DEF SessionClasses, Abort
    <3>4. requests'[q] = Abort(Replaces(class))[q]
      BY <3>2, <3>3 DEF Abort
    <3>5. requests'[q].phase = requests[q].phase /\ requests'[q].class = requests[q].class
      BY <2>2, <3>4 DEF Abort, Request
    <3>. QED
      BY <3>5
  <2>4. ASSUME NEW outcome \in Outcomes, SettleRequest(r, outcome)
        PROVE  requests[q].phase = "running" /\ requests[q].class \in SessionClasses
    <3> DEFINE result == ResultOf(r, outcome)
    <3>1. requests' = [requests EXCEPT ![r] = [@ EXCEPT !.phase = "settled", !.result = result]]
      BY <2>4 DEF SettleRequest
    <3>. HIDE DEF result
    <3>2. requests[r] \in Request
      BY <2>2
    <3>3. q # r
      BY <2>2, <3>1, <3>2 DEF Request
    <3>. QED
      BY <2>2, <3>1, <3>3
  <2>. QED
    BY <2>1, <2>3, <2>4 DEF RequestStep
<1>3. StreamInv' /\ UsedIsSettled' /\ BarrierServes'
  BY <1>1
  DEF BarrierInv, StreamInv, UsedIsSettled, BarrierServes, InOrder, ConsumerIsCurrent,
      WorkIsStopped, BarrierHolds, ChainHolds, FailureHasCause, LateIsUncovered,
      ClosedIsReleased, StopFailed, IsPending, IsWorking, IsReleased, IsLeft, Holds, Follows,
      Leads, HasCause, IsLate, Unconfirmed, ConnectionOf, IsCurrentConsumption,
      IsCurrentConnection
<1>4. NewestWaits'
  <2>1. CASE activeConnection = None
    BY <1>1, <1>2, <2>1 DEF BarrierInv, NewestWaits
  <2>2. CASE activeConnection # None
    BY <1>1, <2>2, NoneWaits DEF NewestWaits
  <2>. QED
    BY <2>1, <2>2
<1>. QED
  BY <1>2, <1>3, <1>4 DEF BarrierInv

\* A call of connect, disconnect or shutdown stops the stream and waits for
\* the barrier that leaves, or finds none.
LEMMA BarrierCall ==
    ASSUME TypeOK, TypeOK', OwnershipInv, BarrierInv, NEW g \in Generations, generation' = g,
           ops[g].phase = "none", activeConnection' = None,
           UNCHANGED connections, StopConsumptionEffect, CloseTracked,
           requests' = Abort(Running(SessionClasses)) \/ requests' = Abort(Running(Classes)),
           ops'[g].phase \in {"cleanup", "opening", "finishing"},
           ops'[g].closes = TrackedCloses, ops'[g].stop = StopBarrier,
           ops'[g].phase = "opening" => StopBarrier = None,
           ops'[g].phase = "finishing" => Running(SessionClasses) \subseteq ops'[g].reqs,
           \A h \in Generations \ {g} : ops'[h] = ops[h]
    PROVE  BarrierInv'
<1>1. /\ consumer' = None /\ consumptionStop' = StopBarrier
      /\ consumer # None => consumptions'[consumer] = Stopped(consumptions[consumer])
      /\ \A j \in ConsumptionIds : j # consumer => consumptions'[j] = consumptions[j]
      /\ None \notin ConsumptionIds
  BY NoneIsNoGeneration DEF StopConsumptionEffect, AfterStop, TypeOK, ConsumptionTypeOK
<1>2. ConsumptionTypeOK'
  BY DEF TypeOK
<1>3. /\ StreamInv'
      /\ \A j \in ConsumptionIds :
            /\ consumptions'[j].connection = consumptions[j].connection
            /\ consumptions'[j].phase = "unused" <=> consumptions[j].phase = "unused"
  BY <1>1, <1>2, StopAndStart DEF BarrierInv
<1>5. UsedIsSettled' /\ BarrierServes'
  BY <1>3 DEF BarrierInv, UsedIsSettled, BarrierServes
<1>6. Running(SessionClasses)' \subseteq Running(SessionClasses)
  BY DEF Running, Abort, TypeOK, RequestsTypeOK, Request
<1>7. \A h \in Generations : closures'[h] # "none" => h \in TrackedCloses
  BY DEF CloseTracked, TrackedCloses
<1>8. NewestWaits'
  BY <1>1, <1>6, <1>7 DEF NewestWaits
<1>. QED
  BY <1>3, <1>5, <1>8 DEF BarrierInv

\* A step of an attempt or an end.  Only the newest may publish or install,
\* nobody consumes meanwhile, and it opens and installs past the barrier.
LEMMA BarrierOp ==
    ASSUME TypeOK, OwnershipInv, BarrierInv, NEW g \in Generations,
           ops[g].phase \notin {"none", "settled"},
           UNCHANGED <<generation, shuttingDown, consumptionVars, requests, closures>>,
           \A h \in Generations \ {g} : connections'[h] = connections[h],
           generation # g => UNCHANGED <<snapshot, activeConnection>>,
           activeConnection' = activeConnection \/ consumptionStop = None,
           NEW op, ops' = [ops EXCEPT ![g] = op],
           \/ op.phase = "settled"
           \/ op.phase \in {"opening", "installing", "late", "cancelled"}
              /\ (generation = g => consumptionStop = None)
           \/ op.phase = "cleanup" /\ ops[g].phase = "cleanup" /\ op.stop = ops[g].stop
    PROVE  BarrierInv'
<1>1. ops'[g] = op /\ \A h \in Generations \ {g} : ops'[h] = ops[h]
  BY DEF TypeOK
<1>2. UNCHANGED <<consumer, consumptionStop, consumptions>>
  BY DEF consumptionVars
<1>3. generation = g => activeConnection = None
  BY DEF OwnershipInv, ServingIsCurrent, AttemptOwnsConnection
<1>4. consumer # None => generation # g
  BY <1>3
  DEF BarrierInv, StreamInv, ConsumerIsCurrent, IsCurrentConsumption, IsCurrentConnection,
      OwnershipInv, ServingIsCurrent
<1>5. StreamInv'
  BY <1>4, StreamsRestByAttempt DEF BarrierInv
<1>6. UsedIsSettled'
  BY <1>1, <1>2 DEF BarrierInv, UsedIsSettled
<1>7. BarrierServes'
  BY <1>2 DEF BarrierInv, BarrierServes
<1>8. NewestWaits'
  <2> SUFFICES ASSUME NEW h \in Generations, h = generation
      PROVE  /\ ops'[h].phase \in {"cleanup", "finishing"} =>
                   consumptionStop \in {None, ops'[h].stop}
             /\ ops'[h].phase \in {"opening", "installing", "late", "cancelled"} =>
                   consumptionStop = None
             /\ ops'[h].phase = "finishing" =>
                   /\ \A c \in Generations :
                         closures[c] # "none" => c \in ops'[h].closes \/ ops'[h].closeFailed
                   /\ Running(SessionClasses) \subseteq ops'[h].reqs
    BY <1>2 DEF NewestWaits, Running
  <2>1. CASE h = g
    BY <1>1, <2>1 DEF BarrierInv, NewestWaits
  <2>2. CASE h # g
    BY <1>1, <2>2 DEF BarrierInv, NewestWaits
  <2>. QED
    BY <2>1, <2>2
<1>. QED
  BY <1>5, <1>6, <1>7, <1>8 DEF BarrierInv

LEMMA BarrierTrackedClose ==
    ASSUME TypeOK, OwnershipInv, BarrierInv, NEW c \in Generations, NEW failed \in BOOLEAN,
           TrackedConnectionCloses(c, failed)
    PROVE  BarrierInv'
<1>1. /\ UNCHANGED <<generation, shuttingDown, snapshot, activeConnection, consumer, consumptions,
                     requests>>
      /\ closures'[c] = ClosureAfter(failed)
      /\ \A h \in Generations \ {c} : closures'[h] = closures[h]
      /\ connections' = IF failed THEN connections ELSE [connections EXCEPT ![c] = "closed"]
      /\ consumptionStop' = IF failed THEN consumptionStop ELSE BarrierAfterClose(c)
  BY DEF TrackedConnectionCloses, TypeOK
<1>2. \A g \in Generations :
         /\ ops'[g].phase = ops[g].phase /\ ops'[g].stop = ops[g].stop
         /\ ops'[g].reqs = ops[g].reqs
         /\ \/ ops'[g].closes = ops[g].closes /\ ops'[g].closeFailed = ops[g].closeFailed
               /\ c \notin ops[g].closes
            \/ ops'[g].closes = ops[g].closes \ {c}
               /\ (ops'[g].closeFailed <=> (ops[g].closeFailed \/ failed))
  <2> SUFFICES ASSUME NEW g \in Generations
      PROVE
         /\ ops'[g].phase = ops[g].phase /\ ops'[g].stop = ops[g].stop
         /\ ops'[g].reqs = ops[g].reqs
         /\ \/ ops'[g].closes = ops[g].closes /\ ops'[g].closeFailed = ops[g].closeFailed
               /\ c \notin ops[g].closes
            \/ ops'[g].closes = ops[g].closes \ {c}
               /\ (ops'[g].closeFailed <=> (ops[g].closeFailed \/ failed))
    OBVIOUS
  <2>1. ops'[g] = IF c \in ops[g].closes
                  THEN [ops[g] EXCEPT !.closes = @ \ {c}, !.closeFailed = @ \/ failed]
                  ELSE ops[g]
    BY DEF TrackedConnectionCloses
  <2>2. ops[g] \in Op
    BY DEF TypeOK
  <2>3. CASE c \in ops[g].closes
    <3>1. ops'[g] = [ops[g] EXCEPT !.closes = ops[g].closes \ {c},
                                   !.closeFailed = ops[g].closeFailed \/ failed]
      BY <2>1, <2>3
    <3>. QED
      BY <2>2, <3>1 DEF Op
  <2>4. CASE c \notin ops[g].closes
    BY <2>1, <2>4
  <2>. QED
    BY <2>3, <2>4
<1>3. StreamInv'
  <2>1. CASE failed
    <3>1. /\ UNCHANGED <<connections, consumptionStop>>
          /\ \A j \in ConsumptionIds : Unconfirmed(j)' => Unconfirmed(j)
          /\ ClosedIsReleased'
      BY <1>1, <2>1
      DEF Unconfirmed, ConnectionOf, BarrierInv, StreamInv, ClosedIsReleased, StopFailed
    <3>. QED
      BY <1>1, <3>1, StreamsRest DEF BarrierInv
  <2>2. CASE ~failed
    BY <1>1, <2>2, StreamsRestByClose DEF BarrierInv
  <2>. QED
    BY <2>1, <2>2
<1>4. UsedIsSettled'
  BY <1>1, <1>2 DEF BarrierInv, UsedIsSettled
<1>5. consumptionStop' \in {consumptionStop, None}
  BY <1>1 DEF BarrierAfterClose
<1>6. BarrierServes'
  BY <1>1, <1>5 DEF BarrierInv, BarrierServes
<1>7. NewestWaits'
  <2> SUFFICES ASSUME NEW g \in Generations, g = generation
      PROVE  /\ ops'[g].phase \in {"cleanup", "finishing"} =>
                   consumptionStop' \in {None, ops'[g].stop}
             /\ ops'[g].phase \in {"opening", "installing", "late", "cancelled"} =>
                   consumptionStop' = None
             /\ ops'[g].phase = "finishing" =>
                   /\ \A h \in Generations :
                         closures'[h] # "none" => h \in ops'[g].closes \/ ops'[g].closeFailed
                   /\ Running(SessionClasses) \subseteq ops'[g].reqs
    BY <1>1 DEF NewestWaits, Running
  <2>1. /\ ops[g].phase \in {"cleanup", "finishing"} => consumptionStop \in {None, ops[g].stop}
        /\ ops[g].phase \in {"opening", "installing", "late", "cancelled"} =>
              consumptionStop = None
        /\ ops[g].phase = "finishing" =>
              /\ \A h \in Generations :
                    closures[h] # "none" => h \in ops[g].closes \/ ops[g].closeFailed
              /\ Running(SessionClasses) \subseteq ops[g].reqs
    BY DEF BarrierInv, NewestWaits
  <2>2. ASSUME ops[g].phase = "finishing", NEW h \in Generations, closures'[h] # "none"
        PROVE  h \in ops'[g].closes \/ ops'[g].closeFailed
    <3>1. CASE h # c
      BY <1>1, <1>2, <2>1, <2>2, <3>1
    <3>2. CASE h = c
      <4>1. failed /\ closures[h] # "none"
        BY <1>1, <2>2, <3>2 DEF ClosureAfter, TrackedConnectionCloses
      <4>. QED
        BY <1>2, <2>1, <2>2, <3>2, <4>1
    <3>. QED
      BY <3>1, <3>2
  <2>. QED
    BY <1>2, <1>5, <2>1, <2>2
<1>. QED
  BY <1>3, <1>4, <1>6, <1>7 DEF BarrierInv

LEMMA BarrierLifecycle ==
    ASSUME TypeOK, OwnershipInv, BarrierInv, NEW g \in Generations, LifecycleStep(g)
    PROVE  BarrierInv'
<1>1. \A op \in Op : \A result : Settled(op, result).phase = "settled"
  BY DEF Settled, NoOp
<1>2. ASSUME FailAttempt(g), ops[g].phase \notin {"none", "settled"},
             \A h \in Generations \ {g} : connections'[h] = connections[h]
      PROVE  BarrierInv'
  <2> DEFINE op == Settled(ops[g], IF IsCurrent(g) THEN "failed" ELSE "superseded")
  <2>1. op.phase = "settled" /\ ops' = [ops EXCEPT ![g] = op]
    BY <1>1, <1>2 DEF FailAttempt, SettleAttempt, TypeOK
  <2>. HIDE DEF op
  <2>. QED
    BY <1>2, <2>1, BarrierOp DEF FailAttempt, SettleAttempt, IsCurrent
<1>3. CASE CallerAborts(g)
  <2> DEFINE op == [ops[g] EXCEPT !.callerAborted = TRUE]
  <2>1. op.phase = ops[g].phase /\ op.stop = ops[g].stop /\ ops' = [ops EXCEPT ![g] = op]
    BY <1>3 DEF CallerAborts, TypeOK, Op
  <2>2. ops[g].phase = "opening" => (generation = g => consumptionStop = None)
    BY DEF BarrierInv, NewestWaits
  <2>. HIDE DEF op
  <2>. QED
    BY <1>3, <2>1, <2>2, BarrierOp DEF CallerAborts, fieldVars
<1>4. ASSUME NEW failed, ops[g].phase = "cleanup", LeaveCleanup(g, failed),
             failed \/ (~StopPending(ops[g].stop) /\ ~StopFailed(ops[g].stop))
      PROVE  BarrierInv'
  <2>1. CASE FailAttempt(g) /\ UNCHANGED connections
    BY <1>2, <1>4, <2>1
  <2>2. CASE ~(FailAttempt(g) /\ UNCHANGED connections)
    <3> DEFINE op == [NoOp EXCEPT !.kind = "connect", !.phase = "opening"]
    <3>1. /\ ~failed /\ ops' = [ops EXCEPT ![g] = op]
          /\ UNCHANGED <<fieldVars, consumptionVars, requests, closures>>
      BY <1>4, <2>2 DEF LeaveCleanup
    <3>2. op.phase = "opening"
      BY DEF NoOp
    <3>3. generation = g => consumptionStop = None
      BY <1>4, <3>1
      DEF BarrierInv, NewestWaits, StreamInv, BarrierHolds, StopPending, StopFailed
    <3>. HIDE DEF op
    <3>. QED
      BY <1>4, <3>1, <3>2, <3>3, BarrierOp DEF fieldVars
  <2>. QED
    BY <2>1, <2>2
<1>5. CASE CleanupSettles(g)
  BY <1>4, <1>5 DEF CleanupSettles, Outstanding, CleanupFailed
<1>6. CASE CleanupExpires(g)
  BY <1>4, <1>6 DEF CleanupExpires
<1>7. CASE OpenFails(g)
  BY <1>2, <1>7 DEF OpenFails
<1>8. CASE OpenSucceeds(g)
  <2> DEFINE phase == IF ~IsCurrent(g) THEN "late"
                      ELSE IF ops[g].callerAborted THEN "cancelled" ELSE "installing"
             op == [ops[g] EXCEPT !.phase = phase]
  <2>1. op.phase \in {"installing", "late", "cancelled"} /\ ops' = [ops EXCEPT ![g] = op]
    BY <1>8 DEF OpenSucceeds, TypeOK, Op
  <2>2. /\ ops[g].phase = "opening" /\ (generation = g => consumptionStop = None)
        /\ \A h \in Generations \ {g} : connections'[h] = connections[h]
    BY <1>8 DEF OpenSucceeds, BarrierInv, NewestWaits, TypeOK, FieldsTypeOK
  <2>3. UNCHANGED <<generation, shuttingDown, snapshot, activeConnection, consumptionVars,
                    requests, closures>>
    BY <1>8 DEF OpenSucceeds
  <2>. HIDE DEF op
  <2>. QED
    BY <2>1, <2>2, <2>3, BarrierOp
<1>9. ASSUME NEW failed \in BOOLEAN, LateConnectionCloses(g, failed)
      PROVE  BarrierInv'
  <2> DEFINE op == Settled(ops[g], IF failed THEN "dirty" ELSE "superseded")
  <2>1. op.phase = "settled" /\ ops' = [ops EXCEPT ![g] = op]
    BY <1>1, <1>9 DEF LateConnectionCloses, SettleAttempt, TypeOK
  <2>2. /\ ops[g].phase = "late"
        /\ \A h \in Generations \ {g} : connections'[h] = connections[h]
    BY <1>9 DEF LateConnectionCloses, TypeOK, FieldsTypeOK
  <2>. HIDE DEF op
  <2>. QED
    BY <1>9, <2>1, <2>2, BarrierOp DEF LateConnectionCloses, SettleAttempt
<1>10. ASSUME NEW failed \in BOOLEAN, CancelledConnectionCloses(g, failed)
       PROVE  BarrierInv'
  <2>1. \A h \in Generations \ {g} : connections'[h] = connections[h]
    BY <1>10 DEF CancelledConnectionCloses, TypeOK, FieldsTypeOK
  <2>. QED
    BY <1>2, <1>10, <2>1 DEF CancelledConnectionCloses
<1>11. ASSUME NEW failed \in BOOLEAN, TrackedConnectionCloses(g, failed)
       PROVE  BarrierInv'
  BY <1>11, BarrierTrackedClose
<1>12. CASE Install(g)
  <2> DEFINE op == Settled(ops[g], "ok")
  <2>1. op.phase = "settled" /\ ops' = [ops EXCEPT ![g] = op]
    BY <1>1, <1>12 DEF Install, TypeOK
  <2>2. generation = g /\ consumptionStop = None
    BY <1>12 DEF Install, OwnershipInv, AttemptOwnsConnection, IsCurrent, BarrierInv, NewestWaits
  <2>. HIDE DEF op
  <2>. QED
    BY <1>12, <2>1, <2>2, BarrierOp DEF Install
<1>13. ASSUME NEW failed, ops[g].phase = "finishing", FinishEnd(g, failed)
       PROVE  BarrierInv'
  <2> DEFINE op == Settled(ops[g], IF failed THEN "failed" ELSE "ok")
  <2>1. op.phase = "settled" /\ ops' = [ops EXCEPT ![g] = op]
    BY <1>1, <1>13 DEF FinishEnd, TypeOK
  <2>. HIDE DEF op
  <2>. QED
    BY <1>13, <2>1, BarrierOp DEF FinishEnd
<1>14. CASE EndSettles(g) \/ EndExpires(g)
  BY <1>13, <1>14 DEF EndSettles, EndExpires
<1>. QED
  BY <1>3, <1>5, <1>6, <1>7, <1>8, <1>9, <1>10, <1>11, <1>12, <1>14 DEF LifecycleStep

LEMMA BarrierStep ==
    ASSUME TypeOK, TypeOK', OwnershipInv, BarrierInv, [Next]_vars
    PROVE  BarrierInv'
<1>1. CASE UNCHANGED vars
  BY <1>1
  DEF vars, fieldVars, consumptionVars, lifecycleVars, BarrierInv, StreamInv, UsedIsSettled,
      BarrierServes, NewestWaits, InOrder, ConsumerIsCurrent, WorkIsStopped, BarrierHolds,
      ChainHolds, FailureHasCause, LateIsUncovered, ClosedIsReleased, StopFailed, IsPending,
      IsWorking, IsReleased, IsLeft, Holds, Follows, Leads, HasCause, IsLate, Unconfirmed,
      ConnectionOf, IsCurrentConsumption, IsCurrentConnection, Running
<1>2. \A g \in Generations : g = generation + 1 => ops[g].phase = "none"
  BY DEF OwnershipInv, AttemptOwnsConnection, TypeOK, FieldsTypeOK, Generations
<1>3. CASE Connect
  <2> DEFINE g == generation + 1
             cleansUp == \/ HasConsumptionToStop
                         \/ TrackedCloses # {}
                         \/ Running({"latency"}) # {}
             op == [NoOp EXCEPT !.kind = "connect",
                                !.phase = IF cleansUp THEN "cleanup" ELSE "opening",
                                !.closes = TrackedCloses,
                                !.stop = StopBarrier,
                                !.reqs = Running({"latency"})]
  <2>1. /\ g \in Generations /\ generation' = g /\ activeConnection' = None
        /\ UNCHANGED connections /\ StopConsumptionEffect /\ CloseTracked
        /\ requests' = Abort(Running(SessionClasses)) /\ ops' = [ops EXCEPT ![g] = op]
    BY <1>3 DEF Connect
  <2>2. /\ op.phase = (IF cleansUp THEN "cleanup" ELSE "opening")
        /\ op.closes = TrackedCloses /\ op.stop = StopBarrier
    BY DEF NoOp
  <2>3. op.phase = "opening" => StopBarrier = None
    BY <2>2 DEF HasConsumptionToStop, StopBarrier
  <2>4. op.phase \in {"cleanup", "opening"} /\ ops[g].phase = "none"
    BY <1>2, <2>1, <2>2
  <2>. HIDE DEF op, g
  <2>5. ops'[g] = op /\ \A h \in Generations \ {g} : ops'[h] = ops[h]
    BY <2>1 DEF TypeOK
  <2>. QED
    BY <2>1, <2>2, <2>3, <2>4, <2>5, BarrierCall
<1>4. ASSUME NEW kind \in {"disconnect", "shutdown"}, End(kind)
      PROVE  BarrierInv'
  <2> DEFINE g == generation + 1
             awaited == IF kind = "shutdown" THEN Classes ELSE SessionClasses
             op == [NoOp EXCEPT !.kind = kind,
                                !.phase = "finishing",
                                !.closes = TrackedCloses,
                                !.stop = StopBarrier,
                                !.attempt = connectionAttempt,
                                !.reqs = Running(awaited)]
  <2>1. /\ g \in Generations /\ generation' = g /\ activeConnection' = None
        /\ UNCHANGED connections /\ StopConsumptionEffect /\ CloseTracked
        /\ requests' = Abort(Running(awaited)) /\ ops' = [ops EXCEPT ![g] = op]
    BY <1>4 DEF End
  <2>2. /\ op.phase = "finishing" /\ op.closes = TrackedCloses /\ op.stop = StopBarrier
        /\ op.reqs = Running(awaited)
    BY DEF NoOp
  <2>3. Running(SessionClasses) \subseteq op.reqs
    BY <2>2 DEF Running, SessionClasses, Classes
  <2>4. /\ requests' = Abort(Running(SessionClasses)) \/ requests' = Abort(Running(Classes))
        /\ ops[g].phase = "none"
    BY <1>2, <2>1
  <2>. HIDE DEF op, awaited, g
  <2>5. ops'[g] = op /\ \A h \in Generations \ {g} : ops'[h] = ops[h]
    BY <2>1 DEF TypeOK
  <2>. QED
    BY <2>1, <2>2, <2>3, <2>4, <2>5, BarrierCall
<1>. QED
  BY <1>1, <1>3, <1>4, BarrierConsumption, BarrierRequest, BarrierLifecycle
  DEF Next, Disconnect, Shutdown

THEOREM BarrierInvariant ==
    ASSUME ~CallsDuringInstall
    PROVE  Spec => []BarrierInv
<1>1. Init => BarrierInv
  BY BarrierInit
<1>2. TypeOK /\ TypeOK' /\ OwnershipInv /\ BarrierInv /\ [Next]_vars => BarrierInv'
  BY BarrierStep
<1>. QED
  BY <1>1, <1>2, SessionTyped, OwnershipInvariant, PTL DEF Spec

\* One stream at a time, a barrier for every stream that is left, and no
\* failed barrier without one (the three conjuncts of StreamsAreBarred): in
\* every order of starts, stops, connects, late opens and refused closes.
THEOREM StreamsStayBarred ==
    ASSUME ~CallsDuringInstall
    PROVE  Spec => []StreamsAreBarred
<1>1. ASSUME TypeOK, BarrierInv PROVE StreamsAreBarred
  <2>. USE <1>1 DEF BarrierInv, StreamInv
  <2>1. ExclusiveStream
    <3> SUFFICES ASSUME NEW k \in ConsumptionIds, NEW j \in ConsumptionIds, j < k,
                        consumptions[k].phase \in {"opening", "streaming"}
                 PROVE  ~InFlight(j) /\ ~Unconfirmed(j)
      BY DEF ExclusiveStream
    <3>1. IsReleased(j)
      BY BoundsAssumption DEF WorkIsStopped, IsWorking, ConsumptionIds
    <3>. QED
      BY <3>1 DEF IsReleased, InFlight
  <2>2. StrayStreamIsBarred
    BY DEF StrayStreamIsBarred, WorkIsStopped, IsWorking, InFlight, BarrierHolds, IsLeft, Holds
  <2>3. BarrierHasReason
    <3> SUFFICES ASSUME StopFailed(consumptionStop)
                 PROVE  \E k \in ConsumptionIds : Unconfirmed(k)
      BY DEF BarrierHasReason
    <3>1. HasCause(consumptionStop)
      BY DEF StopFailed, FailureHasCause, TypeOK, ConsumptionTypeOK
    <3>. QED
      BY <3>1 DEF HasCause, ClosedIsReleased, Unconfirmed, ConnectionOf
  <2>. QED
    BY <2>1, <2>2, <2>3 DEF StreamsAreBarred
<1>. QED
  BY <1>1, SessionTyped, BarrierInvariant, PTL

---------------------------------------------------------------------------
(* "disconnected".                                                         *)

QuietInv ==
    snapshot = "disconnected" =>
        /\ \A c \in Generations : closures[c] = "none"
        /\ consumptionStop = None
        /\ Running(SessionClasses) = {}

LEMMA QuietStep ==
    ASSUME TypeOK, OwnershipInv, BarrierInv, QuietInv, [Next]_vars
    PROVE  QuietInv'
<1> SUFFICES ASSUME snapshot' = "disconnected"
             PROVE  /\ \A c \in Generations : closures'[c] = "none"
                    /\ consumptionStop' = None
                    /\ Running(SessionClasses)' = {}
  BY DEF QuietInv
<1>1. ASSUME snapshot = "disconnected"
      PROVE  /\ \A c \in Generations : closures[c] = "none"
             /\ consumptionStop = None /\ Running(SessionClasses) = {}
             /\ activeConnection = None /\ consumer = None
  BY <1>1
  DEF QuietInv, OwnershipInv, ServingIsCurrent, BarrierInv, StreamInv, ConsumerIsCurrent,
      IsCurrentConsumption, IsCurrentConnection
<1>2. CASE UNCHANGED vars
  BY <1>1, <1>2 DEF vars, fieldVars, consumptionVars, lifecycleVars, Running
<1>3. ~Connect /\ ~Disconnect /\ ~Shutdown
  BY DEF Connect, Disconnect, Shutdown, End
<1>4. CASE ConsumptionNext
  <2>1. UNCHANGED <<snapshot, closures, requests>>
    BY <1>4 DEF ConsumptionNext, fieldVars, lifecycleVars
  <2>2. consumptionStop' = None
    <3>1. ASSUME NEW k \in ConsumptionIds, StartConsumption(k) PROVE consumptionStop' = None
      BY <1>1, <2>1, <3>1 DEF StartConsumption, StopConsumptionEffect, StopBarrier
    <3>2. ASSUME NEW k \in ConsumptionIds, ConsumptionStep(k), ~StartConsumption(k)
          PROVE  consumptionStop' = None
      BY <1>1, <2>1, <3>2, ConsumptionFrame, NoneIsNoGeneration DEF IsCurrentConsumption
    <3>. QED
      BY <1>1, <1>4, <2>1, <3>1, <3>2 DEF ConsumptionNext, StopConsumption
  <2>. QED
    BY <1>1, <2>1, <2>2 DEF Running
<1>5. CASE RequestNext
  <2>1. UNCHANGED <<snapshot, closures, consumptionStop>>
    BY <1>5 DEF RequestNext, fieldVars, consumptionVars, lifecycleVars
  <2>. QED
    BY <1>1, <1>5, <2>1, BarrierRequest
<1>6. ASSUME NEW g \in Generations, LifecycleStep(g)
      PROVE  /\ \A c \in Generations : closures'[c] = "none"
             /\ consumptionStop' = None
             /\ Running(SessionClasses)' = {}
  <2>1. ASSUME UNCHANGED <<closures, consumptionStop, requests>>, snapshot' = snapshot
        PROVE  /\ \A c \in Generations : closures'[c] = "none"
               /\ consumptionStop' = None
               /\ Running(SessionClasses)' = {}
    BY <1>1, <2>1 DEF Running
  <2>2. ASSUME FailAttempt(g)
        PROVE  UNCHANGED <<closures, consumptionStop, requests>> /\ snapshot' = snapshot
    BY <2>2 DEF FailAttempt, SettleAttempt, consumptionVars
  <2>3. CASE CallerAborts(g) \/ CleanupSettles(g) \/ CleanupExpires(g) \/ OpenFails(g)
             \/ OpenSucceeds(g)
    BY <2>1, <2>2, <2>3
    DEF CallerAborts, CleanupSettles, CleanupExpires, LeaveCleanup, OpenFails, OpenSucceeds,
        fieldVars, consumptionVars
  <2>4. ASSUME NEW failed \in BOOLEAN,
               LateConnectionCloses(g, failed) \/ CancelledConnectionCloses(g, failed)
        PROVE  UNCHANGED <<closures, consumptionStop, requests>> /\ snapshot' = snapshot
    BY <2>2, <2>4
    DEF LateConnectionCloses, CancelledConnectionCloses, SettleAttempt, consumptionVars
  <2>5. ASSUME NEW failed \in BOOLEAN PROVE ~TrackedConnectionCloses(g, failed)
    BY <1>1 DEF TrackedConnectionCloses
  <2>6. ~Install(g)
    BY DEF Install
  <2>7. CASE EndExpires(g)
    BY <2>1, <2>7 DEF EndExpires, FinishEnd, consumptionVars
  <2>8. CASE EndSettles(g)
    <3>1. UNCHANGED <<closures, consumptionStop, requests>>
      BY <2>8 DEF EndSettles, FinishEnd, consumptionVars
    <3>2. CASE generation = g
      <4>1. ~Outstanding(g) /\ ~CleanupFailed(g) /\ ops[g].phase = "finishing"
        BY <2>8, <3>2 DEF EndSettles, FinishEnd
      <4>2. consumptionStop = None
        BY <3>2, <4>1
        DEF Outstanding, CleanupFailed, StopPending, StopFailed, BarrierInv, StreamInv,
            NewestWaits, BarrierHolds
      <4>3. Running(SessionClasses) = {}
        BY <3>2, <4>1 DEF Outstanding, BarrierInv, NewestWaits, Running
      <4>4. \A c \in Generations : closures[c] = "none"
        BY <3>2, <4>1 DEF Outstanding, CleanupFailed, BarrierInv, NewestWaits
      <4>. QED
        BY <3>1, <4>2, <4>3, <4>4 DEF Running
    <3>3. CASE generation # g
      BY <2>1, <2>8, <3>1, <3>3 DEF EndSettles, FinishEnd
    <3>. QED
      BY <3>2, <3>3
  <2>. QED
    BY <1>6, <2>1, <2>3, <2>4, <2>5, <2>6, <2>7, <2>8 DEF LifecycleStep
<1>. QED
  BY <1>2, <1>3, <1>4, <1>5, <1>6 DEF Next

\* "disconnected" is published only when nothing is left running, closing or
\* unconfirmed, and nothing starts until the next connect (completeDisconnect
\* and the fences of startConsumption and of the requests).
THEOREM DisconnectedStaysQuiet ==
    ASSUME ~CallsDuringInstall
    PROVE  Spec => []DisconnectedIsQuiet
<1>1. Init => QuietInv
  BY DEF Init, FieldsInit, ConsumptionInit, RequestsInit, NoRequest, QuietInv, Running
<1>2. TypeOK /\ OwnershipInv /\ BarrierInv /\ QuietInv /\ [Next]_vars => QuietInv'
  BY QuietStep
<1>3. TypeOK /\ OwnershipInv /\ BarrierInv /\ QuietInv => DisconnectedIsQuiet
  <2> SUFFICES ASSUME TypeOK, OwnershipInv, BarrierInv, QuietInv, snapshot = "disconnected"
               PROVE  /\ \A c \in Generations : closures[c] = "none"
                      /\ consumer = None /\ consumptionStop = None
                      /\ \A k \in ConsumptionIds : ~InFlight(k) /\ ~Unconfirmed(k)
                      /\ Running(Classes \ {"test"}) = {}
    BY DEF DisconnectedIsQuiet
  <2>1. /\ \A c \in Generations : closures[c] = "none"
        /\ consumptionStop = None /\ Running(SessionClasses) = {}
    BY DEF QuietInv
  <2>2. consumer = None
    BY DEF BarrierInv, StreamInv, ConsumerIsCurrent, IsCurrentConsumption, IsCurrentConnection
  <2>3. \A k \in ConsumptionIds : ~InFlight(k) /\ ~Unconfirmed(k)
    BY <2>1, <2>2, NothingIsLeft, NoneIsNoGeneration
    DEF InFlight, IsLeft, IsReleased, BarrierInv
  <2>4. Classes \ {"test"} = SessionClasses
    BY DEF Classes, SessionClasses
  <2>. QED
    BY <2>1, <2>2, <2>3, <2>4
<1>. QED
  BY <1>1, <1>2, <1>3, SessionTyped, OwnershipInvariant, BarrierInvariant, PTL DEF Spec

---------------------------------------------------------------------------
(* The fence of the requests.                                              *)

\* Requests are sent in order, a running one has no result, and a read or a
\* probe that a newer one of its class replaced has been aborted.
RequestsInOrder ==
    \A q \in RequestIds :
        /\ requests[q].phase = "unused" => requests[q].class = "test"
        /\ requests[q].phase = "running" => requests[q].result = "none"
        /\ requests[q].phase # "unused" =>
              \A r \in 1 .. q - 1 :
                 /\ requests[r].phase # "unused"
                 /\ (/\ requests[r].phase = "running"
                     /\ requests[r].class \in {"read", "latency"}
                     /\ requests[r].class = requests[q].class) => requests[r].aborted

\* Aborting keeps everything of a request but the mark.
LEMMA AbortFields ==
    ASSUME TypeOK, NEW rs, NEW r \in RequestIds
    PROVE  /\ Abort(rs)[r].phase = requests[r].phase /\ Abort(rs)[r].class = requests[r].class
           /\ Abort(rs)[r].result = requests[r].result
           /\ Abort(rs)[r].connection = requests[r].connection
           /\ Abort(rs)[r].aborted <=> (requests[r].aborted \/ r \in rs)
<1>1. requests[r] \in Request
  BY DEF TypeOK, RequestsTypeOK
<1>2. Abort(rs)[r] = IF r \in rs THEN [requests[r] EXCEPT !.aborted = TRUE] ELSE requests[r]
  BY DEF Abort
<1>. QED
  BY <1>1, <1>2 DEF Request

LEMMA RequestsInOrderStep ==
    ASSUME TypeOK, RequestsInOrder, [Next]_vars
    PROVE  RequestsInOrder'
<1>1. \A q \in RequestIds : 1 .. q - 1 \subseteq RequestIds
  BY BoundsAssumption DEF RequestIds
<1>2. ASSUME NEW rs, requests' = Abort(rs) PROVE RequestsInOrder'
  <2>1. \A r \in RequestIds :
           /\ requests'[r].phase = requests[r].phase /\ requests'[r].class = requests[r].class
           /\ requests'[r].result = requests[r].result
           /\ requests[r].aborted => requests'[r].aborted
    BY <1>2, AbortFields
  <2>. QED
    BY <1>1, <2>1 DEF RequestsInOrder
<1>3. CASE UNCHANGED requests
  BY <1>3 DEF RequestsInOrder
<1>4. ASSUME NEW r \in RequestIds, NEW class \in Classes, StartRequest(r, class)
      PROVE  RequestsInOrder'
  <2> DEFINE new == [class |-> class, phase |-> "running",
                     connection |-> IF class = "test" THEN None ELSE activeConnection,
                     generation |-> IF class = "test" THEN 0 ELSE generation,
                     aborted |-> FALSE, result |-> "none"]
  <2>1. /\ requests' = [Abort(Replaces(class)) EXCEPT ![r] = new]
        /\ requests[r].phase = "unused"
        /\ \A q \in 1 .. r - 1 : requests[q].phase # "unused"
    BY <1>4 DEF StartRequest
  <2>2. new.phase = "running" /\ new.class = class /\ new.result = "none"
    OBVIOUS
  <2>. HIDE DEF new
  <2>3. /\ requests'[r] = new
        /\ \A q \in RequestIds \ {r} : requests'[q] = Abort(Replaces(class))[q]
    BY <2>1 DEF Abort
  <2>4. \A q \in RequestIds \ {r} :
           /\ requests'[q].phase = requests[q].phase /\ requests'[q].class = requests[q].class
           /\ requests'[q].result = requests[q].result
           /\ requests[q].aborted => requests'[q].aborted
           /\ q \in Replaces(class) => requests'[q].aborted
    BY <2>3, AbortFields
  <2> SUFFICES ASSUME NEW q \in RequestIds
      PROVE
        /\ requests'[q].phase = "unused" => requests'[q].class = "test"
        /\ requests'[q].phase = "running" => requests'[q].result = "none"
        /\ requests'[q].phase # "unused" =>
              \A p \in 1 .. q - 1 :
                 /\ requests'[p].phase # "unused"
                 /\ (/\ requests'[p].phase = "running"
                     /\ requests'[p].class \in {"read", "latency"}
                     /\ requests'[p].class = requests'[q].class) => requests'[p].aborted
    BY DEF RequestsInOrder
  <2>5. CASE q = r
    <3>1. ASSUME NEW p \in 1 .. q - 1, requests[p].phase = "running",
                 requests[p].class \in {"read", "latency"}, requests[p].class = class
          PROVE  p \in Replaces(class)
      BY <1>1, <3>1 DEF Replaces, Running
    <3>. QED
      BY <1>1, <2>1, <2>2, <2>3, <2>4, <2>5, <3>1 DEF RequestIds
  <2>6. CASE q # r
    <3>1. requests[q].phase # "unused" => r \notin 1 .. q - 1
      BY <2>1 DEF RequestsInOrder
    <3>. QED
      BY <1>1, <2>4, <2>6, <3>1 DEF RequestsInOrder
  <2>. QED
    BY <2>5, <2>6
<1>5. ASSUME NEW r \in RequestIds, NEW outcome \in Outcomes, SettleRequest(r, outcome)
      PROVE  RequestsInOrder'
  <2> DEFINE result == ResultOf(r, outcome)
  <2>1. /\ requests' = [requests EXCEPT ![r] = [@ EXCEPT !.phase = "settled", !.result = result]]
        /\ requests[r].phase = "running"
    BY <1>5 DEF SettleRequest
  <2>. HIDE DEF result
  <2>2. requests[r] \in Request /\ requests \in [RequestIds -> Request]
    BY DEF TypeOK, RequestsTypeOK
  <2>3. /\ requests'[r].phase = "settled" /\ requests'[r].class = requests[r].class
        /\ \A q \in RequestIds \ {r} : requests'[q] = requests[q]
    BY <2>1, <2>2 DEF Request
  <2>. QED
    BY <1>1, <2>1, <2>3 DEF RequestsInOrder
<1>6. CASE RequestNext
  BY <1>4, <1>5, <1>6 DEF RequestNext, RequestStep
<1>7. ASSUME NEW g \in Generations, LifecycleStep(g) PROVE UNCHANGED requests
  <2>1. FailAttempt(g) => UNCHANGED requests
    BY DEF FailAttempt, SettleAttempt
  <2>2. ASSUME NEW failed, LeaveCleanup(g, failed) PROVE UNCHANGED requests
    BY <2>1, <2>2 DEF LeaveCleanup
  <2>3. ASSUME NEW failed \in BOOLEAN, LateConnectionCloses(g, failed)
               \/ CancelledConnectionCloses(g, failed) \/ TrackedConnectionCloses(g, failed)
        PROVE  UNCHANGED requests
    BY <2>1, <2>3
    DEF LateConnectionCloses, CancelledConnectionCloses, TrackedConnectionCloses, SettleAttempt
  <2>. QED
    BY <1>7, <2>1, <2>2, <2>3
    DEF LifecycleStep, CallerAborts, CleanupSettles, CleanupExpires, OpenFails, OpenSucceeds,
        Install, EndSettles, EndExpires, FinishEnd
<1>8. CASE UNCHANGED vars \/ ConsumptionNext
  BY <1>3, <1>8 DEF vars, ConsumptionNext
<1>. QED
  BY <1>2, <1>3, <1>6, <1>7, <1>8 DEF Next, Connect, Disconnect, Shutdown, End

\* A read or a probe answers with a value only over the connection that still
\* serves, and only if no newer one of its class was sent (isCurrentAdminRequest
\* after the port's answer, whatever was called in between).
THEOREM ReadsAreFenced == Spec => ReadsStayCurrent
<1>1. Init => RequestsInOrder
  BY DEF Init, RequestsInit, NoRequest, RequestsInOrder
<1>2. TypeOK /\ RequestsInOrder /\ [Next]_vars => RequestsInOrder'
  BY RequestsInOrderStep
<1>3. ASSUME TypeOK, RequestsInOrder, Next, NEW r \in Running({"read", "latency"}),
             requests'[r].result = "value"
      PROVE  /\ requests[r].connection = activeConnection
             /\ \A q \in r + 1 .. MaxReqs :
                   requests[q].phase = "unused" \/ requests[q].class # requests[r].class
  <2>1. /\ r \in RequestIds /\ requests[r].phase = "running" /\ requests[r].result = "none"
        /\ requests[r].class \in {"read", "latency"}
        /\ requests[r] \in Request /\ requests \in [RequestIds -> Request]
    BY <1>3 DEF Running, RequestsInOrder, TypeOK, RequestsTypeOK
  <2>2. ASSUME NEW rs PROVE requests' # Abort(rs)
    BY <1>3, <2>1, AbortFields
  <2>3. requests' # requests
    BY <1>3, <2>1
  <2>4. RequestNext
    <3>1. ASSUME NEW g \in Generations, LifecycleStep(g) PROVE FALSE
      <4>1. ~FailAttempt(g)
        BY <2>3 DEF FailAttempt, SettleAttempt
      <4>2. ASSUME NEW failed PROVE ~LeaveCleanup(g, failed)
        BY <2>3, <4>1 DEF LeaveCleanup
      <4>3. ASSUME NEW failed \in BOOLEAN
            PROVE  /\ ~LateConnectionCloses(g, failed) /\ ~CancelledConnectionCloses(g, failed)
                   /\ ~TrackedConnectionCloses(g, failed)
        BY <2>3, <4>1
        DEF LateConnectionCloses, CancelledConnectionCloses, TrackedConnectionCloses,
            SettleAttempt
      <4>. QED
        BY <2>3, <3>1, <4>1, <4>2, <4>3
        DEF LifecycleStep, CallerAborts, CleanupSettles, CleanupExpires, OpenFails, OpenSucceeds,
            Install, EndSettles, EndExpires, FinishEnd
    <3>. QED
      BY <1>3, <2>2, <2>3, <3>1 DEF Next, Connect, Disconnect, Shutdown, End, ConsumptionNext
  <2>5. PICK p \in RequestIds : RequestStep(p)
    BY <2>4 DEF RequestNext
  <2>6. ASSUME NEW class \in Classes PROVE ~StartRequest(p, class)
    <3> SUFFICES ASSUME StartRequest(p, class) PROVE FALSE
      OBVIOUS
    <3> DEFINE new == [class |-> class, phase |-> "running",
                       connection |-> IF class = "test" THEN None ELSE activeConnection,
                       generation |-> IF class = "test" THEN 0 ELSE generation,
                       aborted |-> FALSE, result |-> "none"]
    <3>1. requests' = [Abort(Replaces(class)) EXCEPT ![p] = new] /\ requests[p].phase = "unused"
      BY DEF StartRequest
    <3>. HIDE DEF new
    <3>2. requests'[r] = Abort(Replaces(class))[r]
      BY <2>1, <3>1 DEF Abort
    <3>. QED
      BY <1>3, <2>1, <3>2, AbortFields
  <2>7. PICK outcome \in Outcomes : SettleRequest(p, outcome)
    BY <2>5, <2>6 DEF RequestStep
  <2> DEFINE result == ResultOf(r, outcome)
  <2>8. p = r /\ result = "value"
    <3>1. requests' = [requests EXCEPT
             ![p] = [@ EXCEPT !.phase = "settled", !.result = ResultOf(p, outcome)]]
      BY <2>7 DEF SettleRequest
    <3>2. p = r
      BY <1>3, <2>1, <3>1
    <3>. HIDE DEF result
    <3>3. requests'[r] = [requests[r] EXCEPT !.phase = "settled", !.result = result]
      BY <2>1, <3>1, <3>2 DEF result
    <3>. QED
      BY <1>3, <2>1, <3>2, <3>3 DEF Request
  <2>9. IsCurrentRequest(r)
    <3>1. ~Superseded(r)
      <4> SUFFICES ASSUME Superseded(r) PROVE FALSE
        OBVIOUS
      <4>1. CASE outcome = "cleanupError"
        BY <2>8, <4>1 DEF ResultOf
      <4>2. CASE outcome # "cleanupError"
        BY <2>8, <4>2 DEF ResultOf
      <4>. QED
        BY <4>1, <4>2
    <3>. QED
      BY <2>1, <3>1 DEF Superseded
  <2>10. requests[r].connection = activeConnection /\ ~requests[r].aborted
    BY <2>9 DEF IsCurrentRequest, IsCurrentConnection
  <2>11. ASSUME NEW q \in r + 1 .. MaxReqs, requests[q].phase # "unused",
                requests[q].class = requests[r].class
         PROVE  FALSE
    <3>1. q \in RequestIds /\ r \in 1 .. q - 1
      BY <2>1, BoundsAssumption DEF RequestIds
    <3>. QED
      BY <1>3, <2>1, <2>10, <2>11, <3>1 DEF RequestsInOrder
  <2>. QED
    BY <2>10, <2>11
<1>4. TypeOK /\ RequestsInOrder /\ [Next]_vars =>
         [\A r \in RequestIds :
             (r \in Running({"read", "latency"}) /\ requests'[r].result = "value") =>
                 /\ requests[r].connection = activeConnection
                 /\ \A q \in r + 1 .. MaxReqs :
                       requests[q].phase = "unused" \/ requests[q].class # requests[r].class]_vars
  BY <1>3
<1>. QED
  BY <1>1, <1>2, <1>4, SessionTyped, PTL DEF Spec, ReadsStayCurrent
===========================================================================
