--------------------------- MODULE EventTransport ---------------------------
(***************************************************************************)
(* EventTransport: publishing. The desktop sends one event at a time over  *)
(* IPC and waits for its acknowledgement; the web host writes one event at *)
(* a time to each event stream and waits for the write and for the drain.  *)
(* A delivery that fails ends its route's subscription and stops the reads *)
(* within the same step, in the middle of whatever was publishing.         *)
(***************************************************************************)
EXTENDS ReadPresentation

CONSTANTS MaxClients      \* the event streams open at once

ASSUME ClientsAssumption == MaxClients \in Nat \ {0}

Clients == 1 .. MaxClients
Desktop == 1              \* the desktop has one delivery

\* A delivery: what it queues, and for an event stream the write under way
\* ("comment" or "event"), whether the socket has asked it to wait, and
\* whether the socket will.
NoClient == [open |-> FALSE, queue |-> EmptyQueue, paused |-> FALSE,
             write |-> "none", blocked |-> FALSE, full |-> FALSE]

\* The route: recovery is the state of the stop that follows a failure.
NoRoute == [transport |-> "desktop", subscribed |-> FALSE, lastSequence |-> 0,
            recovery |-> "none", stop |-> NoStop]

\* A renderer, as far as what it was shown: whether it saw its read begin
\* since it subscribed, how many records came, the last of them, and how the
\* read ended, or what state followed that.
NothingShown == [since |-> 0, read |-> 0, whole |-> FALSE, got |-> 0, last |-> 0, inOrder |-> TRUE,
                 final |-> "none", received |-> 0, dropped |-> 0]
Shown(s, event) ==
    CASE StartsGeneration(event) ->
           [NothingShown EXCEPT !.since = s.since, !.read = event.read, !.whole = event.seq > s.since]
      [] event.kind = "batch" /\ event.read = s.read ->
           [s EXCEPT !.got = @ + Len(event.records),
                     !.last = event.records[Len(event.records)],
                     !.inOrder = @ /\ Head(event.records) > s.last
                                   /\ \A i \in 2 .. Len(event.records) :
                                         event.records[i - 1] < event.records[i]]
      [] event.kind = "state" /\ event.read = s.read /\ (event.state \in Final \/ s.final # "none") ->
           [s EXCEPT !.final = event.state, !.received = event.received,
                     !.dropped = event.dropped]
      [] event.kind \in {"batch", "state"} /\ ~StartsGeneration(event) /\ event.read # s.read ->
           [NothingShown EXCEPT !.since = s.since, !.read = event.read]
      [] OTHER -> s

---------------------------------------------------------------------------
\* endpoint.stopStream, for the recovery of a route
RecoveryWaits(w) == [w EXCEPT !.route.recovery = "pending", !.route.stop = w.facade.stopping]
RecoveryStops(w) == RecoveryWaits(StreamStopped(Interrupted(w)))

\* Mutant: a closed delivery leaves the presentation paused.
DeliveryClosedPaused(w, c) ==
    [w EXCEPT !.clients[c] = NoClient]

\* close of the desktop's delivery
DeliveryClosed(w, c) ==
    LET closed == [w EXCEPT !.clients[c] = NoClient]
    IN IF w.clients[c].paused THEN PresentationPaused(closed, FALSE) ELSE closed

\* fail, and the recovery that it starts: release has nothing left to close.
DeliveryFailed(w) ==
    RecoveryStops([DeliveryClosed(w, Desktop) EXCEPT !.route.subscribed = FALSE])

\* updatePressure: half of a limit pauses, a quarter of all resumes.
PressureUpdated(w) ==
    LET client == w.clients[Desktop]
        events == Len(client.queue.pending) + Len(client.queue.inflight)
        high == \/ 2 * events >= MaxEvents
                \/ 2 * client.queue.bytes >= MaxBytes
                \/ 2 * client.queue.records >= MaxRecords
        low == /\ 4 * events <= MaxEvents
               /\ 4 * client.queue.bytes <= MaxBytes
               /\ 4 * client.queue.records <= MaxRecords
        next == IF client.paused THEN ~low ELSE high
    IN IF next = client.paused THEN w
       ELSE PresentationPaused([w EXCEPT !.clients[Desktop].paused = next], next)

\* flush
DeliveryFlushed(w) ==
    LET q == w.clients[Desktop].queue IN
    IF ~MayBegin(q) THEN w
    ELSE [w EXCEPT !.clients[Desktop].queue = Begun(q),
                   !.toRenderer = Append(@, Lease(Begun(q), FALSE))]

\* enqueue
DeliveryChanged(w) == DeliveryFlushed(PressureUpdated(w))
DeliveryUsed(w) ==
    IF w.clients[Desktop].queue.failure # "none" THEN DeliveryFailed(w) ELSE DeliveryChanged(w)
Delivered(w, event) == DeliveryUsed([w EXCEPT !.clients[Desktop].queue = Enqueued(@, FALSE, event)])

\* Mutant: any acknowledgement completes the lease.
AcknowledgedAny(w, sequence) ==
    LET q == w.clients[Desktop].queue IN
    IF q.inflight = <<>> THEN w
    ELSE DeliveryChanged([w EXCEPT !.clients[Desktop].queue = Completed(q)])

\* acknowledge
Acknowledged(w, sequence) ==
    LET q == w.clients[Desktop].queue IN
    IF q.inflight = <<>> \/ q.inflight[1].event.seq # sequence THEN w
    ELSE DeliveryChanged([w EXCEPT !.clients[Desktop].queue = Completed(q)])

---------------------------------------------------------------------------
\* close of an event stream, closeRouteClient and beginRouteRecovery: the
\* last one takes the reads with it.
StreamClosed(w, c) ==
    LET closed == [w EXCEPT !.clients[c] = NoClient, !.shown[c] = NothingShown] IN
    CASE ~w.clients[c].open -> w
      [] w.clients[c].open /\ w.route.recovery = "none" /\ \A d \in Clients : ~closed.clients[d].open ->
           RecoveryStops(closed)
      [] OTHER -> closed

\* write: the socket takes what it is given, and may ask to wait.
Written(w, c, write) ==
    [w EXCEPT !.clients[c].write = write, !.clients[c].blocked = @ \/ w.clients[c].full]

\* pump: one write at a time.
Pumped(w, c) ==
    LET client == w.clients[c] IN
    IF client.blocked \/ client.write # "none" \/ ~MayBegin(client.queue) THEN w
    ELSE Written([w EXCEPT !.clients[c].queue = Begun(@),
                           !.shown[c] = Shown(@, Lease(Begun(client.queue), TRUE))], c, "event")

\* enqueue
StreamUsed(w, c) == IF w.clients[c].queue.failure # "none" THEN StreamClosed(w, c) ELSE Pumped(w, c)
Streamed(w, c, event) ==
    IF ~w.clients[c].open THEN w
    ELSE StreamUsed([w EXCEPT !.clients[c].queue = Enqueued(@, TRUE, event)], c)

---------------------------------------------------------------------------
\* publish, through the route's subscription
Publish(w, event) ==
    LET told == [w EXCEPT !.facade.sequence = @ + 1]
        numbered == [event EXCEPT !.seq = w.facade.sequence + 1]
        After[c \in 0 .. MaxClients] ==
            IF c = 0 THEN told ELSE Streamed(After[c - 1], c, numbered)
    IN CASE w.route.transport = "web" -> After[MaxClients]
         [] w.route.transport = "desktop" /\ w.route.subscribed ->
              Delivered([told EXCEPT !.route.lastSequence = numbered.seq], numbered)
         [] OTHER -> told

\* An activity, a notification, a connection's state.
Noted(w) == Publish(w, [NoEvent EXCEPT !.kind = "note"])
Metrics(w, r) ==
    Publish(w, [NoEvent EXCEPT !.kind = "metrics", !.read = r, !.state = w.reads[r].state])

\* publishStreamMetrics
SampleScheduled(w, r) == IF w.facade.active = r THEN [w EXCEPT !.reads[r].sample = TRUE] ELSE w
MetricsPublished(w, r) == SampleScheduled(Metrics(w, r), r)

\* emitConsumptionState
StatePublished(w, r, state) ==
    LET read == w.reads[r]
        event == [NoEvent EXCEPT !.kind = "state", !.read = r, !.state = state,
                                 !.received = read.received, !.dropped = read.dropped]
    IN Metrics(Publish([w EXCEPT !.reads[r].state = state], event), r)

\* A turn of flushFacadeMessages. Pressure from the batch before ends it.
BatchPublished(w, r) ==
    LET batch == Batch(w.reads[r])
        left == [w EXCEPT !.reads[r] = Taken(@)]
    IN CASE w.facade.paused \/ w.reads[r].queue = <<>> -> w
         [] ~w.facade.paused /\ w.reads[r].queue # <<>> /\ batch = <<>> -> left
         [] OTHER -> Publish(left, [NoEvent EXCEPT !.kind = "batch", !.read = r, !.records = batch,
                                                   !.dropped = left.reads[r].dropped])

\* flushMessages(consumption). The first batch is measured at once, others a
\* second after the last measurement.
Measured(w, r, due) == IF due THEN MetricsPublished(w, r) ELSE w
Continued(w, r) == IF w.reads[r].queue = <<>> THEN w ELSE Scheduled(w, r)
Flushed(w, r, measured) ==
    LET read == w.reads[r]
        quiet == [w EXCEPT !.reads[r].flush = FALSE]
    IN IF read.queue = <<>> THEN quiet
       ELSE Continued(Measured(BatchPublished(quiet, r), r, ~read.published \/ measured), r)

\* flushMessages(consumption, true)
FlushedWhole(w, r) ==
    LET quiet == [w EXCEPT !.reads[r] = Silenced(@)]
        After[turn \in 0 .. QueueDepth] ==
            IF turn = 0 THEN quiet ELSE BatchPublished(After[turn - 1], r)
    IN [After[QueueDepth] EXCEPT !.reads[r] = Discarded(@)]
=============================================================================
