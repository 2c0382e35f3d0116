----------------------- MODULE EventDeliveryProperties -----------------------
(***************************************************************************)
(* EventDeliveryProperties: what EventDelivery promises.                   *)
(***************************************************************************)
EXTENDS EventDelivery

Entries(q) == q.inflight \o q.pending
Total(q, Cost(_)) == SumOf([i \in 1 .. Len(Entries(q)) |-> Cost(Entries(q)[i].event)])

\* The costs of a queue are those of what waits and of what is being written,
\* through replacement, eviction, trimming and completion, and they stay
\* within the limits.
CostsAddUp ==
    \A c \in Clients :
        LET q == clients[c].queue IN
        clients[c].open =>
            /\ q.bytes = Total(q, EventBytes)
            /\ q.records = Total(q, LAMBDA event : Len(event.records))
            /\ q.recordBytes = Total(q, LAMBDA event : SizeOf(event.records))
            /\ LimitFailure(q) = "none"

\* A renderer that saw a read begin and end was shown its records in the
\* order they came, and every record that it misses is counted in the end
\* it was shown: in the facade's queue, in the batches, in the event
\* stream's queue.
LossIsAccounted ==
    \A c \in Clients :
        LET s == shown[c] IN
        /\ s.inOrder
        /\ s.whole /\ s.final # "none" => s.received = s.got + s.dropped

\* What an open delivery has to send, it sends: events wait only for a write,
\* for an acknowledgement or for the socket.
NothingWaitsUnsent ==
    \A c \in Clients :
        LET client == clients[c] IN
        client.open /\ client.queue.pending # <<>> =>
            client.queue.inflight # <<>> \/ client.write # "none" \/ client.blocked

\* An acknowledgement completes the lease of the event that it is for, though
\* subscriptions end with acknowledgements under way and the report of a
\* recovery takes a number of its own: no event under way loses its lease.
LeaseIsShownFirst ==
    [][LET lease == clients[Desktop].queue.inflight IN
       /\ lease # <<>> /\ toHost # <<>> /\ toHost' = Tail(toHost) /\ Head(toHost) # Subscription
       /\ clients'[Desktop].queue.inflight # lease
       => \A i \in 1 .. Len(toRenderer) : toRenderer[i].seq # lease[1].event.seq]_vars

\* A read can be continued only if it lost nothing, and only as long as no
\* other read has taken the presentation since.
ContinuationIsLossless ==
    facade.continuation # 0 =>
        /\ reads[facade.continuation].dropped = 0
        /\ facade.active = 0

\* Nobody publishes but the read that has the presentation, and the stop of a
\* read: its last records, and that it stopped or failed to.
PublishedByOwner ==
    \A c \in Clients : \A i \in 1 .. Len(Entries(clients'[c].queue)) :
        LET event == Entries(clients'[c].queue)[i].event IN
        event.seq > facade.sequence /\ event.kind \in {"state", "batch"} /\ event.read # 0 =>
            \/ event.read = facade.active
            \/ /\ \E stop \in facade.stops : stop.read = event.read
               /\ event.kind = "state" => event.state \in {"stopped", "failed"}

\* The end of a read that a renderer was shown stands: no record and no other
\* state of it follows, whatever was scheduled, paused, queued or answered
\* late; only a failure is followed by the stop that was tried again. An end
\* without records is shown as "empty", as a read that goes on may be: that
\* nothing follows it either is what the owner of the presentation is for.
FinalStands ==
    [][/\ PublishedByOwner
       /\ \A c \in Clients :
           LET s == shown[c]
               t == shown'[c]
           IN  s.final # "none" /\ t.read = s.read /\ t.whole =>
                   /\ t.got = s.got
                   /\ t.final = s.final \/ (s.final = "failed" /\ t.final = "stopped")]_vars

\* A route whose delivery failed learns whether the reads stopped: as long as
\* it refuses everyone, the stop that it waits for runs.
RecoveryIsAnswered == route.recovery = "pending" => route.stop \in facade.stops

\* Records that an active read has queued are going to be published: a flush
\* is scheduled, or the delivery that paused it waits for an acknowledgement
\* that is going to come or to time out.
PressureIsReleased ==
    LET client == clients[Desktop] IN
    /\ facade.paused => client.open /\ client.paused /\ client.queue.inflight # <<>>
    /\ facade.active # 0 /\ reads[facade.active].queue # <<>> =>
           facade.paused \/ reads[facade.active].flush

\* Nothing waits for good: an event for what was sent, a route for a stop, a
\* record for an acknowledgement, each is under way.
NothingIsStuck == NothingWaitsUnsent /\ RecoveryIsAnswered /\ PressureIsReleased

\* "Renderer delivery failed. Consumption stopped." (kafka-provider-delivery.ts):
\* when the route reports that its stop is confirmed, no stream is live.
ConfirmedStopIsQuiet ==
    [][route.recovery = "pending" /\ route'.recovery = "confirmed"
       => \A r \in Reads : streams'[r] \notin Live]_vars
=============================================================================
