---------------------------- MODULE EventDelivery ----------------------------
(***************************************************************************)
(* EventDelivery: reads of Kafka records from the command that begins one  *)
(* to the renderer that shows its records and its end, over the desktop's  *)
(* IPC or over the event streams of the web host. It composes the reads    *)
(* that the facade presents (ReadPresentation) with the delivery of events *)
(* and the recovery of a route (EventTransport, EventQueue). The session   *)
(* that streams the records is what it promises: a later request takes an  *)
(* earlier stream back (KafkaSession).                                     *)
(*                                                                         *)
(* An action is a run of the event loop between two awaits. It computes a  *)
(* world from the world before it, for publishing reaches the delivery,    *)
(* the route and the reads again before it returns.                        *)
(***************************************************************************)
EXTENDS EventTransport

CONSTANTS
    Bounds           \* of a behavior: reads, records of each, clients, turns

VARIABLES
    reads, facade, streams,     \* the facade's reads, its owner, the session's streams
    clients, route,             \* the deliveries and the route they belong to
    toRenderer, toHost,         \* IPC under way: events; acknowledgements and subscriptions
    listening,                  \* the renderer of the desktop takes events and commands
    shown,                      \* what each renderer was shown
    stopCommand,                \* the one stop command, and the stop it waits for
    bounds                      \* what may still come

ASSUME BoundsAssumption == Bounds \subseteq [reads : Reads, arrivals : Nat, clients : Clients, turns : Nat]

vars == <<reads, facade, streams, clients, route, toRenderer, toHost, listening, shown,
          stopCommand, bounds>>

World == [reads |-> reads, facade |-> facade, streams |-> streams, clients |-> clients,
          route |-> route, toRenderer |-> toRenderer, toHost |-> toHost,
          listening |-> listening, shown |-> shown, stopCommand |-> stopCommand,
          bounds |-> bounds]

\* A read that is over, and that nobody holds, is gone.
Held(w, r) ==
    \/ w.reads[r].phase # "over"
    \/ r \in {w.facade.active, w.facade.stopping.read, w.facade.continuation}
    \/ \E stop \in w.facade.stops : stop.read = r
Kept(w) == [r \in Reads |-> IF Held(w, r) THEN w.reads[r] ELSE [NoRead EXCEPT !.phase = "over"]]

Becomes(w) ==
    /\ reads' = Kept(w) /\ facade' = w.facade /\ streams' = w.streams
    /\ clients' = w.clients /\ route' = w.route
    /\ toRenderer' = w.toRenderer /\ toHost' = w.toHost
    /\ listening' = w.listening /\ shown' = w.shown
    /\ stopCommand' = w.stopCommand /\ bounds' = w.bounds

NoCommand == [state |-> "none", stop |-> NoStop]
Subscription == 0      \* on toHost; any other number acknowledges an event

\* subscribe: the facade tells a new listener that it is ready.
Subscribed(w) ==
    LET closed == DeliveryClosed(w, Desktop)
        begun == [closed EXCEPT !.clients[Desktop] = [NoClient EXCEPT !.open = TRUE],
                                !.route.subscribed = TRUE, !.route.recovery = "none"]
    IN Noted(begun)

\* The desktop subscribes once by itself, and again for its window.
Init ==
    \E transport \in {"desktop", "web"}, some \in Bounds :
        LET idle == [reads |-> [r \in Reads |-> NoRead], facade |-> IdleFacade,
                     streams |-> [r \in Reads |-> "none"],
                     clients |-> [c \in Clients |-> NoClient],
                     route |-> [NoRoute EXCEPT !.transport = transport],
                     toRenderer |-> <<>>, toHost |-> <<>>,
                     listening |-> transport = "desktop",
                     shown |-> [c \in Clients |-> NothingShown], stopCommand |-> NoCommand,
                     bounds |-> some]
        IN \E w \in {IF transport = "desktop" THEN Subscribed(idle) ELSE idle} :
           /\ reads = w.reads /\ facade = w.facade /\ streams = w.streams
           /\ clients = w.clients /\ route = w.route
           /\ toRenderer = w.toRenderer /\ toHost = w.toHost
           /\ listening = w.listening /\ shown = w.shown
           /\ stopCommand = w.stopCommand /\ bounds = w.bounds

IsDesktop == route.transport = "desktop"

\* What the world may do at any time is a turn: something but an answer, a
\* record or a timer that is due.
MayTurn == bounds.turns > 0
Turned == [World EXCEPT !.bounds.turns = @ - 1]

---------------------------------------------------------------------------
\* The desktop's renderer and its route.

\* A view mounts: startEvents.
Listen ==
    /\ IsDesktop /\ ~listening
    /\ \A i \in 1 .. Len(toHost) : toHost[i] # Subscription
    /\ Becomes([World EXCEPT !.listening = TRUE, !.toHost = Append(@, Subscription)])

\* The last view unmounts, or the window reloads. What is under way stays.
Leave ==
    /\ IsDesktop /\ listening /\ MayTurn
    /\ Becomes([Turned EXCEPT !.listening = FALSE, !.shown[Desktop] = NothingShown])

\* handleEvent: what nobody listens to is not acknowledged.
Receive ==
    /\ toRenderer # <<>>
    /\ LET event == Head(toRenderer)
           rest == [World EXCEPT !.toRenderer = Tail(@)]
       IN Becomes(IF ~listening THEN rest
                  ELSE [rest EXCEPT !.shown[Desktop] = Shown(@, event),
                                    !.toHost = Append(@, event.seq)])

AcknowledgementArrives ==
    /\ toHost # <<>> /\ Head(toHost) # Subscription
    /\ Becomes(Acknowledged([World EXCEPT !.toHost = Tail(@)], Head(toHost)))

\* A route whose stop is not confirmed refuses, and the renderer gives up.
SubscriptionArrives ==
    /\ toHost # <<>> /\ Head(toHost) = Subscription
    /\ LET w == [World EXCEPT !.toHost = Tail(@)] IN
       Becomes(IF route.recovery \in {"pending", "failed"} THEN [w EXCEPT !.listening = FALSE]
               ELSE [Subscribed(w) EXCEPT !.shown[Desktop] = [NothingShown EXCEPT !.since = facade.sequence]])

\* A renderer that takes the event and acknowledges it may do so too late.
IsUnderWay(sequence) ==
    \/ \E i \in 1 .. Len(toRenderer) : listening /\ toRenderer[i].seq = sequence
    \/ \E i \in 1 .. Len(toHost) : toHost[i] \in {sequence, Subscription}
AcknowledgementTimesOut ==
    /\ IsDesktop /\ clients[Desktop].queue.inflight # <<>>
    /\ IF IsUnderWay(clients[Desktop].queue.inflight[1].event.seq)
       THEN MayTurn /\ Becomes(DeliveryFailed(Turned)) ELSE Becomes(DeliveryFailed(World))

---------------------------------------------------------------------------
\* The web host's event streams.

OpenEvents(c) ==
    /\ ~IsDesktop /\ c <= bounds.clients /\ route.recovery = "none" /\ ~clients[c].open
    /\ Becomes(Written([World EXCEPT !.clients[c].open = TRUE], c, "comment"))

\* The peer reads slowly: the next write will be asked to wait.
SocketFills(c) ==
    /\ clients[c].write # "none" /\ ~clients[c].full /\ MayTurn
    /\ Becomes([Turned EXCEPT !.clients[c].full = TRUE])

\* The write's callback, and finishWrite
WriteCompletes(c) ==
    /\ clients[c].write # "none"
    /\ Becomes(Pumped([World EXCEPT !.clients[c].write = "none",
                                    !.clients[c].queue = IF clients[c].write = "event"
                                                         THEN Completed(@) ELSE @], c))

\* Mutant: capacity that returns is noted, and nothing is sent.
SocketDrainsQuietly(c) ==
    /\ clients[c].blocked
    /\ Becomes([World EXCEPT !.clients[c].blocked = FALSE, !.clients[c].full = FALSE])

\* onDrain
SocketDrains(c) ==
    /\ clients[c].blocked
    /\ Becomes(Pumped([World EXCEPT !.clients[c].blocked = FALSE, !.clients[c].full = FALSE], c))

WriteTimesOut(c) ==
    /\ clients[c].write # "none" \/ clients[c].blocked
    /\ MayTurn
    /\ Becomes(StreamClosed(Turned, c))

PeerLeaves(c) ==
    /\ ~IsDesktop /\ clients[c].open /\ MayTurn
    /\ Becomes(StreamClosed(Turned, c))

---------------------------------------------------------------------------
\* Commands. A route that recovers takes none.
MayCommand ==
    IF IsDesktop THEN listening /\ route.recovery \notin {"pending", "failed"}
    ELSE route.recovery = "none"

\* messages.start and messages.continue, until the protection check answers
StartCommand(r, continues) ==
    /\ MayCommand /\ r <= bounds.reads /\ reads[r].phase = "none" /\ \A q \in 1 .. r - 1 : reads[q].phase # "none"
    /\ continues \in {0, facade.continuation}
    /\ LET w == Interrupted(World) IN
       Becomes([w EXCEPT !.reads[r] = [NoRead EXCEPT !.phase = "admitted", !.continues = continues,
                                                     !.admission = w.facade.admission]])

\* startRead, as far as its first await
ReadBegun(w, r) ==
    LET begun == StoppingDiscarded([w EXCEPT !.facade.intent = @ + 1])
    IN [begun EXCEPT !.reads[r].phase = "preferring", !.reads[r].intent = begun.facade.intent]

ReadSuperseded(w, r) == [w EXCEPT !.reads[r] = Ended(@)]

Admit(r) ==
    /\ reads[r].phase = "admitted"
    /\ Becomes(CASE reads[r].admission # facade.admission -> [World EXCEPT !.reads[r] = Ended(@)]
                 [] reads[r].admission = facade.admission /\ reads[r].continues = 0 ->
                      ReadBegun([World EXCEPT !.facade.continuation = 0], r)
                 [] OTHER -> [World EXCEPT !.reads[r].phase = "resuming",
                                           !.reads[r].intent = facade.intent])

\* continueMessages: the continuation is taken once, by whoever finds the
\* facade idle.
Resume(r) ==
    /\ reads[r].phase = "resuming"
    /\ Becomes(IF \/ reads[r].intent # facade.intent
                  \/ facade.active # 0 \/ facade.stopping # NoStop
                  \/ facade.continuation # reads[r].continues
               THEN [World EXCEPT !.reads[r] = Ended(@)]
               ELSE ReadBegun([World EXCEPT !.facade.continuation = 0], r))

\* The preferences are read: the read takes the presentation, and the
\* session is asked to stop what runs.
Prefer(r) ==
    /\ reads[r].phase = "preferring"
    /\ LET w == StoppingDiscarded([World EXCEPT !.facade.continuation = 0])
           taken == ReadDiscarded(w, w.facade.active)
       IN Becomes(IF reads[r].intent # facade.intent THEN ReadSuperseded(World, r)
                  ELSE StreamsStopped([taken EXCEPT !.facade.active = r,
                                                    !.reads[r].phase = "clearing",
                                                    !.reads[r].state = "loading"]))

\* Mutant: a start that fails late reports its read though that was stopped.
ReadFailedAnyway(w, r) ==
    LET ended == [w EXCEPT !.reads[r] = Discarded(Silenced(Ended(@))), !.facade.active = 0]
    IN StatePublished(ended, r, "failed")

\* The read's own failure: its presentation ends if it still has it.
ReadFailed(w, r) ==
    LET over == [w EXCEPT !.reads[r] = Ended(@)]
        ended == [over EXCEPT !.reads[r] = Discarded(Silenced(@)), !.facade.active = 0]
    IN IF w.facade.active = r THEN StatePublished(ended, r, "failed") ELSE over

LoadingPublished(w, r) ==
    IF w.reads[r].loading THEN w
    ELSE StatePublished([w EXCEPT !.reads[r].loading = TRUE], r, "loading")

\* The session has stopped what ran, and the stream is requested. Nothing
\* asks again for the read once its loading state is published.
Clear(r) ==
    /\ reads[r].phase = "clearing"
    /\ LET w == [World EXCEPT !.streams = Drained(@), !.reads[r].phase = "starting"]
           told == IF reads[r].continues = 0 THEN LoadingPublished(w, r) ELSE w
       IN Becomes(IF facade.active # r THEN ReadFailed(w, r) ELSE StreamRequested(told, r))

ClearFails(r) ==
    /\ reads[r].phase = "clearing" /\ \E q \in Reads : streams[q] = "closing"
    /\ Becomes(ReadFailed(World, r))

\* messages.stop, as far as its first await
StopCommand ==
    /\ MayCommand /\ stopCommand = NoCommand /\ MayTurn
    /\ LET w == StreamStopped(Interrupted(Turned)) IN
       Becomes([w EXCEPT !.stopCommand = [state |-> "stopping", stop |-> w.facade.stopping]])

\* A connection command takes every read and stream with it.
ConnectionChanges ==
    /\ MayCommand /\ MayTurn
    /\ Becomes(Noted(StreamsStopped(Invalidated(Interrupted(Turned)))))

---------------------------------------------------------------------------
\* The session's answers and callbacks. A stream that is taken back, or
\* whose read was, reaches nobody.
StreamOpens(r) ==
    /\ streams[r] = "opening" /\ reads[r].phase = "starting"
    /\ Becomes([World EXCEPT !.streams = [Drained(@) EXCEPT ![r] = "open"]])

MessagePublished(w, r) ==
    LET read == w.reads[r]
        queued == [w EXCEPT !.reads[r] = [Appended(read, read.received + 1) EXCEPT !.received = @ + 1]]
        told == IF read.state \in {"empty", "loading"} THEN StatePublished(queued, r, "running") ELSE queued
    IN IF w.facade.active # r THEN w ELSE Scheduled(told, r)

\* onMessage
MessageArrives(r) ==
    /\ streams[r] = "open" /\ facade.active = r /\ reads[r].received < bounds.arrivals
    /\ Becomes(MessagePublished(LoadingPublished(World, r), r))

\* onCoverage
CoveragePublished(w, r) ==
    IF w.reads[r].state = "loading" THEN w ELSE StatePublished(w, r, w.reads[r].state)
CoverageArrives(r) ==
    /\ streams[r] = "open" /\ facade.active = r /\ MayTurn
    /\ Becomes(CoveragePublished(LoadingPublished(Turned, r), r))

\* onEmpty
NothingArrives(r) ==
    /\ streams[r] = "open" /\ facade.active = r /\ reads[r].received = 0 /\ reads[r].state # "empty"
    /\ Becomes(StatePublished(Flushed(World, r, FALSE), r, "empty"))

\* Mutant: the end is published before the last records.
CompletingEarly(w, r, more) ==
    LET ended == StatePublished([Finished(w, r, more) EXCEPT !.facade.active = 0], r, "complete")
    IN FlushedWhole(ended, r)

\* onComplete and onFailure
Completing(w, r, more) ==
    LET done == Finished(FlushedWhole(w, r), r, more)
        state == IF w.reads[r].received = 0 THEN "empty" ELSE "complete"
    IN StatePublished([done EXCEPT !.facade.active = 0], r, state)
Failing(w, r) ==
    LET Leaves(f) ==
            [f EXCEPT !.active = 0,
                      !.stopping = [intent |-> f.intent, read |-> r, by |-> "failure"]]
    IN StatePublished([FlushedWhole(w, r) EXCEPT !.facade = Leaves(@)], r, "failed")
Terminated(w, r, terminal, more) ==
    CASE w.facade.active # r \/ terminal = "none" -> w
      [] w.facade.active = r /\ terminal = "complete" -> Completing(w, r, more)
      [] OTHER -> Failing(w, r)

\* A stream that ends before its start is accepted waits for it.
StreamEnds(r, terminal, more) ==
    /\ streams[r] = "open" /\ reads[r].phase \in {"starting", "running"}
    /\ LET w == [World EXCEPT !.streams[r] = "closed"] IN
       Becomes(IF reads[r].phase = "running"
               THEN [Terminated(w, r, terminal, more) EXCEPT !.reads[r].phase = "over"]
               ELSE [w EXCEPT !.streams[r] = "ended", !.reads[r].terminal = terminal])

\* session.startConsumption returns
RunningPublished(w, r) ==
    IF w.reads[r].state = "loading" THEN StatePublished(w, r, "running") ELSE w
StartAccepted(r, more) ==
    /\ reads[r].phase = "starting" /\ streams[r] \in {"open", "ended"}
    /\ LET told == RunningPublished(LoadingPublished(World, r), r)
           accepted == [told EXCEPT !.reads[r].phase = IF streams[r] = "open" THEN "running" ELSE "over",
                                           !.reads[r].sample = TRUE]
       IN Becomes(IF facade.active # r THEN ReadFailed(World, r)
                  ELSE Terminated(accepted, r, reads[r].terminal, more))

\* session.startConsumption rejects: the stream never opened, or it was
\* taken back.
StartFails(r) ==
    /\ reads[r].phase = "starting" /\ streams[r] \in {"opening", "closing", "closed"}
    /\ Becomes(ReadFailed([World EXCEPT !.streams[r] = "closed"], r))

---------------------------------------------------------------------------
\* finishStop ends, and everyone who waits for it learns how.
ReadStopped(w, r, confirmed, more) ==
    LET flushed == FlushedWhole(w, r) IN
    StatePublished(Finished(flushed, r, confirmed /\ more), r, IF confirmed THEN "stopped" ELSE "failed")
StopReleased(w, stop) ==
    IF w.facade.stopping = stop THEN [w EXCEPT !.facade.stopping = NoStop] ELSE w
StopPublished(w, stop, confirmed, more) ==
    LET nothing == [NoEvent EXCEPT !.kind = "state", !.state = "stopped"] IN
    CASE stop.intent # w.facade.intent \/ (stop.read = 0 /\ ~confirmed) -> w
      [] stop.intent = w.facade.intent /\ stop.read # 0 ->
           LET ended == ReadStopped(w, stop.read, confirmed, more)
           IN IF confirmed THEN StopReleased(ended, stop) ELSE ended
      [] OTHER -> StopReleased(Publish(w, nothing), stop)

\* Everyone who stopped the reads records what came of it: the numbers of
\* the facade's events go past the number that the report of a recovery takes.
CommandStopped(w, stop) ==
    IF w.stopCommand = [state |-> "stopping", stop |-> stop]
    THEN Noted([w EXCEPT !.stopCommand = NoCommand]) ELSE w

\* Mutant: a stop that fails is not told.
RecoveredIfConfirmed(w, stop, confirmed) ==
    IF confirmed /\ w.route.recovery = "pending" /\ w.route.stop = stop
    THEN [Noted(w) EXCEPT !.route.recovery = IF IsDesktop THEN "confirmed" ELSE "none"] ELSE w

\* finish of a recovery: the desktop reports to its window beside the
\* delivery, with the number after the last event.
Recovered(w, stop, confirmed) ==
    LET noted == Noted(w)
        report == [NoEvent EXCEPT !.kind = "note", !.seq = w.route.lastSequence + 1]
    IN CASE w.route.recovery # "pending" \/ w.route.stop # stop -> w
         [] w.route.recovery = "pending" /\ w.route.stop = stop /\ IsDesktop ->
              [noted EXCEPT !.route.recovery = IF confirmed THEN "confirmed" ELSE "failed",
                            !.route.lastSequence = @ + 1, !.toRenderer = Append(@, report)]
         [] OTHER -> [noted EXCEPT !.route.recovery = IF confirmed THEN "none" ELSE "failed"]

StopEnds(stop, confirmed, more) ==
    /\ stop \in facade.stops
    /\ ~confirmed => MayTurn /\ \E r \in Reads : streams[r] = "closing"
    /\ LET done == [IF confirmed THEN World ELSE Turned EXCEPT !.facade.stops = @ \ {stop},
                                 !.streams = IF confirmed THEN Drained(@) ELSE @]
           told == StopPublished(done, stop, confirmed, more)
       IN Becomes(Recovered(CommandStopped(told, stop), stop, confirmed))

---------------------------------------------------------------------------
\* Timers: the flush of a read, and its measurement every second.
FlushTimer(r, measured) ==
    /\ reads[r].flush
    /\ measured => MayTurn
    /\ LET w == [IF measured THEN Turned ELSE World EXCEPT !.reads[r].flush = FALSE] IN
       Becomes(IF facade.active = r THEN Flushed(w, r, measured) ELSE w)

SampleTimer(r) ==
    /\ reads[r].sample /\ MayTurn
    /\ LET w == [Turned EXCEPT !.reads[r].sample = FALSE] IN
       Becomes(IF facade.active = r THEN MetricsPublished(w, r) ELSE w)

RendererNext ==
    Listen \/ Leave \/ Receive \/ AcknowledgementArrives \/ SubscriptionArrives \/ AcknowledgementTimesOut
ClientNext ==
    \E c \in Clients :
        \/ OpenEvents(c) \/ SocketFills(c) \/ WriteCompletes(c) \/ SocketDrains(c)
        \/ WriteTimesOut(c) \/ PeerLeaves(c)
CommandNext ==
    \/ \E r \in Reads :
           \/ \E continues \in 0 .. MaxReads : StartCommand(r, continues)
           \/ Admit(r) \/ Resume(r) \/ Prefer(r) \/ Clear(r) \/ ClearFails(r)
    \/ StopCommand \/ ConnectionChanges
SessionNext ==
    \/ \E r \in Reads :
           \/ StreamOpens(r) \/ MessageArrives(r) \/ CoverageArrives(r)
           \/ NothingArrives(r) \/ StartFails(r)
           \/ \E terminal \in {"complete", "failed"}, more \in BOOLEAN : StreamEnds(r, terminal, more)
           \/ \E more \in BOOLEAN : StartAccepted(r, more)
    \/ \E stop \in facade.stops, confirmed, more \in BOOLEAN : StopEnds(stop, confirmed, more)
TimerNext == \E r \in Reads : SampleTimer(r) \/ \E measured \in BOOLEAN : FlushTimer(r, measured)

Next == RendererNext \/ ClientNext \/ CommandNext \/ SessionNext \/ TimerNext
Spec == Init /\ [][Next]_vars
=============================================================================
