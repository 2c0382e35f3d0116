-------------------------- MODULE ReadPresentation --------------------------
(***************************************************************************)
(* ReadPresentation: what the facade keeps of the reads of Kafka records   *)
(* and does to it without publishing: the bounded queue of records to      *)
(* show, the owner of the presentation, the stop that every caller joins,  *)
(* and the one continuation. Below it, the requests that the facade makes  *)
(* of the session's consumption, as the session answers them.              *)
(*                                                                         *)
(* A world is the record of all variables of EventDelivery: publishing     *)
(* reaches the renderer's route, and the route stops the reads, within one *)
(* step of the program.                                                    *)
(***************************************************************************)
EXTENDS EventQueue

CONSTANTS
    MaxReads,        \* how many reads are asked for
    QueueDepth,      \* the records that the facade keeps to show
    BatchSize,       \* the records of one batch
    Oversized        \* the records that no batch has room for

ASSUME PresentationAssumption ==
    {MaxReads, QueueDepth, BatchSize} \subseteq Nat \ {0} /\ Oversized \subseteq Nat

Reads == 1 .. MaxReads
Final == {"complete", "stopped", "failed"}

---------------------------------------------------------------------------
\* A read, with the admission and the intent it holds while it waits.
NoRead == [phase |-> "none", continues |-> 0, admission |-> 0, intent |-> 0, state |-> "none",
           loading |-> FALSE, received |-> 0, dropped |-> 0, queue |-> <<>>,
           published |-> FALSE, flush |-> FALSE, sample |-> FALSE,
           terminal |-> "none"]

\* appendFacadeMessage
Appended(read, record) ==
    LET queue == Append(read.queue, record)
        surplus == IF Len(queue) > QueueDepth THEN Len(queue) - QueueDepth ELSE 0
    IN [read EXCEPT !.queue = SubSeq(queue, surplus + 1, Len(queue)), !.dropped = @ + surplus]

\* discardFacadeMessages
Discarded(read) == [read EXCEPT !.queue = <<>>, !.dropped = @ + Len(read.queue)]

\* takeFacadeMessageBatch: the shortest prefix with a whole batch, or all.
Fits(record) == record \notin Oversized
Fitting(queue) ==
    LET Among[n \in 0 .. Len(queue)] ==
            IF n = 0 THEN <<>>
            ELSE IF Fits(queue[n]) THEN Append(Among[n - 1], queue[n]) ELSE Among[n - 1]
    IN Among[Len(queue)]
Prefix(queue) ==
    LET full == {n \in 1 .. Len(queue) : Len(Fitting(SubSeq(queue, 1, n))) = BatchSize}
    IN IF full = {} THEN queue ELSE SubSeq(queue, 1, Min(full))
Batch(read) == Fitting(Prefix(read.queue))
Taken(read) ==
    LET n == Len(Prefix(read.queue))
    IN [read EXCEPT !.queue = SubSeq(@, n + 1, Len(@)),
                    !.dropped = @ + n - Len(Batch(read)),
                    !.published = @ \/ Batch(read) # <<>>]

\* cancelConsumptionFlush and cancelScheduledSample
Silenced(read) == [read EXCEPT !.flush = FALSE, !.sample = FALSE]
Ended(read) == [read EXCEPT !.phase = "over", !.admission = 0, !.continues = 0]

---------------------------------------------------------------------------
\* The facade. stopping is the stop that owns an intent, by whom it was
\* begun; stops has those whose operation runs.
NoStop == [intent |-> 0, read |-> 0, by |-> "none"]
IdleFacade == [active |-> 0, stopping |-> NoStop, stops |-> {}, intent |-> 0, admission |-> 0,
               paused |-> FALSE, continuation |-> 0, sequence |-> 0]

ReadSilenced(w, r) == IF r = 0 THEN w ELSE [w EXCEPT !.reads[r] = Silenced(@)]
ReadDiscarded(w, r) == IF r = 0 THEN w ELSE [w EXCEPT !.reads[r] = Discarded(Silenced(@))]

Scheduled(w, r) ==
    IF w.facade.paused THEN w ELSE [w EXCEPT !.reads[r].flush = TRUE]

\* setMessagePresentationPaused
PresentationPaused(w, paused) ==
    LET told == [w EXCEPT !.facade.paused = paused]
        r == w.facade.active
    IN CASE r = 0 -> told
         [] r # 0 /\ paused -> [told EXCEPT !.reads[r].flush = FALSE]
         [] OTHER -> IF w.reads[r].queue = <<>> THEN told ELSE Scheduled(told, r)

\* discardStoppingConsumption
StoppingDiscarded(w) ==
    [ReadDiscarded(w, w.facade.stopping.read)
        EXCEPT !.facade.stopping = NoStop]

\* invalidate
Invalidated(w) ==
    LET left == StoppingDiscarded([w EXCEPT !.facade.continuation = 0, !.facade.intent = @ + 1])
    IN [ReadDiscarded(left, left.facade.active)
           EXCEPT !.facade.active = 0]

\* finishRead, where the session gave a checkpoint with more to read: the
\* continuation is for whoever still owns the intent.
OwnsContinuation(w, r) ==
    IF w.facade.stopping.read = r THEN w.facade.stopping.intent = w.facade.intent
    ELSE w.reads[r].intent = w.facade.intent

\* Mutant: a read that lost records is continued after them.
FinishedAnyway(w, r, more) ==
    IF more /\ OwnsContinuation(w, r) THEN [w EXCEPT !.facade.continuation = r] ELSE w

Finished(w, r, more) ==
    IF more /\ w.reads[r].dropped = 0 /\ OwnsContinuation(w, r)
    THEN [w EXCEPT !.facade.continuation = r] ELSE w

---------------------------------------------------------------------------
\* The session: every later request takes the streams before it back, and
\* is answered when they are closed.
Live == {"opening", "open"}
Revoked(streams) ==
    [r \in Reads |-> IF streams[r] \in Live THEN "closing" ELSE streams[r]]
Drained(streams) ==
    [r \in Reads |-> IF streams[r] = "closing" THEN "closed" ELSE streams[r]]
StreamsStopped(w) == [w EXCEPT !.streams = Revoked(@)]
StreamRequested(w, r) == [w EXCEPT !.streams = [Revoked(@) EXCEPT ![r] = "opening"]]

\* stopStream, as far as its first await: a stop that still owns the intent
\* is joined, or tried again, and the session is asked to stop.
StopOwned(w) ==
    LET f == w.facade IN
    IF f.stopping # NoStop /\ f.stopping.intent = f.intent THEN w
    ELSE [ReadSilenced(w, f.active)
             EXCEPT !.facade.intent = @ + 1, !.facade.active = 0,
                    !.facade.stopping = [intent |-> f.intent + 1, read |-> f.active, by |-> "stop"]]
StopRequested(w) ==
    IF w.facade.stopping \in w.facade.stops THEN w
    ELSE StreamsStopped([w EXCEPT !.facade.stops = @ \cup {w.facade.stopping}])
StreamStopped(w) == StopRequested(StopOwned(w))

\* interruptConsumption
Interrupted(w) == [w EXCEPT !.facade.admission = @ + 1]
=============================================================================
