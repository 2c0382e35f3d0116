-------------------------- MODULE NatsRecordBuffer --------------------------
(***************************************************************************)
(* NatsRecordBuffer: the copied records of one subscription, from receipt  *)
(* to publication. A record is reduced to its retained bytes.              *)
(*                                                                         *)
(* flush() publishes batch after batch without yielding, but a listener    *)
(* may stop the subscription, and so close the buffer, from within a       *)
(* publication: each batch is a step of its own and nothing but such a     *)
(* close comes between two of them.                                        *)
(***************************************************************************)
EXTENDS Integers, Sequences

CONSTANTS
    QueuedRecords, QueuedBytes,  \* NATS_LIMITS: what may wait
    BatchRecords, BatchBytes,    \* NATS_LIMITS: what one event may carry
    EnvelopeBytes,               \* of BatchBytes, what the empty batch takes
    Sizes,                       \* the retained bytes of the records
    MaxCounter                   \* Number.MAX_SAFE_INTEGER

ASSUME LimitsAssumption ==
    /\ {QueuedRecords, BatchRecords} \subseteq Nat \ {0}
    /\ {QueuedBytes, BatchBytes, EnvelopeBytes, MaxCounter} \subseteq Nat
    /\ Sizes \subseteq Nat \ {0}

VARIABLES
    pending,      \* the retained bytes of the queued records, oldest first
    queuedBytes,
    received, omitted, published,
    presenting,
    timer,        \* whether a flush is scheduled
    flushing,     \* whether flush() is between two batches
    closed

vars == <<pending, queuedBytes, received, omitted, published, presenting, timer, flushing,
          closed>>

Init ==
    /\ pending = <<>>
    /\ queuedBytes = 0
    /\ received = 0 /\ omitted = 0 /\ published = 0
    /\ presenting = FALSE /\ timer = FALSE /\ flushing = FALSE /\ closed = FALSE

Bytes(entries) ==
    LET Of[n \in 0 .. Len(entries)] == IF n = 0 THEN 0 ELSE Of[n - 1] + entries[n]
    IN Of[Len(entries)]
Drop(entries, k) == SubSeq(entries, k + 1, Len(entries))

\* Mutants: the limit of the queue is checked too late; the envelope is forgotten.
HasRoomTooEarly(k, bytes) ==
    /\ Len(pending) - k <= QueuedRecords
    /\ queuedBytes - Bytes(SubSeq(pending, 1, k)) + bytes <= QueuedBytes

IsRetainableAlone(bytes) == bytes <= BatchBytes /\ bytes <= QueuedBytes

\* A record that no batch or no queue could hold is omitted at once.
IsRetainable(bytes) == bytes + EnvelopeBytes <= BatchBytes /\ bytes <= QueuedBytes

\* The oldest k records have to go before the queue can take bytes more.
HasRoomWithout(k, bytes) ==
    /\ Len(pending) - k < QueuedRecords
    /\ queuedBytes - Bytes(SubSeq(pending, 1, k)) + bytes <= QueuedBytes

IsEviction(k, bytes) ==
    /\ HasRoomWithout(k, bytes) \/ k = Len(pending)
    /\ \A j \in 0 .. k - 1 : ~HasRoomWithout(j, bytes)

\* The records are separated by commas.
FitsBatch(count) ==
    /\ count <= BatchRecords
    /\ EnvelopeBytes + Bytes(SubSeq(pending, 1, count)) + count - 1 <= BatchBytes

\* The loop stops at the first record that does not fit.
IsBatch(count) ==
    /\ \A k \in 1 .. count : FitsBatch(k)
    /\ count < Len(pending) => ~FitsBatch(count + 1)

\* increment() throws beyond the safe integers.
Overflows(counter, amount) == counter + amount > MaxCounter

---------------------------------------------------------------------------
\* Mutants: what is discarded is not counted; a due flush is not cancelled.
CloseUncounted ==
    /\ ~closed
    /\ closed' = TRUE /\ timer' = FALSE
    /\ pending' = <<>> /\ queuedBytes' = 0
    /\ UNCHANGED omitted

CloseKeepsTimer ==
    /\ ~closed
    /\ closed' = TRUE
    /\ omitted' = omitted + Len(pending)
    /\ pending' = <<>> /\ queuedBytes' = 0
    /\ UNCHANGED timer

\* close() counts what it discards; its increment throws if that overflows,
\* and leaves the records behind.
Close ==
    /\ ~closed
    /\ closed' = TRUE
    /\ timer' = FALSE
    /\ IF Overflows(omitted, Len(pending))
       THEN UNCHANGED <<pending, queuedBytes, omitted>>
       ELSE /\ omitted' = omitted + Len(pending)
            /\ pending' = <<>>
            /\ queuedBytes' = 0

CloseBuffer ==
    /\ Close
    /\ flushing' = FALSE
    /\ UNCHANGED <<received, published, presenting>>

\* A message too large to copy arrives as an omission.
AcceptOmission ==
    /\ ~closed /\ ~flushing
    /\ ~Overflows(received, 1)
    /\ received' = received + 1
    /\ omitted' = omitted + 1
    /\ timer' = (timer \/ presenting)
    /\ UNCHANGED <<pending, queuedBytes, published, presenting, flushing, closed>>

AcceptUnretainable(bytes) ==
    /\ ~IsRetainable(bytes)
    /\ AcceptOmission

AcceptRecord(bytes) ==
    /\ ~closed /\ ~flushing
    /\ ~Overflows(received, 1)
    /\ IsRetainable(bytes)
    /\ received' = received + 1
    /\ \E k \in 0 .. Len(pending) :
          /\ IsEviction(k, bytes)
          /\ pending' = Append(Drop(pending, k), bytes)
          /\ queuedBytes' = queuedBytes - Bytes(SubSeq(pending, 1, k)) + bytes
          /\ omitted' = omitted + k
    /\ timer' = (timer \/ presenting)
    /\ UNCHANGED <<published, presenting, flushing, closed>>

\* The session fails the subscription, which closes its buffer.
AcceptOverflows ==
    /\ ~closed /\ ~flushing
    /\ Overflows(received, 1)
    /\ CloseBuffer

\* Mutant: the records received before the SUB was confirmed are forgotten.
StartUnscheduled ==
    /\ ~closed /\ ~flushing
    /\ presenting' = TRUE
    /\ UNCHANGED <<pending, queuedBytes, received, omitted, published, timer, flushing, closed>>

StartPublishing ==
    /\ ~closed /\ ~flushing
    /\ presenting' = TRUE
    /\ timer' = (timer \/ received > 0)
    /\ UNCHANGED <<pending, queuedBytes, received, omitted, published, flushing, closed>>

\* One round of flush(); an empty queue still publishes its counters.
PublishBatch ==
    /\ timer \/ flushing
    /\ ~closed
    /\ \E count \in 0 .. Len(pending) :
          /\ IsBatch(count)
          /\ pending' = Drop(pending, count)
          /\ queuedBytes' = queuedBytes - Bytes(SubSeq(pending, 1, count))
          /\ published' = published + count
    /\ timer' = FALSE
    /\ flushing' = (pending' # <<>>)
    /\ UNCHANGED <<received, omitted, presenting, closed>>

Next ==
    \/ AcceptOmission
    \/ \E bytes \in Sizes : AcceptUnretainable(bytes) \/ AcceptRecord(bytes)
    \/ AcceptOverflows
    \/ StartPublishing
    \/ PublishBatch
    \/ CloseBuffer

\* The timer fires, and flush() goes on to its end.
Spec == Init /\ [][Next]_vars /\ WF_vars(PublishBatch)
---------------------------------------------------------------------------
\* What queuedBytes holds is QueueIsBounded's to say.
TypeOK ==
    /\ pending \in Seq(Sizes)
    /\ received \in 0 .. MaxCounter
    /\ omitted \in 0 .. MaxCounter
    /\ published \in 0 .. MaxCounter
    /\ presenting \in BOOLEAN /\ timer \in BOOLEAN
    /\ flushing \in BOOLEAN /\ closed \in BOOLEAN

\* Every record received is published, omitted or still queued, exactly once,
\* whatever is evicted, flushed or discarded: the counters the workspace shows
\* add up.
Conserved == received = omitted + published + Len(pending)

\* No counter but received can overflow, so that close() never throws: a
\* buffer that is closed holds no record.
ClosedIsEmpty == closed => pending = <<>> /\ queuedBytes = 0 /\ ~timer

\* The counters add up as long as the buffer is open, and a closed one has none
\* of its records left: no record is lost uncounted, none is kept.
RecordsAddUp == Conserved /\ ClosedIsEmpty

\* The queue stays within both limits, and queuedBytes is what it holds.
QueueIsBounded ==
    /\ Len(pending) <= QueuedRecords
    /\ queuedBytes = Bytes(pending)
    /\ queuedBytes <= QueuedBytes

\* Whatever is queued fits a batch alone: flush(), which loops until the queue
\* is empty, always takes at least one record.
EveryRecordFitsABatch ==
    \A k \in 1 .. Len(pending) : pending[k] + EnvelopeBytes <= BatchBytes

\* Once records are presented none is stranded: a flush is due or under way.
NothingStranded == (presenting /\ pending # <<>>) => timer \/ flushing

\* A flush that is due comes, and ends.
FlushProgress == EveryRecordFitsABatch /\ NothingStranded

\* The queue is within its limits, and what it holds can leave it.
QueueIsSound == QueueIsBounded /\ FlushProgress

\* The records that wait while records are presented leave the queue: the
\* timer that a receipt arms is never lost.
QueueDrains == (presenting /\ pending # <<>>) ~> pending = <<>>
============================================================================
