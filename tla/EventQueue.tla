----------------------------- MODULE EventQueue -----------------------------
(***************************************************************************)
(* EventQueue: the accounted queue between a provider's events and one of  *)
(* its clients, as operators on a queue. What waits and what is being      *)
(* written share one budget of events, bytes and records. At a limit the   *)
(* queue of the desktop rejects the event, and the queue of an event       *)
(* stream drops its oldest waiting records and keeps count of them in the  *)
(* generation that they belong to.                                         *)
(*                                                                         *)
(* A record is the number with which it arrived in its read.               *)
(***************************************************************************)
EXTENDS Integers, SequencesExt

CONSTANTS
    MaxEvents, MaxBytes, MaxRecords, MaxRecordBytes,   \* the limits
    Large                                              \* the size of every second record

ASSUME QueueAssumption == {MaxEvents, MaxBytes, MaxRecords, MaxRecordBytes, Large} \subseteq Nat \ {0}

Size(record) == IF record % 2 = 0 THEN Large ELSE 1
SumOf(numbers) ==
    LET Sum[i \in 0 .. Len(numbers)] == IF i = 0 THEN 0 ELSE Sum[i - 1] + numbers[i]
    IN Sum[Len(numbers)]
SizeOf(records) == SumOf([i \in 1 .. Len(records) |-> Size(records[i])])

\* A record batch has its commas, every event an envelope.
EventBytes(event) == 1 + SizeOf(event.records) + (IF Len(event.records) > 1 THEN Len(event.records) - 1 ELSE 0)

NoEvent == [kind |-> "none", read |-> 0, state |-> "none", received |-> 0, dropped |-> 0,
            records |-> <<>>, seq |-> 0]

\* drops has the omitted records of every generation; entries name theirs.
EmptyQueue == [pending |-> <<>>, inflight |-> <<>>, drops |-> <<0>>,
               bytes |-> 0, records |-> 0, recordBytes |-> 0, failure |-> "none"]

IsBatch(event) == event.kind = "batch"

\* The first of the entries that are sought, if there is one.
Oldest(indices) == IF indices = {} THEN 0 ELSE Min(indices)

\* Kafka's policies: the loading state starts a generation, batches and
\* states carry its omissions, and unsent metrics of a read are replaced.
StartsGeneration(event) == event.kind = "state" /\ event.state = "loading"
Decorated(event, dropped) ==
    IF event.kind \in {"batch", "state"} THEN [event EXCEPT !.dropped = @ + dropped] ELSE event
MayReplace(event) == event.kind = "metrics" /\ event.state # "loading"

---------------------------------------------------------------------------
\* releaseCosts
Released(q, entry) ==
    [q EXCEPT !.bytes = @ - entry.bytes, !.records = @ - Len(entry.event.records),
              !.recordBytes = @ - SizeOf(entry.event.records)]

\* Mutant: a batch that is evicted is not counted.
RemovedQuietly(q, i, dropped) == [Released(q, q.pending[i]) EXCEPT !.pending = RemoveAt(@, i)]

\* remove(entry, dropped)
Removed(q, i, dropped) ==
    LET entry == q.pending[i]
        rest == [Released(q, entry) EXCEPT !.pending = RemoveAt(@, i)]
    IN IF dropped THEN [rest EXCEPT !.drops[entry.generation] = @ + Len(entry.event.records)]
       ELSE rest

LimitFailure(q) ==
    IF Len(q.pending) + Len(q.inflight) > MaxEvents THEN "event-limit"
    ELSE IF q.bytes > MaxBytes THEN "byte-limit"
    ELSE IF q.records > MaxRecords THEN "record-limit"
    ELSE IF q.recordBytes > MaxRecordBytes THEN "record-byte-limit"
    ELSE "none"

\* Mutant: the entry is released later with the bytes that it came with.
TrimmedPrefixStale(q, i) ==
    LET oldest == Head(q.pending[i].event.records) IN
    IF Len(q.pending[i].event.records) = 1 THEN Removed(q, i, TRUE)
    ELSE [q EXCEPT !.pending[i].event.records = Tail(@), !.bytes = @ - Size(oldest) - 1,
                   !.records = @ - 1, !.recordBytes = @ - Size(oldest),
                   !.drops[q.pending[i].generation] = @ + 1]

\* Without its oldest n records, an entry costs their size and a comma each less.
TrimmedBy(q, i, n, size) ==
    [q EXCEPT !.pending[i].event.records = SubSeq(@, n + 1, Len(@)),
              !.pending[i].bytes = @ - size - n,
              !.bytes = @ - size - n, !.records = @ - n, !.recordBytes = @ - size,
              !.drops[q.pending[i].generation] = @ + n]

\* trimPrefix: the fewest oldest records that bring the queue under its
\* limits, or the entry.
Without(q, i, n) == TrimmedBy(q, i, n, SizeOf(SubSeq(q.pending[i].event.records, 1, n)))
Enough(q, i) ==
    {n \in 1 .. Len(q.pending[i].event.records) - 1 : LimitFailure(Without(q, i, n)) = "none"}
TrimmedPrefix(q, i) ==
    IF Enough(q, i) = {} THEN Removed(q, i, TRUE) ELSE Without(q, i, Min(Enough(q, i)))

\* One turn of trim's loop.
Candidate(q, failure, incoming) ==
    Oldest({i \in DOMAIN q.pending :
               /\ IsBatch(q.pending[i].event)
               /\ IF failure = "event-limit" THEN q.pending[i].event.seq # incoming
                  ELSE Len(q.pending[i].event.records) > 0})
TrimmedAt(q, failure, i) ==
    IF failure = "none" \/ i = 0 THEN q
    ELSE IF failure = "event-limit" THEN Removed(q, i, TRUE)
    ELSE TrimmedPrefix(q, i)
TrimTurn(q, incoming) == TrimmedAt(q, LimitFailure(q), Candidate(q, LimitFailure(q), incoming))

Trimmed(q, incoming) ==
    LET After[turn \in 0 .. Len(q.pending)] ==
            IF turn = 0 THEN q ELSE TrimTurn(After[turn - 1], incoming)
    IN After[Len(q.pending)]

\* The unsent batches of the generation before go, with their count.
RemovedBatch(q, i) == IF i = 0 THEN q ELSE Removed(q, i, TRUE)
BatchTurn(q) == RemovedBatch(q, Oldest({i \in DOMAIN q.pending : IsBatch(q.pending[i].event)}))
NextGeneration(q) ==
    LET After[turn \in 0 .. Len(q.pending)] == IF turn = 0 THEN q ELSE BatchTurn(After[turn - 1])
    IN [After[Len(q.pending)] EXCEPT !.drops = Append(@, 0)]

Replaced(q, event) ==
    LET i == Oldest({k \in DOMAIN q.pending : MayReplace(q.pending[k].event)
                                               /\ q.pending[k].event.read = event.read})
    IN IF ~MayReplace(event) \/ i = 0 THEN q ELSE Removed(q, i, FALSE)

\* An event that comes in makes room by its policy, and has its costs.
RoomMade(q, evicts, event) ==
    CASE evicts /\ StartsGeneration(event) -> NextGeneration(q)
      [] ~evicts -> Replaced(q, event)
      [] OTHER -> q
Added(q, event, bytes) ==
    [q EXCEPT !.pending = Append(@, [event |-> event, bytes |-> bytes, generation |-> Len(q.drops)]),
              !.bytes = @ + bytes, !.records = @ + Len(event.records),
              !.recordBytes = @ + SizeOf(event.records)]
Fitted(q, evicts, event) == IF evicts /\ IsBatch(event) THEN Trimmed(q, event.seq) ELSE q
Limited(q) == [q EXCEPT !.failure = LimitFailure(q)]

\* enqueue(event). Whoever is told of a failure closes the queue.
Enqueued(q, evicts, event) ==
    Limited(Fitted(Added(RoomMade(q, evicts, event), event, EventBytes(event)), evicts, event))

\* begin(): the oldest entry becomes the one lease. What is sent has the
\* omissions of its generation.
MayBegin(q) == q.inflight = <<>> /\ q.pending # <<>>
Begun(q) == [q EXCEPT !.inflight = <<Head(q.pending)>>, !.pending = Tail(@)]
Lease(q, evicts) ==
    LET entry == q.inflight[1] IN
    IF evicts THEN Decorated(entry.event, q.drops[entry.generation]) ELSE entry.event

\* complete()
Completed(q) ==
    IF q.inflight = <<>> THEN q ELSE [Released(q, q.inflight[1]) EXCEPT !.inflight = <<>>]
=============================================================================
