------------------------- MODULE KafkaConsumption -------------------------
(***************************************************************************)
(* Record consumption of KafkaApplicationSession: one stream at a time,    *)
(* and a stop barrier that the next stream and the next connection wait    *)
(* behind.                                                                 *)
(*                                                                         *)
(* A consumption is a record.  Its phase follows the awaits of             *)
(* openConsumption and pumpConsumption:                                    *)
(*   waiting    behind the stop of its predecessor (after)                 *)
(*   opening    openMessageStream is in flight                             *)
(*   late       the stream opened after it was superseded; closing it      *)
(*   streaming  the pump iterates the stream                               *)
(*   closing    stream.close() is in flight                                *)
(*   done       nothing is in flight                                       *)
(* "residue" is what a refused close left behind: a "stream" its           *)
(* connection still knows and will close, or a "late" stream that no       *)
(* connection knows.                                                       *)
(* "stop" is the state of its completeConsumptionStop promise, "previous"  *)
(* the stop that promise also awaits, and "covered" whether closing the    *)
(* connection also confirms the cleanup.                                   *)
(***************************************************************************)
EXTENDS KafkaSessionFields

VARIABLES
    consumer,          \* pendingConsumption or activeConsumption, or None
    consumptionStop,   \* the consumption whose stop is the barrier, or None
    consumptions       \* every consumption of the session

consumptionVars == <<consumer, consumptionStop, consumptions>>

ConsumptionIds == 1 .. MaxCons
Phases == {"unused", "waiting", "opening", "late", "streaming", "closing", "done"}
StopStates == {"none", "pending", "ok", "failed"}
Residues == {"none", "stream", "late"}

Consumption ==
    [phase : Phases, connection : Generations \cup {None},
     generation : 0 .. MaxOps, after : ConsumptionIds \cup {None},
     residue : Residues, stop : StopStates,
     previous : ConsumptionIds \cup {None}, covered : BOOLEAN]

NoConsumption ==
    [phase |-> "unused", connection |-> None, generation |-> 0, after |-> None,
     residue |-> "none", stop |-> "none", previous |-> None, covered |-> TRUE]

ConsumptionInit ==
    /\ consumer = None
    /\ consumptionStop = None
    /\ consumptions = [k \in ConsumptionIds |-> NoConsumption]

ConsumptionTypeOK ==
    /\ consumer \in ConsumptionIds \cup {None}
    /\ consumptionStop \in ConsumptionIds \cup {None}
    /\ consumptions \in [ConsumptionIds -> Consumption]

StopFailed(k) == k # None /\ consumptions[k].stop = "failed"
StopPending(k) == k # None /\ consumptions[k].stop = "pending"

---------------------------------------------------------------------------
(* stopConsumption(), as the values it gives to the three variables: the   *)
(* pending or active consumption is dropped, a stream is told to close,    *)
(* and its stop becomes the barrier.  A pending open may still create a    *)
(* stream after the connection is gone, so that stop is not covered.       *)

HasConsumptionToStop == consumer # None \/ consumptionStop # None

StopBarrier == IF consumer = None THEN consumptionStop ELSE consumer

\* Mutant: the stop of an open in flight counts as covered.
IsCoveredWithoutOpening(c) ==
    consumptionStop # None => consumptions[consumptionStop].covered

IsCovered(c) ==
    /\ consumptionStop # None => consumptions[consumptionStop].covered
    /\ c.phase \notin {"opening", "late"}

Stopped(c) ==
    [c EXCEPT !.stop = "pending",
              !.previous = consumptionStop,
              !.covered = IsCovered(c),
              !.phase = IF c.phase = "streaming" THEN "closing" ELSE c.phase]

AfterStop ==
    [k \in ConsumptionIds |->
        IF k = consumer THEN Stopped(consumptions[k]) ELSE consumptions[k]]

StopConsumptionEffect ==
    /\ consumer' = None
    /\ consumptionStop' = StopBarrier
    /\ consumptions' = AfterStop

StopConsumption ==
    /\ consumer # None
    /\ StopConsumptionEffect

---------------------------------------------------------------------------
IsCurrentConsumption(k) ==
    /\ consumer = k
    /\ IsCurrentConnection(consumptions[k].connection, consumptions[k].generation)

IsFresh(k) ==
    /\ consumptions[k].phase = "unused"
    /\ \A j \in 1 .. k - 1 : consumptions[j].phase # "unused"

Drop(k) == IF consumer = k THEN None ELSE consumer

\* The promise of startConsumption settles without a running stream.
Finish(k, residue) ==
    /\ consumptions' = [consumptions EXCEPT
          ![k] = [@ EXCEPT !.phase = "done", !.after = None, !.residue = residue]]
    /\ consumer' = Drop(k)
    /\ UNCHANGED consumptionStop

\* Without a connection only the stop it begins with takes effect.
StartConsumption(k) ==
    /\ ~shuttingDown
    /\ IsFresh(k)
    /\ \/ /\ IsConnected
          /\ consumptionStop' = StopBarrier
          /\ consumer' = k
          /\ consumptions' =
                [AfterStop EXCEPT ![k] =
                    [NoConsumption EXCEPT !.phase = "waiting",
                                          !.connection = activeConnection,
                                          !.generation = generation,
                                          !.after = StopBarrier]]
       \/ /\ ~IsConnected
          /\ StopConsumptionEffect

\* Mutant: waits for the barrier of the moment, not for the one it found.
BarrierIsLifted(k) == consumptionStop = None

PreviousStopIsOver(k) ==
    LET previous == consumptions[k].after
    IN  previous # None => consumptions[previous].stop = "ok"

\* await previousStop resolved.
BeginOpen(k) ==
    /\ consumptions[k].phase = "waiting"
    /\ PreviousStopIsOver(k)
    /\ \/ /\ IsCurrentConsumption(k)
          /\ consumptions' = [consumptions EXCEPT
                ![k] = [@ EXCEPT !.phase = "opening", !.after = None]]
          /\ UNCHANGED <<consumer, consumptionStop>>
       \/ /\ ~IsCurrentConsumption(k)
          /\ Finish(k, "none")

\* await previousStop rejected: that stop failed, or took five seconds.
RejectBehindStop(k) ==
    /\ consumptions[k].phase = "waiting"
    /\ consumptions[k].after # None
    /\ consumptions[consumptions[k].after].stop # "ok"
    /\ Finish(k, "none")

StreamOpens(k) ==
    /\ consumptions[k].phase = "opening"
    /\ consumptions' = [consumptions EXCEPT ![k].phase =
                            IF IsCurrentConsumption(k) THEN "streaming" ELSE "late"]
    /\ UNCHANGED <<consumer, consumptionStop>>

\* The error may carry the cause of a failed cleanup; the session keeps it
\* only for a superseded open.
StreamOpenFails(k, cleanupFailed) ==
    /\ consumptions[k].phase = "opening"
    /\ Finish(k, IF cleanupFailed /\ ~IsCurrentConsumption(k) THEN "late" ELSE "none")

LateStreamCloses(k, failed) ==
    /\ consumptions[k].phase = "late"
    /\ Finish(k, IF failed THEN "late" ELSE "none")

\* The iterator ends, fails, or yields to a pump that is no longer current.
PumpEnds(k) ==
    /\ consumptions[k].phase = "streaming"
    /\ consumptions' = [consumptions EXCEPT ![k].phase = "closing"]
    /\ UNCHANGED <<consumer, consumptionStop>>

\* A pump that is still current owns its cleanup: a refused close becomes
\* the stop barrier, exactly as an explicit stop would have made it.  So does
\* a failure its observer throws on being told of, hence "failed" stands for
\* either; an observer that throws on a record or on coverage is PumpEnds.
StreamCloses(k, failed) ==
    /\ consumptions[k].phase = "closing"
    /\ consumer' = IF IsCurrentConsumption(k) THEN None ELSE consumer
    /\ \/ /\ failed /\ IsCurrentConsumption(k)
          /\ consumptionStop' = k
          /\ consumptions' = [consumptions EXCEPT
                ![k] = [@ EXCEPT !.phase = "done", !.residue = "stream", !.stop = "failed"]]
       \/ /\ ~(failed /\ IsCurrentConsumption(k))
          /\ consumptions' = [consumptions EXCEPT
                ![k] = [@ EXCEPT !.phase = "done",
                                 !.residue = IF failed THEN "stream" ELSE "none"]]
          /\ UNCHANGED consumptionStop

\* Mutant: a stop forgets that the stop before it failed.
StopFailsAlone(k) == consumptions[k].residue # "none"

\* completeConsumptionStop rejects for its own cleanup or the one before it.
StopFails(k) == consumptions[k].residue # "none" \/ StopFailed(consumptions[k].previous)

\* completeConsumptionStop settles, and with it the barrier it is tracked as.
StopSettles(k) ==
    LET c == consumptions[k]
        confirmed == c.covered /\ connections[c.connection] = "closed"
    IN  /\ c.stop = "pending"
        /\ c.phase = "done"
        /\ ~StopPending(c.previous)
        /\ consumptions' = [consumptions EXCEPT
              ![k] = [@ EXCEPT !.stop = IF StopFails(k) THEN "failed" ELSE "ok",
                               !.previous = None]]
        /\ consumptionStop' = IF consumptionStop = k /\ (~StopFails(k) \/ confirmed)
                                THEN None ELSE consumptionStop
        /\ UNCHANGED consumer

\* Mutant: a barrier outlives the connection that covers it.
BarrierStays(c) == consumptionStop

\* What finishConnectionClose does to the barrier when connection c is closed.
BarrierAfterClose(c) ==
    IF /\ StopFailed(consumptionStop)
       /\ consumptions[consumptionStop].covered
       /\ consumptions[consumptionStop].connection = c
    THEN None ELSE consumptionStop

ConsumptionStep(k) ==
    \/ StartConsumption(k)
    \/ BeginOpen(k)
    \/ RejectBehindStop(k)
    \/ StreamOpens(k)
    \/ \E failed \in BOOLEAN :
          \/ StreamOpenFails(k, failed)
          \/ LateStreamCloses(k, failed)
          \/ StreamCloses(k, failed)
    \/ PumpEnds(k)
    \/ StopSettles(k)
===========================================================================
