---------------------- MODULE KafkaSessionProperties ----------------------
(* What KafkaApplicationSession promises, over the model of KafkaSession.  *)
EXTENDS KafkaSession

InFlight(k) == consumptions[k].phase \in {"opening", "late", "streaming", "closing"}

ConnectionOf(k) == consumptions[k].connection

\* What a refused close left behind and nothing has cleaned up since: a late
\* stream, or a stream whose connection is not closed either.
Unconfirmed(k) ==
    \/ consumptions[k].residue = "late"
    \/ /\ consumptions[k].residue = "stream"
       /\ connections[ConnectionOf(k)] # "closed"

\* A connection that serves is the one the newest operation opened, is open,
\* and nothing is closing it: work never borrows a connection that a later
\* connect or disconnect has given up (activeConnection, session.ts).
ServingIsCurrent ==
    /\ snapshot = "connected" => activeConnection # None
    /\ activeConnection # None =>
          /\ snapshot = "connected"
          /\ activeConnection = generation
          /\ ~shuttingDown
          /\ connections[activeConnection] = "open"
          /\ closures[activeConnection] = "none"

\* Every open connection has an owner that will close it: it serves, its
\* close is tracked (or refused and kept for a retry), or the attempt that
\* opened it is still deciding.  No interleaving of attempts forgets one.
OpenConnectionIsOwned ==
    \A c \in Generations :
        connections[c] = "open" =>
            \/ c = activeConnection
            \/ closures[c] # "none"
            \/ ops[c].phase \in {"installing", "late", "cancelled"}

\* The two together: the session knows the one connection it may use, and no
\* other is left open behind it.
ConnectionsAreOwned == ServingIsCurrent /\ OpenConnectionIsOwned

\* Why the two hold: an attempt that has not settled owns what it opened, and
\* only a settled one can be serving or have a tracked close.
AttemptOwnsConnection ==
    \A g \in Generations :
        /\ g > generation => ops[g].phase = "none"
        /\ ops[g].phase \in {"none", "cleanup", "opening", "finishing"} =>
              connections[g] = "none"
        /\ ops[g].phase \in {"installing", "late", "cancelled"} => connections[g] = "open"
        /\ ops[g].phase = "installing" => IsCurrent(g)
        /\ ops[g].phase # "settled" => closures[g] = "none" /\ activeConnection # g
        /\ closures[g] # "none" => connections[g] = "open"

\* The invariant behind it, which every step preserves.
OwnershipInv == ServingIsCurrent /\ OpenConnectionIsOwned /\ AttemptOwnsConnection

\* "disconnected" is published only over a quiet session: no tracked close is
\* outstanding or refused, no stream is in flight or unconfirmed, no barrier
\* is left and no session request is running.
DisconnectedIsQuiet ==
    snapshot = "disconnected" =>
        /\ \A c \in Generations : closures[c] = "none"
        /\ consumer = None
        /\ consumptionStop = None
        /\ \A k \in ConsumptionIds : ~InFlight(k) /\ ~Unconfirmed(k)
        /\ Running(Classes \ {"test"}) = {}

\* A stream opens or runs only after every earlier stream is released: its
\* close succeeded, or the connection that covers it was closed.
ExclusiveStream ==
    \A k, j \in ConsumptionIds :
        /\ j < k
        /\ consumptions[k].phase \in {"opening", "streaming"}
        => ~InFlight(j) /\ ~Unconfirmed(j)

\* A stream nobody consumes any more, or whose close was refused, is held by
\* the stop barrier until it is confirmed: no caller can start past it.
StrayStreamIsBarred ==
    \A k \in ConsumptionIds :
        (k # consumer /\ InFlight(k)) \/ Unconfirmed(k) => consumptionStop # None

\* A failed barrier blocks every later start and connect, so it must have a
\* reason: it stands only while some stream is unconfirmed, whichever of the
\* stop and the connection close settled last.
BarrierHasReason ==
    StopFailed(consumptionStop) => \E k \in ConsumptionIds : Unconfirmed(k)

\* One stream at a time, and a barrier exactly for the streams that are left.
StreamsAreBarred == ExclusiveStream /\ StrayStreamIsBarred /\ BarrierHasReason

\* A read or a probe delivers its value only while the connection it borrowed
\* still serves and no newer request of its class has been sent; a reconnect
\* between the send and the answer turns it into "superseded".
ReadsStayCurrent ==
    [][\A r \in RequestIds :
          (r \in Running({"read", "latency"}) /\ requests'[r].result = "value") =>
              /\ requests[r].connection = activeConnection
              /\ \A q \in r + 1 .. MaxReqs :
                    requests[q].phase = "unused" \/ requests[q].class # requests[r].class
      ]_vars

\* Disconnect and shutdown settle even when the port never answers again:
\* the five-second timer covers everything they wait for.
EndSettlesEventually ==
    (\E g \in Generations : ops[g].phase = "finishing")
        ~> \A g \in Generations : ops[g].phase # "finishing"

\* No wait is for good: once the port and the adapter answer, every connect and
\* every stop settles.  Connects that wait for stops, stops that wait for earlier
\* stops and starts that wait for both form no cycle.
WaitsEndEventually ==
    LET Waits == \/ \E g \in Generations : ops[g].phase \notin {"none", "settled"}
                 \/ \E k \in ConsumptionIds : StopPending(k)
    IN  PortFairness /\ StreamFairness => (Waits ~> ~Waits)

\* Every operation of the session settles.
LifecycleSettles == EndSettlesEventually /\ WaitsEndEventually

---------------------------------------------------------------------------
\* The session implements the lease: its generation, active connection and
\* shutdown flag move exactly as ConnectionLease lets them.
Lease == INSTANCE ConnectionLease WITH
            newest <- generation, serving <- activeConnection, ended <- shuttingDown

ImplementsLease == Lease!LeaseSpec
===========================================================================
