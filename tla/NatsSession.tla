---------------------------- MODULE NatsSession ----------------------------
(***************************************************************************)
(* NatsApplicationSession: connect, disconnect, start, stop and shutdown   *)
(* over an engine that owns the broker resources.                          *)
(*                                                                         *)
(* A call is named by its number, and that number is the intent it takes.  *)
(* The phase of a call follows its awaits:                                 *)
(*   scheduled   its microtask has not run yet                             *)
(*   clearing    engine.disconnect() or engine.stopSubscription()          *)
(*   resolving   connect: the profile is being resolved                    *)
(*   opening     connect, start: the engine is opening                     *)
(*   opened      connect, start: the engine has opened                     *)
(*   recovering  connect: engine.disconnect() after a failure              *)
(*   awaiting    disconnect, stop: waiting for the setups it interrupted   *)
(*   settled     its promise has settled                                   *)
(* "cleanup" is the engine call that a lost connection (of a connect) or a *)
(* failed subscription (of a start) sends off on its own.                  *)
(*                                                                         *)
(* The engine is reduced to what NatsEngine promises: a disconnect retires *)
(* everything the engine owns when it is called and succeeds only when all *)
(* of it is closed; a close that fails stays failed.                       *)
(***************************************************************************)
EXTENDS Integers, FiniteSets

CONSTANT MaxCalls   \* bound: calls in a behaviour

ASSUME MaxCallsAssumption == MaxCalls \in Nat

VARIABLES
    calls,               \* every call, by its number
    connectionIntent,    \* the newest connect or disconnect
    subscriptionIntent,  \* the newest call that took or revoked the subscription
    connection,          \* connection.state
    subscription,        \* subscription.state
    subscribed,          \* whether the subscription has a generation
    reservations,        \* profileReservations, by the connect that holds one
    cleanupFailed,
    disconnectPromise,   \* the disconnect a second disconnect joins, or None
    stopPromise,         \* the stop a second stop joins, or None
    shutdown,            \* how far the shutdown is, or "none"
    revisions,           \* connectionRevision and subscriptionRevision
    shown,               \* the revisions of the two snapshots
    viewed,              \* what a viewer holds that drops older revisions
    conn,                \* engine: the connection of each connect
    sub                  \* engine: the subscription of each start

intentVars == <<connectionIntent, subscriptionIntent, disconnectPromise, stopPromise, shutdown>>
snapshotVars == <<connection, subscription, subscribed, revisions, shown, viewed>>
engineVars == <<conn, sub>>
vars == <<calls, intentVars, snapshotVars, reservations, cleanupFailed, engineVars>>

None == 0
CallIds == 1 .. MaxCalls
Kinds == {"none", "connect", "disconnect", "start", "stop"}
Phases == {"unused", "scheduled", "clearing", "resolving", "opening", "opened", "recovering",
           "awaiting", "settled"}
ConnectionStates == {"disconnected", "connecting", "connected", "disconnecting", "failed"}
SubscriptionStates == {"idle", "loading", "streaming", "stopping", "stopped", "failed"}

\* "retiring": revoked, and closing or still to be closed.
Resources == {"none", "opening", "open", "retiring", "closed", "leaked"}
Revisions == [c : Nat, s : Nat]

Call ==
    [kind : Kinds, phase : Phases, on : CallIds \cup {None}, prior : SUBSET CallIds,
     waits : SUBSET CallIds, pending : SUBSET CallIds, reserved : Revisions,
     cleanup : {"none", "pending", "done"}, cleans : SUBSET CallIds, kept : SUBSET CallIds]

NoCall ==
    [kind |-> "none", phase |-> "unused", on |-> None, prior |-> {}, waits |-> {},
     pending |-> {}, reserved |-> [c |-> 0, s |-> 0], cleanup |-> "none", cleans |-> {},
     kept |-> {}]

Init ==
    /\ calls = [i \in CallIds |-> NoCall]
    /\ connectionIntent = None /\ subscriptionIntent = None
    /\ disconnectPromise = None /\ stopPromise = None
    /\ shutdown = "none"
    /\ connection = "disconnected"
    /\ subscription = "idle"
    /\ subscribed = FALSE
    /\ revisions = [c |-> 0, s |-> 0]
    /\ shown = revisions
    /\ viewed = [revision |-> revisions, connection |-> connection, subscription |-> subscription]
    /\ reservations = {}
    /\ cleanupFailed = FALSE
    /\ conn = [i \in CallIds |-> "none"]
    /\ sub = [i \in CallIds |-> "none"]

TypeOK ==
    /\ calls \in [CallIds -> Call]
    /\ {connectionIntent, subscriptionIntent, disconnectPromise, stopPromise}
          \subseteq CallIds \cup {None}
    /\ shutdown \in {"none", "scheduled", "running", "ok", "failed"}
    /\ connection \in ConnectionStates
    /\ subscription \in SubscriptionStates
    /\ subscribed \in BOOLEAN
    /\ {revisions, shown} \subseteq Revisions
    /\ viewed \in [revision : Revisions, connection : ConnectionStates,
                  subscription : SubscriptionStates]
    /\ reservations \subseteq CallIds
    /\ cleanupFailed \in BOOLEAN
    /\ conn \in [CallIds -> Resources]
    /\ sub \in [CallIds -> Resources]

---------------------------------------------------------------------------
(* The engine.                                                             *)

InUse == {"opening", "open", "retiring", "leaked"}
Owned == {i \in CallIds : conn[i] \in InUse \/ sub[i] \in InUse}
OwnedSubscriptions == {i \in CallIds : sub[i] \in InUse}

Change(resources, from, to) ==
    [i \in CallIds |-> IF resources[i] \in from THEN to ELSE resources[i]]

\* A signal that aborts revokes what is still opening under it.
AbortConnection == conn' = Change(conn, {"opening"}, "retiring")
AbortSubscription == sub' = Change(sub, {"opening"}, "retiring")

\* engine.disconnect() and engine.stopSubscription() retire what they find;
\* the caller then waits for everything the engine owned.
DisconnectEngine ==
    /\ conn' = Change(conn, {"opening", "open"}, "retiring")
    /\ sub' = Change(sub, {"opening", "open"}, "retiring")

StopEngine ==
    /\ sub' = Change(sub, {"opening", "open"}, "retiring")
    /\ UNCHANGED conn

\* The engine call that waits for ids settles; a failed close stays failed.
Closed(resources, ids, failed) ==
    [i \in CallIds |-> IF i \in ids /\ resources[i] = "retiring"
                       THEN IF failed THEN "leaked" ELSE "closed"
                       ELSE resources[i]]

EngineSettles(ids, failed) ==
    /\ conn' = Closed(conn, ids, failed)
    /\ sub' = Closed(sub, ids, failed)
    /\ failed <=> \E i \in ids : "leaked" \in {conn'[i], sub'[i]}

---------------------------------------------------------------------------
Closing == shutdown # "none"
IsFresh(i) == calls[i].kind = "none" /\ \A j \in 1 .. i - 1 : calls[j].kind # "none"

\* Mutant: a disconnect does not supersede a connect.
OwnsUntilConnect(i) ==
    ~Closing /\ \A j \in i + 1 .. MaxCalls : calls[j].kind # "connect"

\* assertConnection and assertSubscription.
OwnsConnection(i) == ~Closing /\ connectionIntent = i

OwnsSubscription(i) ==
    ~Closing /\ subscriptionIntent = i /\ connectionIntent = calls[i].on

\* The newest setup of a kind, if it has not settled.
PendingSetup(kind) ==
    {j \in CallIds :
        /\ calls[j].kind = kind
        /\ calls[j].phase # "settled"
        /\ \A k \in j + 1 .. MaxCalls : calls[k].kind # kind}

\* The workspace drops a snapshot older than the one it holds.
Viewing(c, connectionState, s, subscriptionState) ==
    [revision |-> [c |-> IF c < viewed.revision.c THEN viewed.revision.c ELSE c,
                   s |-> IF s < viewed.revision.s THEN viewed.revision.s ELSE s],
     connection |-> IF c < viewed.revision.c THEN viewed.connection ELSE connectionState,
     subscription |-> IF s < viewed.revision.s THEN viewed.subscription
                      ELSE subscriptionState]

\* What a snapshot is given during a shutdown is never sent.
Show(c, s) ==
    /\ shown' = [c |-> c, s |-> s]
    /\ viewed' = IF Closing THEN viewed ELSE Viewing(c, connection', s, subscription')

\* changeConnection and changeSubscription take the next revision.
ChangeConnection(state) ==
    /\ connection' = state
    /\ revisions' = [revisions EXCEPT !.c = @ + 1]
    /\ UNCHANGED <<subscription, subscribed>>
    /\ Show(revisions'.c, shown.s)

ChangeSubscription(state) ==
    /\ subscription' = state
    /\ revisions' = [revisions EXCEPT !.s = @ + 1]
    /\ UNCHANGED <<connection, subscribed>>
    /\ Show(shown.c, revisions'.s)

Goto(i, phase) == calls' = [calls EXCEPT ![i].phase = phase]

GotoAndWait(i, phase, ids) ==
    calls' = [calls EXCEPT ![i] = [@ EXCEPT !.phase = phase, !.waits = ids]]

\* The cleanup that a call sent off on its own outlives it.
Settle(i) ==
    calls' = [calls EXCEPT ![i] =
                 [NoCall EXCEPT !.kind = calls[i].kind, !.phase = "settled", !.on = calls[i].on,
                                !.cleanup = calls[i].cleanup, !.cleans = calls[i].cleans,
                                !.kept = calls[i].kept]]

\* revokeSubscription() turns any subscription that is not stopped.
IsRevocable == subscribed /\ subscription # "stopped"
Revoked == IF IsRevocable THEN "stopping" ELSE subscription
RevokedRevision == IF IsRevocable THEN revisions.s + 1 ELSE revisions.s
RevokedShown == IF IsRevocable THEN RevokedRevision ELSE shown.s

\* What a stop or a disconnect confirms, and returns although it is superseded.
Ended == IF subscribed THEN "stopped" ELSE "idle"

---------------------------------------------------------------------------
(* The calls, up to their first await.                                     *)

Connect(i) ==
    /\ ~Closing /\ ~cleanupFailed /\ IsFresh(i)
    /\ connectionIntent' = i /\ subscriptionIntent' = i
    /\ disconnectPromise' = None /\ stopPromise' = None
    /\ connection' = "connecting"
    /\ subscription' = Revoked
    /\ revisions' = [c |-> revisions.c + 1, s |-> RevokedRevision]
    /\ Show(revisions.c + 1, RevokedShown)
    /\ reservations' = reservations \cup {i}
    /\ calls' = [calls EXCEPT ![i] =
                    [NoCall EXCEPT !.kind = "connect", !.phase = "scheduled",
                                   !.prior = reservations]]
    /\ AbortConnection /\ AbortSubscription
    /\ UNCHANGED <<shutdown, subscribed, cleanupFailed>>

\* The revisions of its result are reserved before a replacement can take one.
Disconnect(i) ==
    /\ ~Closing /\ disconnectPromise = None /\ IsFresh(i)
    /\ connectionIntent' = i /\ subscriptionIntent' = i
    /\ disconnectPromise' = i /\ stopPromise' = None
    /\ connection' = "disconnecting"
    /\ subscription' = Revoked
    /\ revisions' = [c |-> revisions.c + 2, s |-> RevokedRevision + 1]
    /\ Show(revisions.c + 1, RevokedShown)
    /\ calls' = [calls EXCEPT ![i] =
                    [NoCall EXCEPT !.kind = "disconnect", !.phase = "scheduled",
                                   !.prior = reservations, !.reserved = revisions',
                                   !.pending = PendingSetup("connect") \cup PendingSetup("start")]]
    /\ AbortConnection /\ AbortSubscription
    /\ UNCHANGED <<shutdown, subscribed, reservations, cleanupFailed>>

Start(i) ==
    /\ ~Closing /\ ~cleanupFailed /\ IsFresh(i)
    /\ connection = "connected"
    /\ subscriptionIntent' = i
    /\ stopPromise' = None
    /\ subscription' = "loading"
    /\ subscribed' = TRUE
    /\ revisions' = [revisions EXCEPT !.s = @ + 1]
    /\ calls' = [calls EXCEPT ![i] =
                    [NoCall EXCEPT !.kind = "start", !.phase = "scheduled",
                                   !.on = connectionIntent]]
    /\ AbortSubscription
    /\ UNCHANGED <<connectionIntent, disconnectPromise, shutdown, connection, reservations,
                   cleanupFailed, conn>>
    /\ Show(shown.c, revisions'.s)

\* Mutant: the revision of its result is taken before that of "stopping".
StopReservesFirst(i) ==
    /\ ~Closing /\ stopPromise = None /\ IsFresh(i)
    /\ subscriptionIntent' = i
    /\ stopPromise' = i
    /\ subscription' = IF subscribed THEN "stopping" ELSE "idle"
    /\ revisions' = [revisions EXCEPT !.s = @ + 2]
    /\ calls' = [calls EXCEPT ![i] =
                    [NoCall EXCEPT !.kind = "stop", !.phase = "scheduled",
                                   !.reserved = [revisions EXCEPT !.s = @ + 1],
                                   !.pending = PendingSetup("start")]]
    /\ AbortSubscription
    /\ UNCHANGED <<connectionIntent, disconnectPromise, shutdown, connection, subscribed,
                   reservations, cleanupFailed, conn>>
    /\ Show(shown.c, revisions.s + 2)

Stop(i) ==
    /\ ~Closing /\ stopPromise = None /\ IsFresh(i)
    /\ subscriptionIntent' = i
    /\ stopPromise' = i
    /\ subscription' = IF subscribed THEN "stopping" ELSE "idle"
    /\ revisions' = [revisions EXCEPT !.s = @ + 2]
    /\ calls' = [calls EXCEPT ![i] =
                    [NoCall EXCEPT !.kind = "stop", !.phase = "scheduled",
                                   !.reserved = revisions', !.pending = PendingSetup("start")]]
    /\ AbortSubscription
    /\ UNCHANGED <<connectionIntent, disconnectPromise, shutdown, connection, subscribed,
                   reservations, cleanupFailed, conn>>
    /\ Show(shown.c, revisions.s + 1)

Shutdown ==
    /\ ~Closing
    /\ shutdown' = "scheduled"
    /\ connectionIntent' = None /\ subscriptionIntent' = None
    /\ stopPromise' = None
    /\ subscription' = Revoked
    /\ revisions' = [revisions EXCEPT !.s = RevokedRevision]
    /\ shown' = [shown EXCEPT !.s = RevokedShown]
    /\ AbortConnection /\ AbortSubscription
    /\ UNCHANGED <<calls, disconnectPromise, connection, subscribed, viewed, reservations,
                   cleanupFailed>>

---------------------------------------------------------------------------
(* connect after its first await.                                          *)

\* The catch of connect(): a current attempt publishes its failure and has
\* the engine disconnect; one that was superseded leaves that to others.
FailConnect(i) ==
    \/ /\ OwnsConnection(i)
       /\ ChangeConnection("failed")
       /\ DisconnectEngine
       /\ GotoAndWait(i, "recovering", Owned)
    \/ /\ ~OwnsConnection(i)
       /\ Settle(i)
       /\ UNCHANGED <<snapshotVars, engineVars>>

RunConnect(i) ==
    /\ calls[i].kind = "connect" /\ calls[i].phase = "scheduled"
    /\ \/ /\ OwnsConnection(i)
          /\ DisconnectEngine
          /\ GotoAndWait(i, "clearing", Owned)
       \/ /\ ~OwnsConnection(i)
          /\ Settle(i)
          /\ UNCHANGED engineVars
    /\ UNCHANGED <<intentVars, snapshotVars, reservations, cleanupFailed>>

\* After a failed clearing the catch joins the same engine.disconnect().
ConnectCleared(i, failed) ==
    /\ calls[i].kind = "connect" /\ calls[i].phase = "clearing"
    /\ EngineSettles(calls[i].waits, failed)
    /\ reservations' = IF failed THEN reservations ELSE reservations \ calls[i].prior
    /\ \/ /\ OwnsConnection(i) /\ failed
          /\ ChangeConnection("failed")
          /\ Goto(i, "recovering")
       \/ /\ OwnsConnection(i) /\ ~failed
          /\ Goto(i, "resolving")
          /\ IF subscription = "stopping" THEN ChangeSubscription("stopped")
             ELSE UNCHANGED snapshotVars
       \/ /\ ~OwnsConnection(i)
          /\ Settle(i)
          /\ UNCHANGED snapshotVars
    /\ UNCHANGED <<intentVars, cleanupFailed>>

ProfileResolves(i) ==
    /\ calls[i].kind = "connect" /\ calls[i].phase = "resolving"
    /\ \/ /\ OwnsConnection(i)
          /\ ChangeConnection("connecting")
          /\ Goto(i, "opening")
          /\ conn' = [conn EXCEPT ![i] = "opening"]
       \/ /\ ~OwnsConnection(i)
          /\ Settle(i)
          /\ UNCHANGED <<snapshotVars, conn>>
    /\ UNCHANGED <<intentVars, reservations, cleanupFailed, sub>>

\* The catch calls engine.disconnect() again.
ProfileFails(i) ==
    /\ calls[i].kind = "connect" /\ calls[i].phase = "resolving"
    /\ FailConnect(i)
    /\ UNCHANGED <<intentVars, reservations, cleanupFailed>>

EngineConnects(i) ==
    /\ calls[i].kind = "connect" /\ calls[i].phase = "opening"
    /\ conn[i] = "opening"
    /\ conn' = [conn EXCEPT ![i] = "open"]
    /\ Goto(i, "opened")
    /\ UNCHANGED <<intentVars, snapshotVars, reservations, cleanupFailed, sub>>

\* The SDK refuses, times out, or the attempt was revoked: whatever it opens
\* late is the engine's to close.
EngineRefuses(i) ==
    /\ calls[i].kind = "connect" /\ calls[i].phase = "opening"
    /\ FailConnect(i)
    /\ UNCHANGED <<intentVars, reservations, cleanupFailed>>

ConnectOpened(i) ==
    /\ calls[i].kind = "connect" /\ calls[i].phase = "opened"
    /\ \/ /\ OwnsConnection(i) /\ calls[i].cleanup = "none"
          /\ ChangeConnection("connected")
          /\ Settle(i)
          /\ UNCHANGED engineVars
       \/ /\ ~(OwnsConnection(i) /\ calls[i].cleanup = "none")
          /\ FailConnect(i)
    /\ UNCHANGED <<intentVars, reservations, cleanupFailed>>

\* Mutant: a cleanup that failed does not latch the session.
ConnectRecoversUnlatched(i, failed) ==
    /\ calls[i].phase = "recovering"
    /\ EngineSettles(calls[i].waits, failed)
    /\ Settle(i)
    /\ reservations' = IF failed THEN reservations
                       ELSE reservations \ (calls[i].prior \cup {i})
    /\ UNCHANGED <<intentVars, snapshotVars, cleanupFailed>>

ConnectRecovers(i, failed) ==
    /\ calls[i].phase = "recovering"
    /\ EngineSettles(calls[i].waits, failed)
    /\ Settle(i)
    /\ reservations' = IF failed THEN reservations
                       ELSE reservations \ (calls[i].prior \cup {i})
    /\ cleanupFailed' = (cleanupFailed \/ failed)
    /\ IF failed /\ connectionIntent = i THEN ChangeConnection("failed")
       ELSE UNCHANGED snapshotVars
    /\ UNCHANGED intentVars

---------------------------------------------------------------------------
(* connectionLost, and the engine.disconnect() it sends off.               *)

EngineLoses(i) ==
    /\ conn[i] = "open"
    /\ \/ /\ OwnsConnection(i)
          /\ subscriptionIntent' = None
          /\ stopPromise' = None
          /\ connection' = "failed"
          /\ subscription' = IF IsRevocable THEN "failed" ELSE subscription
          /\ revisions' = [c |-> revisions.c + 1,
                           s |-> IF IsRevocable THEN revisions.s + 2 ELSE revisions.s]
          /\ Show(revisions.c + 1, IF IsRevocable THEN revisions.s + 2 ELSE shown.s)
          /\ DisconnectEngine
          /\ calls' = [calls EXCEPT ![i] = [@ EXCEPT !.cleanup = "pending", !.cleans = Owned,
                                                     !.kept = reservations]]
          /\ UNCHANGED <<connectionIntent, disconnectPromise, shutdown, subscribed>>
       \/ /\ ~OwnsConnection(i)
          /\ conn' = [conn EXCEPT ![i] = "retiring"]
          /\ UNCHANGED <<calls, intentVars, snapshotVars, sub>>
    /\ UNCHANGED <<reservations, cleanupFailed>>

\* Mutant: the profiles are released however the cleanup ends.
LossReleases(i, failed) ==
    /\ calls[i].kind = "connect" /\ calls[i].cleanup = "pending"
    /\ EngineSettles(calls[i].cleans, failed)
    /\ calls' = [calls EXCEPT ![i] = [@ EXCEPT !.cleanup = "done", !.cleans = {}, !.kept = {}]]
    /\ reservations' = reservations \ calls[i].kept
    /\ cleanupFailed' = (cleanupFailed \/ failed)
    /\ UNCHANGED <<intentVars, snapshotVars>>

LossCleaned(i, failed) ==
    /\ calls[i].kind = "connect" /\ calls[i].cleanup = "pending"
    /\ EngineSettles(calls[i].cleans, failed)
    /\ calls' = [calls EXCEPT ![i] = [@ EXCEPT !.cleanup = "done", !.cleans = {}, !.kept = {}]]
    /\ reservations' = IF failed THEN reservations ELSE reservations \ calls[i].kept
    /\ cleanupFailed' = (cleanupFailed \/ failed)
    /\ IF failed /\ OwnsConnection(i) THEN ChangeConnection("failed")
       ELSE UNCHANGED snapshotVars
    /\ UNCHANGED intentVars

---------------------------------------------------------------------------
(* start after its first await.                                            *)

\* The catch of start(); "dirty" is a failure of code "cleanup".
FailStart(i, dirty) ==
    /\ Settle(i)
    /\ \/ /\ OwnsSubscription(i)
          /\ ChangeSubscription("failed")
          /\ cleanupFailed' = (cleanupFailed \/ dirty)
       \/ /\ ~OwnsSubscription(i)
          /\ UNCHANGED <<snapshotVars, cleanupFailed>>

RunStart(i) ==
    /\ calls[i].kind = "start" /\ calls[i].phase = "scheduled"
    /\ StopEngine
    /\ GotoAndWait(i, "clearing", OwnedSubscriptions)
    /\ UNCHANGED <<intentVars, snapshotVars, reservations, cleanupFailed>>

\* The engine refuses a subscription without a connection at once.
StartCleared(i, failed) ==
    LET proceeds == ~failed /\ OwnsSubscription(i) /\ conn[calls[i].on] = "open"
    IN  /\ calls[i].kind = "start" /\ calls[i].phase = "clearing"
        /\ failed <=> \E j \in calls[i].waits : Closed(sub, calls[i].waits, failed)[j] = "leaked"
        /\ sub' = IF proceeds THEN [Closed(sub, calls[i].waits, failed) EXCEPT ![i] = "opening"]
                  ELSE Closed(sub, calls[i].waits, failed)
        /\ \/ /\ proceeds
              /\ Goto(i, "opening")
              /\ UNCHANGED <<snapshotVars, cleanupFailed>>
           \/ /\ ~proceeds
              /\ FailStart(i, failed)
        /\ UNCHANGED <<intentVars, reservations, conn>>

EngineSubscribes(i) ==
    /\ calls[i].kind = "start" /\ calls[i].phase = "opening"
    /\ sub[i] = "opening"
    /\ sub' = [sub EXCEPT ![i] = "open"]
    /\ Goto(i, "opened")
    /\ UNCHANGED <<intentVars, snapshotVars, reservations, cleanupFailed, conn>>

\* Mutant: a revoked start waits for its subscription to close.
StartRefusedLate(i) ==
    /\ calls[i].kind = "start" /\ calls[i].phase = "opening"
    /\ sub[i] = "closed"
    /\ FailStart(i, FALSE)
    /\ UNCHANGED <<intentVars, reservations, engineVars>>

StartRefused(i) ==
    /\ calls[i].kind = "start" /\ calls[i].phase = "opening"
    /\ sub[i] # "opening"
    /\ FailStart(i, FALSE)
    /\ UNCHANGED <<intentVars, reservations, engineVars>>

StartOpened(i) ==
    /\ calls[i].kind = "start" /\ calls[i].phase = "opened"
    /\ \/ /\ OwnsSubscription(i) /\ subscription # "failed"
          /\ ChangeSubscription("streaming")
          /\ Settle(i)
          /\ UNCHANGED cleanupFailed
       \/ /\ ~(OwnsSubscription(i) /\ subscription # "failed")
          /\ FailStart(i, FALSE)
    /\ UNCHANGED <<intentVars, reservations, engineVars>>

\* subscriptionFailed: the engine reports a failure, or a record overflows
\* the counters; engine.stopSubscription() is sent off.
SubscriptionFails(i) ==
    /\ sub[i] \in {"opening", "open"}
    /\ \/ /\ OwnsSubscription(i) /\ subscription # "failed"
          /\ ChangeSubscription("failed")
          /\ StopEngine
          /\ calls' = [calls EXCEPT ![i] =
                          [@ EXCEPT !.cleanup = "pending", !.cleans = OwnedSubscriptions]]
       \/ /\ ~(OwnsSubscription(i) /\ subscription # "failed")
          /\ sub' = [sub EXCEPT ![i] = "retiring"]
          /\ UNCHANGED <<calls, snapshotVars, conn>>
    /\ UNCHANGED <<intentVars, reservations, cleanupFailed>>

SubscriptionCleaned(i, failed) ==
    /\ calls[i].kind = "start" /\ calls[i].cleanup = "pending"
    /\ EngineSettles(calls[i].cleans, failed)
    /\ calls' = [calls EXCEPT ![i] = [@ EXCEPT !.cleanup = "done", !.cleans = {}]]
    /\ IF failed /\ OwnsSubscription(i)
       THEN cleanupFailed' = TRUE /\ ChangeSubscription("failed")
       ELSE UNCHANGED <<snapshotVars, cleanupFailed>>
    /\ UNCHANGED <<intentVars, reservations>>

---------------------------------------------------------------------------
(* stop, disconnect and shutdown after their first await.                  *)

RunStop(i) ==
    /\ calls[i].kind = "stop" /\ calls[i].phase = "scheduled"
    /\ StopEngine
    /\ GotoAndWait(i, "clearing", OwnedSubscriptions)
    /\ UNCHANGED <<intentVars, snapshotVars, reservations, cleanupFailed>>

StopCleared(i, failed) ==
    /\ calls[i].kind = "stop" /\ calls[i].phase = "clearing"
    /\ EngineSettles(calls[i].waits, failed)
    /\ IF failed THEN Settle(i) ELSE Goto(i, "awaiting")
    /\ IF failed /\ ~Closing /\ subscriptionIntent = i
       THEN cleanupFailed' = TRUE /\ ChangeSubscription("failed")
       ELSE UNCHANGED <<snapshotVars, cleanupFailed>>
    /\ UNCHANGED <<intentVars, reservations>>

InterruptedSettled(i) == \A j \in calls[i].pending : calls[j].phase = "settled"

StopFinishes(i) ==
    /\ calls[i].kind = "stop" /\ calls[i].phase = "awaiting"
    /\ InterruptedSettled(i)
    /\ Settle(i)
    /\ \/ /\ ~Closing /\ subscriptionIntent = i
          /\ subscription' = Ended
          /\ UNCHANGED <<connection, subscribed, revisions>>
          /\ Show(shown.c, calls[i].reserved.s)
       \/ /\ Closing \/ subscriptionIntent # i
          /\ viewed' = Viewing(viewed.revision.c, viewed.connection, calls[i].reserved.s, Ended)
          /\ UNCHANGED <<connection, subscription, subscribed, revisions, shown>>
    /\ UNCHANGED <<intentVars, reservations, cleanupFailed, engineVars>>

RunDisconnect(i) ==
    /\ calls[i].kind = "disconnect" /\ calls[i].phase = "scheduled"
    /\ DisconnectEngine
    /\ GotoAndWait(i, "clearing", Owned)
    /\ UNCHANGED <<intentVars, snapshotVars, reservations, cleanupFailed>>

\* A failed disconnect keeps its promise: later calls join the failure.
DisconnectCleared(i, failed) ==
    /\ calls[i].kind = "disconnect" /\ calls[i].phase = "clearing"
    /\ EngineSettles(calls[i].waits, failed)
    /\ IF failed THEN Settle(i) ELSE Goto(i, "awaiting")
    /\ IF failed /\ OwnsConnection(i)
       THEN cleanupFailed' = TRUE /\ ChangeConnection("failed")
       ELSE UNCHANGED <<snapshotVars, cleanupFailed>>
    /\ UNCHANGED <<intentVars, reservations>>

DisconnectFinishes(i) ==
    /\ calls[i].kind = "disconnect" /\ calls[i].phase = "awaiting"
    /\ InterruptedSettled(i)
    /\ Settle(i)
    /\ reservations' = reservations \ calls[i].prior
    /\ disconnectPromise' = IF disconnectPromise = i THEN None ELSE disconnectPromise
    /\ \/ /\ OwnsConnection(i)
          /\ connection' = "disconnected"
          /\ \/ /\ subscriptionIntent = i
                /\ subscription' = Ended
                /\ cleanupFailed' = FALSE
                /\ Show(calls[i].reserved.c, calls[i].reserved.s)
             \/ /\ subscriptionIntent # i
                /\ UNCHANGED <<subscription, cleanupFailed>>
                /\ Show(calls[i].reserved.c, shown.s)
          /\ UNCHANGED <<subscribed, revisions>>
       \/ /\ ~OwnsConnection(i)
          /\ viewed' = Viewing(calls[i].reserved.c, "disconnected", calls[i].reserved.s, Ended)
          /\ UNCHANGED <<connection, subscription, subscribed, revisions, shown, cleanupFailed>>
    /\ UNCHANGED <<connectionIntent, subscriptionIntent, stopPromise, shutdown, engineVars>>

RunShutdown ==
    /\ shutdown = "scheduled"
    /\ shutdown' = "running"
    /\ DisconnectEngine
    /\ UNCHANGED <<calls, connectionIntent, subscriptionIntent, disconnectPromise, stopPromise,
                   snapshotVars, reservations, cleanupFailed>>

\* Mutant: a shutdown waits for the engine only.
WorkIsIgnored == TRUE

\* work.idle(): every admitted call and every cleanup sent off has settled.
WorkIsIdle ==
    \A i \in CallIds : calls[i].phase \in {"unused", "settled"} /\ calls[i].cleanup # "pending"

ShutdownFinishes(failed) ==
    /\ shutdown = "running"
    /\ WorkIsIdle
    /\ EngineSettles(Owned, failed)
    /\ shutdown' = IF failed THEN "failed" ELSE "ok"
    /\ reservations' = IF failed THEN reservations ELSE {}
    /\ UNCHANGED <<calls, connectionIntent, subscriptionIntent, disconnectPromise, stopPromise,
                   snapshotVars, cleanupFailed>>

---------------------------------------------------------------------------
\* Calls queue a microtask each, which run in order before anything answers.
Scheduled == {i \in CallIds : calls[i].phase = "scheduled"}

RunNext ==
    \/ \E i \in Scheduled :
          /\ \A j \in Scheduled : i <= j
          /\ RunConnect(i) \/ RunStart(i) \/ RunStop(i) \/ RunDisconnect(i)
    \/ Scheduled = {} /\ RunShutdown

Continue(i) ==
    \/ ProfileResolves(i) \/ ProfileFails(i)
    \/ EngineConnects(i) \/ EngineRefuses(i) \/ ConnectOpened(i)
    \/ EngineSubscribes(i) \/ StartRefused(i) \/ StartOpened(i)
    \/ StopFinishes(i) \/ DisconnectFinishes(i)
    \/ \E failed \in BOOLEAN :
          \/ ConnectCleared(i, failed) \/ ConnectRecovers(i, failed)
          \/ StartCleared(i, failed) \/ StopCleared(i, failed)
          \/ DisconnectCleared(i, failed)
          \/ LossCleaned(i, failed) \/ SubscriptionCleaned(i, failed)

MicrotasksRun == Scheduled = {} /\ shutdown # "scheduled"

Called(i) == Connect(i) \/ Disconnect(i) \/ Start(i) \/ Stop(i)

Next ==
    \/ \E i \in CallIds : Called(i)
    \/ Shutdown
    \/ RunNext
    \/ MicrotasksRun /\ \E i \in CallIds : Continue(i) \/ EngineLoses(i) \/ SubscriptionFails(i)
    \/ MicrotasksRun /\ \E failed \in BOOLEAN : ShutdownFinishes(failed)

Spec == Init /\ [][Next]_vars

\* Microtasks run, the profile store and the engine answer.
FairSpec ==
    /\ Spec
    /\ WF_vars(RunNext)
    /\ \A i \in CallIds : WF_vars(MicrotasksRun /\ Continue(i))
    /\ WF_vars(MicrotasksRun /\ \E failed \in BOOLEAN : ShutdownFinishes(failed))
============================================================================
