------------------------- MODULE NatsSessionProofs -------------------------
(***************************************************************************)
(* What NatsApplicationSession shows is what the engine owns, and what a   *)
(* viewer holds is what the session shows, proved for any number of calls. *)
(***************************************************************************)
EXTENDS NatsSessionProperties, TLAPS

---------------------------------------------------------------------------
(* The inductive invariant.                                                *)

IsUsed(i) == calls[i].kind # "none"
IsSetup(i) == calls[i].kind \in {"connect", "disconnect"}

\* What a call of each kind is doing.
CallFits(i) ==
    LET k == calls[i]
    IN  /\ k.kind = "none" => k = NoCall
        /\ k.kind # "none" => k.phase # "unused"
        /\ k.phase \in {"resolving", "recovering"} => k.kind = "connect"
        /\ k.phase \in {"opening", "opened"} => k.kind \in {"connect", "start"}
        /\ k.phase = "awaiting" => k.kind \in {"disconnect", "stop"}
        /\ k.cleanup # "none" =>
              \/ k.kind = "connect" /\ k.phase \in {"opened", "recovering", "settled"}
              \/ k.kind = "start" /\ k.phase \in {"opening", "opened", "settled"}
        /\ k.prior \subseteq 1 .. i - 1
        /\ k.prior # {} => k.kind \in {"connect", "disconnect"}
        /\ k.kept \subseteq 1 .. i
        /\ k.kept # {} => k.kind = "connect"

CallsFit == \A i \in CallIds : CallFits(i)

\* The calls are made, and their microtasks run, one after the other.
InOrder ==
    \A i, j \in CallIds :
        i < j /\ IsUsed(j) =>
            /\ IsUsed(i)
            /\ calls[i].phase = "scheduled" => calls[j].phase = "scheduled"

\* The intents are those of the newest call of each kind.
IntentsAreNewest ==
    /\ Closing => connectionIntent = None /\ subscriptionIntent = None
    /\ connectionIntent # None => IsSetup(connectionIntent)
    /\ ~Closing => \A i \in CallIds : IsSetup(i) => i <= connectionIntent
    /\ subscriptionIntent # None => IsUsed(subscriptionIntent)
    /\ subscriptionIntent # None => \A i \in CallIds : IsUsed(i) => i <= subscriptionIntent
    /\ ~Closing /\ Scheduled # {} => subscriptionIntent # None

\* What the engine holds for a call follows its phase.
HasOpened(i) == calls[i].phase \in {"opening", "opened", "recovering", "settled"}
ResourcesFit ==
    \A i \in CallIds :
        /\ conn[i] # "none" => calls[i].kind = "connect" /\ HasOpened(i)
        /\ sub[i] # "none" => calls[i].kind = "start" /\ HasOpened(i)
        /\ conn[i] = "open" => calls[i].phase \in {"opened", "settled"}
        /\ sub[i] = "open" => calls[i].phase \in {"opened", "settled"}
        /\ conn[i] = "opening" => i = connectionIntent
        /\ sub[i] = "opening" => i = subscriptionIntent

\* What is open is current, or a microtask is about to retire it.
OpenIsCurrent ==
    \A i \in CallIds :
        /\ conn[i] = "open" =>
              \/ i = connectionIntent \/ connectionIntent \in Scheduled \/ shutdown = "scheduled"
        /\ sub[i] = "open" =>
              \/ i = subscriptionIntent \/ subscriptionIntent \in Scheduled \/ shutdown = "scheduled"

\* What a call waits for has been retired.
IsRetired(j) == HasOpened(j) /\ {conn[j], sub[j]} \cap {"opening", "open"} = {}
WaitsAreRetired == \A i \in CallIds : \A j \in calls[i].waits \cup calls[i].cleans : IsRetired(j)

\* A profile that a call will release is one whose connection it waits for.
Covers(ids, priors) == \A j \in priors : conn[j] \in InUse => j \in ids
ReleasesAreCovered ==
    /\ \A i \in CallIds :
        /\ calls[i].phase = "clearing" => Covers(calls[i].waits, calls[i].prior)
        /\ calls[i].phase = "recovering" => Covers(calls[i].waits, calls[i].prior \cup {i})
        /\ calls[i].phase = "awaiting" => Covers({}, calls[i].prior)
        /\ calls[i].cleanup = "pending" => Covers(calls[i].cleans, calls[i].kept)
    /\ ProfileStaysReserved
    /\ \A i \in reservations : calls[i].kind = "connect"
    /\ \A i \in CallIds :
        connectionIntent = i /\ calls[i].kind = "connect" /\ ~HasOpened(i) => i \in reservations

\* The newest connect or disconnect knows what the engine owns.
ConnectionIsKnown ==
    ~Closing =>
        LET c == calls[connectionIntent]
        IN  /\ connectionIntent = None => connection = "disconnected" /\ Owned = {}
            /\ connection = "disconnected" => Owned = {}
            /\ connection = "connected" =>
                  /\ c.kind = "connect" /\ c.phase = "settled" /\ c.cleanup = "none"
                  /\ conn[connectionIntent] = "open"
                  /\ \A j \in CallIds \ {connectionIntent} : conn[j] \notin InUse
                  /\ subscriptionIntent = connectionIntent => OwnedSubscriptions = {}
            /\ connectionIntent # None =>
                  /\ c.phase \in {"clearing", "recovering"} => Owned \subseteq c.waits
                  /\ c.phase \in {"resolving", "opening", "opened"} => Owned \subseteq {connectionIntent}
                  /\ c.phase = "opened" /\ c.cleanup = "none" => conn[connectionIntent] = "open"
                  /\ c.phase = "awaiting" => Owned = {}
                  /\ c.cleanup = "pending" => Owned \subseteq c.cleans
                  /\ c.phase = "settled" /\ c.cleanup # "pending" /\ connection # "connected" =>
                        cleanupFailed \/ Owned = {}

\* So does the newest start or stop of what is subscribed.
SubscriptionIsKnown ==
    ~Closing /\ subscriptionIntent # None =>
        LET s == calls[subscriptionIntent]
        IN  /\ s.kind = "start" =>
                  /\ subscribed /\ connection = "connected" /\ s.on = connectionIntent
                  /\ s.phase \in {"scheduled", "clearing"} => subscription = "loading"
                  /\ s.phase \in {"opening", "opened"} => OwnedSubscriptions \subseteq {subscriptionIntent}
                  /\ s.phase = "opening" => subscription \in {"loading", "failed"}
                  /\ s.phase = "opened" =>
                        \/ subscription = "failed"
                        \/ subscription = "loading" /\ sub[subscriptionIntent] = "open"
                  /\ sub[subscriptionIntent] \in {"opening", "open"} => subscription # "failed"
                  /\ sub[subscriptionIntent] = "retiring" => s.cleanup = "pending"
                  /\ s.cleanup = "pending" => OwnedSubscriptions \subseteq s.cleans
                  /\ sub[subscriptionIntent] = "leaked" => cleanupFailed \/ s.cleanup = "pending"
                  /\ s.phase = "settled" => OwnedSubscriptions \subseteq {subscriptionIntent} \/ cleanupFailed
            /\ s.kind \in {"start", "stop"} =>
                  /\ s.phase = "clearing" => OwnedSubscriptions \subseteq s.waits
                  /\ s.kind = "stop" /\ s.phase = "awaiting" => OwnedSubscriptions = {}
                  /\ s.kind = "stop" /\ s.phase = "settled" => OwnedSubscriptions = {} \/ cleanupFailed

\* Without a subscription there was no start, and nothing a stop could wait for.
IdleFits ==
    /\ ~subscribed => subscription = "idle" /\ \A i \in CallIds : calls[i].kind # "start"
    /\ \A i \in CallIds : calls[i].kind = "stop" =>
          \A j \in calls[i].waits : calls[j].kind = "start"

StreamingFits ==
    /\ ~Closing /\ subscription = "streaming" =>
          /\ subscriptionIntent # None /\ calls[subscriptionIntent].kind = "start"
          /\ calls[subscriptionIntent].phase = "settled"
          /\ sub[subscriptionIntent] = "open" /\ OwnedSubscriptions = {subscriptionIntent}

\* Only a loss, which its cleanup remembers, leaves the newest call without a
\* subscription intent.
SubscriptionIsSet ==
    ~Closing /\ connectionIntent # None /\ calls[connectionIntent].cleanup = "none" =>
        subscriptionIntent # None

Base == TypeOK /\ CallsFit /\ InOrder /\ IntentsAreNewest
EngineInv == ResourcesFit /\ OpenIsCurrent /\ WaitsAreRetired
OwnedInv ==
    /\ Base /\ EngineInv /\ ReleasesAreCovered /\ ConnectionIsKnown /\ SubscriptionIsKnown
    /\ IdleFits /\ StreamingFits /\ ShutdownIsComplete

\* What a stop or a disconnect will return is newer than what is viewed while
\* it is current, and older once it was superseded, unless both are the same.
IsPendingEnd(i) == calls[i].kind \in {"stop", "disconnect"} /\ calls[i].phase # "settled"
IsOrdered(i) ==
    LET r == calls[i].reserved
    IN  /\ r.s <= revisions.s /\ r.c <= revisions.c
        /\ subscription # Ended =>
              IF i = subscriptionIntent THEN viewed.revision.s < r.s ELSE r.s < viewed.revision.s
        /\ calls[i].kind = "disconnect" =>
              IF i = connectionIntent THEN viewed.revision.c < r.c ELSE r.c < viewed.revision.c

ViewedIsBetween ==
    /\ shown.s <= viewed.revision.s /\ viewed.revision.s <= revisions.s
    /\ shown.c <= viewed.revision.c /\ viewed.revision.c <= revisions.c

ViewerInv ==
    /\ ViewerConverges
    /\ ~Closing => ViewedIsBetween
    /\ ~Closing => \A i \in CallIds : IsPendingEnd(i) => IsOrdered(i)

---------------------------------------------------------------------------
(* One call moves at a time, and the engine lets go.                       *)

Alone(i) == \A j \in CallIds \ {i} : calls'[j] = calls[j]

\* A call moves on; what it is does not change.
Moves(i) ==
    /\ calls' \in [CallIds -> Call] /\ Alone(i)
    /\ calls'[i].kind = calls[i].kind /\ calls'[i].on = calls[i].on

\* ... keeping what it will release, return and clean.
KeepsWork(i) ==
    /\ calls'[i].prior = calls[i].prior /\ calls'[i].reserved = calls[i].reserved
    /\ calls'[i].pending = calls[i].pending
KeepsCleanup(i) ==
    /\ calls'[i].cleanup = calls[i].cleanup /\ calls'[i].cleans = calls[i].cleans
    /\ calls'[i].kept = calls[i].kept

LEMMA CallIdsAreNumbers == CallIds \subseteq Nat /\ None \notin CallIds /\ \A i \in CallIds : 1 .. i \subseteq CallIds
  BY MaxCallsAssumption DEF CallIds, None

LEMMA NoCallTyped == NoCall \in Call
  BY DEF NoCall, Call, Kinds, Phases, Revisions, None

LEMMA GotoMoves ==
    ASSUME TypeOK, NEW i \in CallIds, NEW p \in Phases, Goto(i, p)
    PROVE  /\ Moves(i) /\ KeepsWork(i) /\ KeepsCleanup(i)
           /\ calls'[i].phase = p /\ calls'[i].waits = calls[i].waits
<1>1. calls \in [CallIds -> Call] /\ calls[i] \in Call
  BY DEF TypeOK
<1>2. [calls[i] EXCEPT !.phase = p] \in Call
  BY <1>1 DEF Call
<1>3. calls' = [calls EXCEPT ![i] = [calls[i] EXCEPT !.phase = p]]
  BY <1>1 DEF Goto
<1>. QED
  BY <1>1, <1>2, <1>3 DEF Moves, Alone, KeepsWork, KeepsCleanup, Call

LEMMA WaitMoves ==
    ASSUME TypeOK, NEW i \in CallIds, NEW p \in Phases, NEW ids \in SUBSET CallIds,
           GotoAndWait(i, p, ids)
    PROVE  /\ Moves(i) /\ KeepsWork(i) /\ KeepsCleanup(i)
           /\ calls'[i].phase = p /\ calls'[i].waits = ids
<1>1. calls \in [CallIds -> Call] /\ calls[i] \in Call
  BY DEF TypeOK
<1>2. [calls[i] EXCEPT !.phase = p, !.waits = ids] \in Call
  BY <1>1 DEF Call
<1>3. calls' = [calls EXCEPT ![i] = [calls[i] EXCEPT !.phase = p, !.waits = ids]]
  BY <1>1 DEF GotoAndWait
<1>. QED
  BY <1>1, <1>2, <1>3 DEF Moves, Alone, KeepsWork, KeepsCleanup, Call

LEMMA SettleMoves ==
    ASSUME TypeOK, NEW i \in CallIds, Settle(i)
    PROVE  /\ Moves(i) /\ KeepsCleanup(i) /\ calls'[i].phase = "settled"
           /\ calls'[i].waits = {} /\ calls'[i].prior = {}
<1> DEFINE k == [NoCall EXCEPT !.kind = calls[i].kind, !.phase = "settled", !.on = calls[i].on,
                               !.cleanup = calls[i].cleanup, !.cleans = calls[i].cleans,
                               !.kept = calls[i].kept]
<1>1. calls \in [CallIds -> Call] /\ calls[i] \in Call
  BY DEF TypeOK
<1>2. /\ k \in Call /\ k.kind = calls[i].kind /\ k.phase = "settled" /\ k.on = calls[i].on
      /\ k.cleanup = calls[i].cleanup /\ k.cleans = calls[i].cleans /\ k.kept = calls[i].kept
      /\ k.waits = {} /\ k.prior = {}
  BY <1>1, NoCallTyped, ZenonT(20) DEF Call, NoCall, Phases
<1>3. calls' = [calls EXCEPT ![i] = k]
  BY DEF Settle
<1>. HIDE DEF k
<1>. QED
  BY <1>1, <1>2, <1>3 DEF Moves, Alone, KeepsCleanup

LEMMA CleanupMoves ==
    ASSUME TypeOK, NEW i \in CallIds, NEW status \in {"none", "pending", "done"},
           NEW ids \in SUBSET CallIds, NEW kept \in SUBSET CallIds,
           calls' = [calls EXCEPT ![i] = [@ EXCEPT !.cleanup = status, !.cleans = ids, !.kept = kept]]
    PROVE  /\ Moves(i) /\ KeepsWork(i)
           /\ calls'[i].phase = calls[i].phase /\ calls'[i].waits = calls[i].waits
           /\ calls'[i].cleanup = status /\ calls'[i].cleans = ids /\ calls'[i].kept = kept
<1> DEFINE k == [calls[i] EXCEPT !.cleanup = status, !.cleans = ids, !.kept = kept]
<1>1. calls \in [CallIds -> Call] /\ calls[i] \in Call
  BY DEF TypeOK
<1>2. /\ k \in Call /\ k.kind = calls[i].kind /\ k.phase = calls[i].phase /\ k.on = calls[i].on
      /\ k.cleanup = status /\ k.cleans = ids /\ k.kept = kept
      /\ k.waits = calls[i].waits /\ k.prior = calls[i].prior /\ k.reserved = calls[i].reserved
      /\ k.pending = calls[i].pending
  BY <1>1 DEF Call
<1>3. calls' = [calls EXCEPT ![i] = k]
  BY <1>1
<1>. HIDE DEF k
<1>. QED
  BY <1>1, <1>2, <1>3 DEF Moves, Alone, KeepsWork

\* SubscriptionFails and SubscriptionCleaned leave "kept" alone.
LEMMA SubscriptionCleanupMoves ==
    ASSUME TypeOK, NEW i \in CallIds, NEW status \in {"none", "pending", "done"},
           NEW ids \in SUBSET CallIds,
           calls' = [calls EXCEPT ![i] = [@ EXCEPT !.cleanup = status, !.cleans = ids]]
    PROVE  /\ Moves(i) /\ KeepsWork(i)
           /\ calls'[i].phase = calls[i].phase /\ calls'[i].waits = calls[i].waits
           /\ calls'[i].cleanup = status /\ calls'[i].cleans = ids /\ calls'[i].kept = calls[i].kept
<1> DEFINE k == [calls[i] EXCEPT !.cleanup = status, !.cleans = ids]
<1>1. calls \in [CallIds -> Call] /\ calls[i] \in Call
  BY DEF TypeOK
<1>2. /\ k \in Call /\ k.kind = calls[i].kind /\ k.phase = calls[i].phase /\ k.on = calls[i].on
      /\ k.cleanup = status /\ k.cleans = ids /\ k.kept = calls[i].kept
      /\ k.waits = calls[i].waits /\ k.prior = calls[i].prior /\ k.reserved = calls[i].reserved
      /\ k.pending = calls[i].pending
  BY <1>1 DEF Call
<1>3. calls' = [calls EXCEPT ![i] = k]
  BY <1>1
<1>. HIDE DEF k
<1>. QED
  BY <1>1, <1>2, <1>3 DEF Moves, Alone, KeepsWork

---------------------------------------------------------------------------
\* A resource is retired, or a close of it settles.
Fades(x, y) ==
    \/ y = x
    \/ x \in {"opening", "open"} /\ y = "retiring"
    \/ x = "retiring" /\ y \in {"closed", "leaked"}

EngineTyped == conn' \in [CallIds -> Resources] /\ sub' \in [CallIds -> Resources]
Shrinks == EngineTyped /\ \A j \in CallIds : Fades(conn[j], conn'[j]) /\ Fades(sub[j], sub'[j])

LEMMA ChangeFades ==
    ASSUME NEW r \in [CallIds -> Resources], NEW from \in SUBSET {"opening", "open"}
    PROVE  /\ Change(r, from, "retiring") \in [CallIds -> Resources]
           /\ \A j \in CallIds : /\ Fades(r[j], Change(r, from, "retiring")[j])
                                 /\ Change(r, from, "retiring")[j] =
                                       IF r[j] \in from THEN "retiring" ELSE r[j]
  BY DEF Change, Fades, Resources

LEMMA AbortShrinks ==
    ASSUME TypeOK, AbortConnection \/ UNCHANGED conn, AbortSubscription
    PROVE  /\ Shrinks
           /\ \A j \in CallIds : conn[j] = "open" => conn'[j] = "open"
           /\ \A j \in CallIds : sub'[j] # "opening"
           /\ AbortConnection => \A j \in CallIds : conn'[j] # "opening"
<1>1. sub' = Change(sub, {"opening"}, "retiring")
  BY DEF AbortSubscription
<1>2. sub' \in [CallIds -> Resources] /\ \A j \in CallIds : Fades(sub[j], sub'[j]) /\ sub'[j] # "opening"
  BY <1>1, ChangeFades DEF TypeOK
<1>3. CASE UNCHANGED conn
  BY <1>2, <1>3, ChangeFades DEF Shrinks, EngineTyped, Fades, TypeOK, AbortConnection
<1>4. CASE AbortConnection
  <2>1. conn' = Change(conn, {"opening"}, "retiring")
    BY <1>4 DEF AbortConnection
  <2>. QED
    BY <1>2, <2>1, ChangeFades DEF Shrinks, EngineTyped, TypeOK
<1>. QED
  BY <1>3, <1>4

LEMMA DisconnectShrinks ==
    ASSUME TypeOK, DisconnectEngine
    PROVE  /\ Shrinks
           /\ \A j \in CallIds : {conn'[j], sub'[j]} \cap {"opening", "open"} = {}
           /\ \A j \in CallIds : conn'[j] \in InUse \/ sub'[j] \in InUse => j \in Owned
<1>1. conn' = Change(conn, {"opening", "open"}, "retiring") /\ sub' = Change(sub, {"opening", "open"}, "retiring")
  BY DEF DisconnectEngine
<1>. QED
  BY <1>1, ChangeFades DEF Shrinks, EngineTyped, TypeOK, Fades, Owned, InUse

LEMMA StopShrinks ==
    ASSUME TypeOK, StopEngine
    PROVE  /\ Shrinks /\ conn' = conn
           /\ \A j \in CallIds : sub'[j] \notin {"opening", "open"}
           /\ \A j \in CallIds : sub'[j] \in InUse => j \in OwnedSubscriptions
<1>1. conn' = conn /\ sub' = Change(sub, {"opening", "open"}, "retiring")
  BY DEF StopEngine
<1>. QED
  BY <1>1, ChangeFades DEF Shrinks, EngineTyped, TypeOK, Fades, OwnedSubscriptions, InUse

LEMMA ClosedFades ==
    ASSUME NEW r \in [CallIds -> Resources], NEW ids \in SUBSET CallIds, NEW failed \in BOOLEAN
    PROVE  /\ Closed(r, ids, failed) \in [CallIds -> Resources]
           /\ \A j \in CallIds : /\ Fades(r[j], Closed(r, ids, failed)[j])
                                 /\ Closed(r, ids, failed)[j] =
                                       IF j \in ids /\ r[j] = "retiring"
                                       THEN IF failed THEN "leaked" ELSE "closed" ELSE r[j]
  BY DEF Closed, Fades, Resources

\* The engine call that waits for ids settles: what is open elsewhere stays
\* open, only what it waits for leaks, and a success has closed all it waits for.
LEMMA SettlesShrinks ==
    ASSUME TypeOK, NEW ids \in SUBSET CallIds, NEW failed \in BOOLEAN, EngineSettles(ids, failed)
    PROVE  /\ Shrinks
           /\ \A j \in CallIds : conn[j] \in {"opening", "open"} => conn'[j] = conn[j]
           /\ \A j \in CallIds : sub[j] \in {"opening", "open"} => sub'[j] = sub[j]
           /\ \A j \in CallIds \ ids : conn'[j] = conn[j] /\ sub'[j] = sub[j]
           /\ \A j \in ids : conn'[j] # "retiring" /\ sub'[j] # "retiring"
           /\ ~failed => \A j \in ids : {conn[j], sub[j]} \cap {"opening", "open"} = {} =>
                                           conn'[j] \notin InUse /\ sub'[j] \notin InUse
<1>1. conn' = Closed(conn, ids, failed) /\ sub' = Closed(sub, ids, failed)
  BY DEF EngineSettles
<1>2. ~failed => \A j \in ids : conn'[j] # "leaked" /\ sub'[j] # "leaked"
  BY DEF EngineSettles
<1>3. conn \in [CallIds -> Resources] /\ sub \in [CallIds -> Resources]
  BY DEF TypeOK
<1>4. \A j \in CallIds : /\ Fades(conn[j], conn'[j])
                         /\ conn'[j] = IF j \in ids /\ conn[j] = "retiring"
                                       THEN IF failed THEN "leaked" ELSE "closed" ELSE conn[j]
  BY <1>1, <1>3, ClosedFades
<1>5. \A j \in CallIds : /\ Fades(sub[j], sub'[j])
                         /\ sub'[j] = IF j \in ids /\ sub[j] = "retiring"
                                      THEN IF failed THEN "leaked" ELSE "closed" ELSE sub[j]
  BY <1>1, <1>3, ClosedFades
<1>6. EngineTyped
  BY <1>1, <1>3, ClosedFades DEF EngineTyped
<1>. QED
  BY <1>2, <1>4, <1>5, <1>6 DEF Shrinks, InUse

\* Nothing that is not in use comes into use.
LEMMA NothingAppears ==
    ASSUME TypeOK, Shrinks, NEW j \in CallIds
    PROVE  /\ conn'[j] \in InUse => conn[j] \in InUse
           /\ sub'[j] \in InUse => sub[j] \in InUse
           /\ conn'[j] \in {"opening", "open"} => conn'[j] = conn[j]
           /\ sub'[j] \in {"opening", "open"} => sub'[j] = sub[j]
           /\ conn'[j] # "none" <=> conn[j] # "none"
           /\ sub'[j] # "none" <=> sub[j] # "none"
  BY DEF Shrinks, Fades, InUse

---------------------------------------------------------------------------
(* Types.                                                                  *)

SnapshotTyped ==
    /\ connection \in ConnectionStates /\ subscription \in SubscriptionStates
    /\ subscribed \in BOOLEAN
    /\ revisions \in Revisions /\ shown \in Revisions
    /\ viewed \in [revision : Revisions, connection : ConnectionStates,
                   subscription : SubscriptionStates]

LEMMA SnapshotIsTyped == TypeOK => SnapshotTyped
  BY DEF TypeOK, SnapshotTyped

LEMMA ViewingTyped ==
    ASSUME SnapshotTyped, NEW c \in Nat, NEW s \in Nat,
           NEW cs \in ConnectionStates, NEW ss \in SubscriptionStates
    PROVE  /\ Viewing(c, cs, s, ss) \in [revision : Revisions, connection : ConnectionStates,
                                         subscription : SubscriptionStates]
           /\ Viewing(c, cs, s, ss).revision.c = IF c < viewed.revision.c THEN viewed.revision.c ELSE c
           /\ Viewing(c, cs, s, ss).revision.s = IF s < viewed.revision.s THEN viewed.revision.s ELSE s
           /\ Viewing(c, cs, s, ss).connection = IF c < viewed.revision.c THEN viewed.connection ELSE cs
           /\ Viewing(c, cs, s, ss).subscription = IF s < viewed.revision.s THEN viewed.subscription ELSE ss
  BY DEF SnapshotTyped, Viewing, Revisions

LEMMA ShowTyped ==
    ASSUME SnapshotTyped, NEW c \in Nat, NEW s \in Nat, Show(c, s),
           connection' \in ConnectionStates, subscription' \in SubscriptionStates,
           subscribed' \in BOOLEAN, revisions' \in Revisions
    PROVE  SnapshotTyped'
<1>1. shown' \in Revisions
  BY DEF Show, Revisions
<1>2. viewed' = viewed \/ viewed' = Viewing(c, connection', s, subscription')
  BY DEF Show
<1>3. viewed' \in [revision : Revisions, connection : ConnectionStates, subscription : SubscriptionStates]
  BY <1>2, ViewingTyped DEF SnapshotTyped
<1>. QED
  BY <1>1, <1>3 DEF SnapshotTyped

LEMMA ConnectionChanges ==
    ASSUME SnapshotTyped, NEW state \in ConnectionStates, ChangeConnection(state)
    PROVE  /\ SnapshotTyped' /\ connection' = state
           /\ subscription' = subscription /\ subscribed' = subscribed
           /\ revisions'.c = revisions.c + 1 /\ revisions'.s = revisions.s
           /\ Show(revisions.c + 1, shown.s)
<1>1. revisions' \in Revisions /\ revisions'.c = revisions.c + 1 /\ revisions'.s = revisions.s
  BY DEF ChangeConnection, SnapshotTyped, Revisions
<1>2. /\ Show(revisions.c + 1, shown.s) /\ connection' = state
      /\ subscription' = subscription /\ subscribed' = subscribed
  BY <1>1 DEF ChangeConnection
<1>3. revisions.c + 1 \in Nat /\ shown.s \in Nat
  BY DEF SnapshotTyped, Revisions
<1>. QED
  BY <1>1, <1>2, <1>3, ShowTyped DEF SnapshotTyped

LEMMA SubscriptionChanges ==
    ASSUME SnapshotTyped, NEW state \in SubscriptionStates, ChangeSubscription(state)
    PROVE  /\ SnapshotTyped' /\ subscription' = state
           /\ connection' = connection /\ subscribed' = subscribed
           /\ revisions'.s = revisions.s + 1 /\ revisions'.c = revisions.c
           /\ Show(shown.c, revisions.s + 1)
<1>1. revisions' \in Revisions /\ revisions'.s = revisions.s + 1 /\ revisions'.c = revisions.c
  BY DEF ChangeSubscription, SnapshotTyped, Revisions
<1>2. /\ Show(shown.c, revisions.s + 1) /\ subscription' = state
      /\ connection' = connection /\ subscribed' = subscribed
  BY <1>1 DEF ChangeSubscription
<1>3. revisions.s + 1 \in Nat /\ shown.c \in Nat
  BY DEF SnapshotTyped, Revisions
<1>. QED
  BY <1>1, <1>2, <1>3, ShowTyped DEF SnapshotTyped

LEMMA SnapshotStays ==
    ASSUME SnapshotTyped, UNCHANGED snapshotVars
    PROVE  SnapshotTyped'
  BY DEF SnapshotTyped, snapshotVars

\* Everything else of TypeOK.
LEMMA TypesMove ==
    ASSUME TypeOK, calls' \in [CallIds -> Call], EngineTyped, SnapshotTyped',
           connectionIntent' \in CallIds \cup {None}, subscriptionIntent' \in CallIds \cup {None},
           disconnectPromise' \in CallIds \cup {None}, stopPromise' \in CallIds \cup {None},
           shutdown' \in {"none", "scheduled", "running", "ok", "failed"},
           reservations' \subseteq CallIds, cleanupFailed' \in BOOLEAN
    PROVE  TypeOK'
  BY DEF TypeOK, EngineTyped, SnapshotTyped

\* ... when the intents and promises stay.
LEMMA TypesStay ==
    ASSUME TypeOK, calls' \in [CallIds -> Call], EngineTyped, SnapshotTyped',
           UNCHANGED intentVars, reservations' \subseteq CallIds, cleanupFailed' \in BOOLEAN
    PROVE  TypeOK'
<1>1. /\ connectionIntent \in CallIds \cup {None} /\ subscriptionIntent \in CallIds \cup {None}
      /\ disconnectPromise \in CallIds \cup {None} /\ stopPromise \in CallIds \cup {None}
      /\ shutdown \in {"none", "scheduled", "running", "ok", "failed"}
  BY DEF TypeOK
<1>. QED
  BY <1>1, TypesMove DEF intentVars

---------------------------------------------------------------------------
(* The order of the calls.                                                 *)

\* The intents stay, but for the subscription, which a lost connection revokes.
IntentsStay ==
    /\ connectionIntent' = connectionIntent /\ shutdown' = shutdown
    /\ subscriptionIntent' = subscriptionIntent \/ (subscriptionIntent' = None /\ Scheduled = {})

\* A call moves on, the first of the scheduled ones if it was scheduled.
Continues(i) ==
    /\ IsUsed(i) /\ Moves(i) /\ IntentsStay
    /\ calls'[i].phase # "scheduled"
    /\ calls[i].phase = "scheduled" => \A j \in Scheduled : i <= j

LEMMA OrderContinues ==
    ASSUME Base, NEW i \in CallIds, Continues(i), CallFits(i)'
    PROVE  CallsFit' /\ InOrder' /\ IntentsAreNewest'
<1>. USE DEF Continues, Moves, Alone
<1>1. \A j \in CallIds : /\ calls'[j].kind = calls[j].kind
                         /\ calls'[j].phase = "scheduled" => calls[j].phase = "scheduled"
  OBVIOUS
<1>2. CallsFit'
  <2>1. \A j \in CallIds \ {i} : CallFits(j)'
    BY DEF Base, CallsFit, CallFits
  <2>. QED
    BY <2>1 DEF CallsFit
<1>3. InOrder'
  <2> SUFFICES ASSUME NEW j \in CallIds, NEW k \in CallIds, j < k, IsUsed(k)'
               PROVE  IsUsed(j)' /\ (calls'[j].phase = "scheduled" => calls'[k].phase = "scheduled")
    BY DEF InOrder
  <2>1. IsUsed(j) /\ (calls[j].phase = "scheduled" => calls[k].phase = "scheduled")
    BY <1>1 DEF Base, InOrder, IsUsed
  <2>2. ASSUME calls'[j].phase = "scheduled" PROVE calls'[k].phase = "scheduled"
    <3>1. j # i /\ j \in Scheduled /\ k \in Scheduled
      BY <1>1, <2>1, <2>2 DEF Scheduled
    <3>2. k # i
      BY <3>1, CallIdsAreNumbers DEF Scheduled
    <3>. QED
      BY <3>1, <3>2 DEF Scheduled
  <2>. QED
    BY <1>1, <2>1, <2>2 DEF IsUsed
<1>4. Scheduled' \subseteq Scheduled
  BY <1>1 DEF Scheduled
<1>5. IntentsAreNewest'
  <2>1. connectionIntent \in CallIds \cup {None} /\ subscriptionIntent \in CallIds \cup {None}
    BY DEF Base, TypeOK
  <2>. QED
    BY <1>1, <1>4, <2>1 DEF IntentsStay, Base, IntentsAreNewest, Closing, IsSetup, IsUsed
<1>. QED
  BY <1>2, <1>3, <1>5

---------------------------------------------------------------------------
(* What the engine holds.                                                  *)

LEMMA EngineContinues ==
    ASSUME Base, EngineInv, NEW i \in CallIds, Continues(i), Shrinks,
           HasOpened(i) => HasOpened(i)',
           conn'[i] = "open" \/ sub'[i] = "open" => calls'[i].phase \in {"opened", "settled"},
           subscriptionIntent' # subscriptionIntent =>
               \A j \in CallIds : sub'[j] \notin {"opening", "open"},
           calls[i].phase = "scheduled" /\ i = connectionIntent => \A j \in CallIds : conn'[j] # "open",
           calls[i].phase = "scheduled" /\ i = subscriptionIntent => \A j \in CallIds : sub'[j] # "open",
           \A j \in calls'[i].waits \cup calls'[i].cleans :
               j \in calls[i].waits \cup calls[i].cleans \/ IsRetired(j)'
    PROVE  EngineInv'
<1>1. TypeOK
  BY DEF Base
<1>2. \A j \in CallIds : /\ calls'[j].kind = calls[j].kind
                         /\ HasOpened(j) => HasOpened(j)'
                         /\ j # i => calls'[j] = calls[j]
  BY DEF Continues, Moves, Alone, HasOpened
<1>3. ResourcesFit'
  <2> SUFFICES ASSUME NEW j \in CallIds
               PROVE  /\ conn'[j] # "none" => calls'[j].kind = "connect" /\ HasOpened(j)'
                      /\ sub'[j] # "none" => calls'[j].kind = "start" /\ HasOpened(j)'
                      /\ conn'[j] = "open" => calls'[j].phase \in {"opened", "settled"}
                      /\ sub'[j] = "open" => calls'[j].phase \in {"opened", "settled"}
                      /\ conn'[j] = "opening" => j = connectionIntent'
                      /\ sub'[j] = "opening" => j = subscriptionIntent'
    BY DEF ResourcesFit
  <2>. QED
    BY <1>1, <1>2, NothingAppears DEF EngineInv, ResourcesFit, Continues, IntentsStay
<1>4. OpenIsCurrent'
  <2> SUFFICES ASSUME NEW j \in CallIds
               PROVE  /\ conn'[j] = "open" =>
                           \/ j = connectionIntent' \/ connectionIntent' \in Scheduled' \/ shutdown' = "scheduled"
                      /\ sub'[j] = "open" =>
                           \/ j = subscriptionIntent' \/ subscriptionIntent' \in Scheduled' \/ shutdown' = "scheduled"
    BY DEF OpenIsCurrent
  <2>1. \A k \in Scheduled : k = i \/ k \in Scheduled'
    BY <1>2 DEF Scheduled
  <2>. QED
    BY <1>1, <2>1, NothingAppears DEF EngineInv, OpenIsCurrent, Continues, IntentsStay, Scheduled
<1>5. \A j \in CallIds : IsRetired(j) => IsRetired(j)'
  BY <1>1, <1>2, NothingAppears DEF IsRetired
<1>6. WaitsAreRetired'
  <2> SUFFICES ASSUME NEW k \in CallIds, NEW j \in calls'[k].waits \cup calls'[k].cleans
               PROVE  IsRetired(j)'
    BY DEF WaitsAreRetired
  <2>1. \A h \in calls[k].waits \cup calls[k].cleans : h \in CallIds /\ IsRetired(h)
    BY <1>1 DEF EngineInv, WaitsAreRetired, TypeOK, Call
  <2>. QED
    BY <1>2, <1>5, <2>1
<1>. QED
  BY <1>3, <1>4, <1>6 DEF EngineInv

LEMMA WaitsAreCalls ==
    ASSUME TypeOK, NEW i \in CallIds
    PROVE  /\ calls[i].waits \subseteq CallIds /\ calls[i].cleans \subseteq CallIds
           /\ calls[i].prior \subseteq CallIds /\ calls[i].kept \subseteq CallIds
           /\ Owned \subseteq CallIds /\ OwnedSubscriptions \subseteq CallIds
  BY DEF TypeOK, Call, Owned, OwnedSubscriptions

\* A clean settlement leaves nothing in use of what was waited for.
LEMMA CleanedIsClosed ==
    ASSUME TypeOK, WaitsAreRetired, NEW i \in CallIds,
           NEW ids, ids = calls[i].waits \/ ids = calls[i].cleans, EngineSettles(ids, FALSE)
    PROVE  \A j \in ids : conn'[j] \notin InUse /\ sub'[j] \notin InUse
<1>1. ids \in SUBSET CallIds
  BY WaitsAreCalls
<1>2. \A j \in ids : {conn[j], sub[j]} \cap {"opening", "open"} = {}
  BY DEF WaitsAreRetired, IsRetired
<1>. QED
  BY <1>1, <1>2, SettlesShrinks

---------------------------------------------------------------------------
(* The profiles.                                                           *)

LEMMA ReleasesContinue ==
    ASSUME Base, EngineInv, ReleasesAreCovered, NEW i \in CallIds, Continues(i), Shrinks,
           HasOpened(i) => HasOpened(i)',
           NEW lost \in SUBSET CallIds, reservations' = reservations \ lost,
           \A j \in lost : conn'[j] \notin InUse,
           \A j \in lost : j # connectionIntent \/ HasOpened(j)',
           calls'[i].phase = "clearing" => Covers(calls[i].waits, calls[i].prior)',
           calls'[i].phase = "recovering" => Covers(calls[i].waits, calls[i].prior \cup {i})',
           calls'[i].phase = "awaiting" => Covers({}, calls[i].prior)',
           calls'[i].cleanup = "pending" => Covers(calls[i].cleans, calls[i].kept)'
    PROVE  ReleasesAreCovered'
<1>1. TypeOK
  BY DEF Base
<1>2. \A j \in CallIds : /\ calls'[j].kind = calls[j].kind
                         /\ HasOpened(j) => HasOpened(j)'
                         /\ j # i => calls'[j] = calls[j]
  BY DEF Continues, Moves, Alone, HasOpened
<1>3. ASSUME NEW j \in CallIds
      PROVE  /\ calls'[j].phase = "clearing" => Covers(calls[j].waits, calls[j].prior)'
             /\ calls'[j].phase = "recovering" => Covers(calls[j].waits, calls[j].prior \cup {j})'
             /\ calls'[j].phase = "awaiting" => Covers({}, calls[j].prior)'
             /\ calls'[j].cleanup = "pending" => Covers(calls[j].cleans, calls[j].kept)'
  <2>1. CASE j = i
    BY <2>1
  <2>2. CASE j # i
    <3>1. /\ calls[j].phase = "clearing" => Covers(calls[j].waits, calls[j].prior)
          /\ calls[j].phase = "recovering" => Covers(calls[j].waits, calls[j].prior \cup {j})
          /\ calls[j].phase = "awaiting" => Covers({}, calls[j].prior)
          /\ calls[j].cleanup = "pending" => Covers(calls[j].cleans, calls[j].kept)
      BY DEF ReleasesAreCovered
    <3>2. \A ids, priors : priors \subseteq CallIds /\ Covers(ids, priors) =>
              \A h \in priors : conn'[h] \in InUse => h \in ids
      BY <1>1, NothingAppears DEF Covers
    <3>3. calls[j].prior \subseteq CallIds /\ calls[j].kept \subseteq CallIds
      BY <1>1, WaitsAreCalls
    <3>4. calls[j].prior \cup {j} \subseteq CallIds
      BY <3>3
    <3>5. calls[j].phase = "clearing" => \A h \in calls[j].prior : conn'[h] \in InUse => h \in calls[j].waits
      BY <3>1, <3>2, <3>3
    <3>6. calls[j].phase = "recovering" =>
             \A h \in calls[j].prior \cup {j} : conn'[h] \in InUse => h \in calls[j].waits
      BY <3>1, <3>2, <3>4
    <3>7. calls[j].phase = "awaiting" => \A h \in calls[j].prior : conn'[h] \in InUse => h \in {}
      BY <3>1, <3>2, <3>3
    <3>8. calls[j].cleanup = "pending" => \A h \in calls[j].kept : conn'[h] \in InUse => h \in calls[j].cleans
      BY <3>1, <3>2, <3>3
    <3>. QED
      BY <1>2, <2>2, <3>5, <3>6, <3>7, <3>8 DEF Covers
  <2>. QED
    BY <2>1, <2>2
<1>4. ProfileStaysReserved'
  <2> SUFFICES ASSUME NEW j \in CallIds, conn'[j] \in InUse PROVE j \in reservations'
    BY DEF ProfileStaysReserved, Live, InUse
  <2>. QED
    BY <1>1, NothingAppears DEF ReleasesAreCovered, ProfileStaysReserved, Live, InUse
<1>5. \A j \in reservations' : calls'[j].kind = "connect"
  BY <1>1, <1>2 DEF ReleasesAreCovered, TypeOK
<1>6. \A j \in CallIds :
        connectionIntent' = j /\ calls'[j].kind = "connect" /\ ~HasOpened(j)' => j \in reservations'
  BY <1>2 DEF ReleasesAreCovered, Continues, IntentsStay
<1>. QED
  BY <1>3, <1>4, <1>5, <1>6 DEF ReleasesAreCovered

---------------------------------------------------------------------------
(* What is shown, when another call moves on.                              *)

LEMMA OwnedShrinks ==
    ASSUME TypeOK, Shrinks
    PROVE  Owned' \subseteq Owned /\ OwnedSubscriptions' \subseteq OwnedSubscriptions
  BY NothingAppears DEF Owned, OwnedSubscriptions

LEMMA ConnectionStaysKnown ==
    ASSUME Base, ConnectionIsKnown, NEW i \in CallIds, Continues(i), Shrinks,
           i # connectionIntent, connection' = connection,
           cleanupFailed => cleanupFailed',
           connectionIntent # None /\ conn[connectionIntent] = "open" => conn'[connectionIntent] = "open"
    PROVE  ConnectionIsKnown'
<1>1. TypeOK /\ connectionIntent \in CallIds \cup {None}
  BY DEF Base, TypeOK
<1>2. /\ connectionIntent' = connectionIntent /\ (Closing' <=> Closing)
      /\ subscriptionIntent' \in {subscriptionIntent, None}
      /\ connectionIntent # None => calls'[connectionIntent] = calls[connectionIntent]
  BY <1>1 DEF Continues, Moves, Alone, IntentsStay, Closing
<1>3. Owned' \subseteq Owned /\ OwnedSubscriptions' \subseteq OwnedSubscriptions
  BY <1>1, OwnedShrinks
<1>4. \A j \in CallIds : conn'[j] \in InUse => conn[j] \in InUse
  BY <1>1, NothingAppears
<1> SUFFICES ASSUME ~Closing
             PROVE  ConnectionIsKnown'
  BY <1>2 DEF ConnectionIsKnown
<1>5. CASE connectionIntent = None
  BY <1>2, <1>3, <1>5 DEF ConnectionIsKnown
<1>6. CASE connectionIntent # None
  BY <1>1, <1>2, <1>3, <1>4, <1>6 DEF ConnectionIsKnown
<1>. QED
  BY <1>5, <1>6

LEMMA SubscriptionStaysKnown ==
    ASSUME Base, SubscriptionIsKnown, StreamingFits, NEW i \in CallIds, Continues(i),
           \A j \in CallIds : Fades(sub[j], sub'[j]),
           i = subscriptionIntent => IsSetup(i), subscriptionIntent' = subscriptionIntent,
           subscribed' = subscribed,
           subscriptionIntent # None /\ calls[subscriptionIntent].kind = "start" =>
               connection' = connection /\ subscription' = subscription,
           subscription' # subscription => subscription' # "streaming",
           cleanupFailed => cleanupFailed',
           subscriptionIntent # None /\ sub[subscriptionIntent] \in {"opening", "open"} =>
               sub'[subscriptionIntent] = sub[subscriptionIntent]
    PROVE  SubscriptionIsKnown' /\ StreamingFits'
<1>1. TypeOK /\ subscriptionIntent \in CallIds \cup {None}
  BY DEF Base, TypeOK
<1>2. /\ connectionIntent' = connectionIntent /\ (Closing' <=> Closing)
      /\ subscriptionIntent # None =>
            /\ calls'[subscriptionIntent].kind = calls[subscriptionIntent].kind
            /\ calls[subscriptionIntent].kind \in {"start", "stop"} =>
                  calls'[subscriptionIntent] = calls[subscriptionIntent]
  BY <1>1 DEF Continues, Moves, Alone, IntentsStay, Closing, IsSetup
<1>3. OwnedSubscriptions' \subseteq OwnedSubscriptions
  BY DEF OwnedSubscriptions, InUse, Fades
<1>4. subscriptionIntent # None =>
        /\ sub'[subscriptionIntent] \in {"opening", "open"} => sub'[subscriptionIntent] = sub[subscriptionIntent]
        /\ sub'[subscriptionIntent] = "retiring" => sub[subscriptionIntent] = "retiring"
        /\ sub'[subscriptionIntent] = "leaked" => sub[subscriptionIntent] \in {"retiring", "leaked"}
  BY <1>1 DEF Fades
<1>5. SubscriptionIsKnown'
  <2> SUFFICES ASSUME ~Closing, subscriptionIntent # None
               PROVE  SubscriptionIsKnown'
    BY <1>2 DEF SubscriptionIsKnown
  <2>. QED
    BY <1>2, <1>3, <1>4 DEF SubscriptionIsKnown
<1>6. StreamingFits'
  <2> SUFFICES ASSUME ~Closing, subscription' = "streaming"
               PROVE  StreamingFits'
    BY <1>2 DEF StreamingFits
  <2>1. /\ subscriptionIntent # None /\ calls[subscriptionIntent].kind = "start"
        /\ calls[subscriptionIntent].phase = "settled"
        /\ sub[subscriptionIntent] = "open" /\ OwnedSubscriptions = {subscriptionIntent}
    BY DEF StreamingFits
  <2>2. sub'[subscriptionIntent] = "open" /\ subscriptionIntent \in OwnedSubscriptions'
    BY <1>1, <2>1 DEF OwnedSubscriptions, InUse
  <2>. QED
    BY <1>2, <1>3, <2>1, <2>2 DEF StreamingFits
<1>. QED
  BY <1>5, <1>6

---------------------------------------------------------------------------
(* The actions.                                                            *)

\* A step of a call, or of a cleanup it sent off, is not taken after the shutdown.
LEMMA NotAfterShutdown ==
    ASSUME OwnedInv, NEW i \in CallIds,
           Busy(i) \/ calls[i].cleanup = "pending" \/ conn[i] \in InUse \/ sub[i] \in InUse
    PROVE  shutdown # "ok"
  BY DEF OwnedInv, ShutdownIsComplete, Live, InUse

LEMMA OwnedHaveOpened ==
    ASSUME OwnedInv, NEW i \in CallIds, i \in Owned \/ i \in OwnedSubscriptions
    PROVE  HasOpened(i)
  BY DEF OwnedInv, EngineInv, ResourcesFit, Owned, OwnedSubscriptions, InUse

\* The owner of the connection, and of the subscription.
LEMMA OwnerIsIntent ==
    ASSUME Base, NEW i \in CallIds
    PROVE  /\ OwnsConnection(i) <=> i = connectionIntent
           /\ i = connectionIntent => ~Closing
           /\ i = subscriptionIntent => ~Closing
           /\ IsSetup(i) /\ i = subscriptionIntent => i = connectionIntent
           /\ OwnsSubscription(i) => i = subscriptionIntent
<1>1. None \notin CallIds /\ CallIds \subseteq Nat /\ connectionIntent \in CallIds \cup {None}
  BY CallIdsAreNumbers DEF Base, TypeOK
<1>2. i = connectionIntent \/ i = subscriptionIntent => ~Closing
  BY <1>1 DEF Base, IntentsAreNewest
<1>3. ASSUME IsSetup(i), i = subscriptionIntent PROVE i = connectionIntent
  <2>1. i <= connectionIntent /\ connectionIntent # None
    BY <1>1, <1>2, <1>3 DEF Base, IntentsAreNewest, None, CallIds
  <2>2. connectionIntent <= i
    BY <1>1, <1>3, <2>1 DEF Base, IntentsAreNewest, IsUsed, IsSetup
  <2>. QED
    BY <1>1, <2>1, <2>2
<1>. QED
  BY <1>1, <1>2, <1>3 DEF OwnsConnection, OwnsSubscription

\* While the newest connect or disconnect is scheduled, so is what came after it.
LEMMA AfterScheduled ==
    ASSUME Base, NEW i \in CallIds, calls[i].phase = "scheduled", NEW j \in CallIds, i <= j, IsUsed(j)
    PROVE  calls[j].phase = "scheduled"
  BY CallIdsAreNumbers DEF Base, InOrder, CallIds

LEMMA IdleContinues ==
    ASSUME TypeOK, IdleFits, NEW i \in CallIds, Continues(i), subscribed' = subscribed,
           ~subscribed => subscription' = "idle",
           calls[i].kind = "stop" => \A j \in calls'[i].waits : j \in CallIds /\ calls[j].kind = "start"
    PROVE  IdleFits'
<1>1. \A j \in CallIds : calls'[j].kind = calls[j].kind /\ (j # i => calls'[j] = calls[j])
  BY DEF Continues, Moves, Alone
<1>2. \A j \in CallIds : calls[j].waits \subseteq CallIds
  BY WaitsAreCalls
<1>3. ~subscribed' => subscription' = "idle" /\ \A j \in CallIds : calls'[j].kind # "start"
  BY <1>1 DEF IdleFits
<1>4. ASSUME NEW j \in CallIds, calls'[j].kind = "stop", NEW k \in calls'[j].waits
      PROVE  calls'[k].kind = "start"
  BY <1>1, <1>2, <1>4 DEF IdleFits
<1>. QED
  BY <1>3, <1>4 DEF IdleFits

\* The owners stay; a promise that others join may go.
OwnersStay ==
    /\ UNCHANGED <<connectionIntent, subscriptionIntent, shutdown>>
    /\ disconnectPromise' \in CallIds \cup {None} /\ stopPromise' \in CallIds \cup {None}

LEMMA IntentsAreOwners ==
    ASSUME TypeOK, UNCHANGED intentVars
    PROVE  OwnersStay
  BY DEF TypeOK, OwnersStay, intentVars

\* A call moves on: what is shown and owned has to be known again.
LEMMA StepKeeps ==
    ASSUME OwnedInv, NEW i \in CallIds, Continues(i), CallFits(i)', Shrinks,
           OwnersStay, SnapshotTyped', subscribed' = subscribed, ~subscribed => subscription' = "idle",
           shutdown # "ok",
           calls[i].phase # "scheduled" \/ (i # connectionIntent /\ i # subscriptionIntent),
           HasOpened(i) => HasOpened(i)',
           conn'[i] = "open" \/ sub'[i] = "open" => calls'[i].phase \in {"opened", "settled"},
           \A j \in calls'[i].waits \cup calls'[i].cleans :
               j \in calls[i].waits \cup calls[i].cleans \/ IsRetired(j)',
           calls[i].kind = "stop" => \A j \in calls'[i].waits : j \in CallIds /\ calls[j].kind = "start",
           NEW lost \in SUBSET CallIds, reservations' = reservations \ lost,
           \A j \in lost : conn'[j] \notin InUse,
           \A j \in lost : j # connectionIntent \/ HasOpened(j)',
           calls'[i].phase = "clearing" => Covers(calls[i].waits, calls[i].prior)',
           calls'[i].phase = "recovering" => Covers(calls[i].waits, calls[i].prior \cup {i})',
           calls'[i].phase = "awaiting" => Covers({}, calls[i].prior)',
           calls'[i].cleanup = "pending" => KeepsCleanup(i) \/ calls'[i].kept = {},
           cleanupFailed' \in BOOLEAN,
           ConnectionIsKnown', SubscriptionIsKnown', StreamingFits'
    PROVE  OwnedInv'
<1>1. Base /\ EngineInv /\ TypeOK /\ reservations' \subseteq CallIds
  BY DEF OwnedInv, Base, TypeOK
<1>2. Base'
  <2>1. /\ connectionIntent' \in CallIds \cup {None} /\ subscriptionIntent' \in CallIds \cup {None}
        /\ disconnectPromise' \in CallIds \cup {None} /\ stopPromise' \in CallIds \cup {None}
        /\ shutdown' \in {"none", "scheduled", "running", "ok", "failed"}
    BY <1>1 DEF TypeOK, OwnersStay
  <2>2. TypeOK'
    BY <1>1, <2>1, TypesMove DEF Continues, Moves, Shrinks
  <2>. QED
    BY <1>1, <2>2, OrderContinues DEF Base
<1>3. /\ connectionIntent' = connectionIntent /\ subscriptionIntent' = subscriptionIntent
      /\ shutdown' = shutdown
  BY DEF OwnersStay
<1>4. EngineInv'
  BY <1>1, <1>3, EngineContinues
<1>5. calls'[i].cleanup = "pending" => Covers(calls[i].cleans, calls[i].kept)'
  BY <1>1, NothingAppears, WaitsAreCalls DEF OwnedInv, ReleasesAreCovered, Covers, KeepsCleanup
<1>6. ReleasesAreCovered'
  BY <1>1, <1>5, ReleasesContinue DEF OwnedInv
<1>7. IdleFits'
  BY <1>1, IdleContinues DEF OwnedInv
<1>8. ShutdownIsComplete'
  BY <1>3 DEF ShutdownIsComplete
<1>. QED
  BY <1>2, <1>4, <1>6, <1>7, <1>8 DEF OwnedInv

\* A call that owns nothing (any more) moves on beside what is shown.
LEMMA Aside ==
    ASSUME OwnedInv, NEW i \in CallIds, Continues(i), CallFits(i)', Shrinks,
           OwnersStay, SnapshotTyped', UNCHANGED <<connection, subscription, subscribed>>,
           shutdown # "ok", i # connectionIntent, i # subscriptionIntent,
           HasOpened(i) => HasOpened(i)',
           conn'[i] = "open" \/ sub'[i] = "open" => calls'[i].phase \in {"opened", "settled"},
           connectionIntent # None /\ conn[connectionIntent] = "open" => conn'[connectionIntent] = "open",
           subscriptionIntent # None /\ sub[subscriptionIntent] \in {"opening", "open"} =>
               sub'[subscriptionIntent] = sub[subscriptionIntent],
           \A j \in calls'[i].waits \cup calls'[i].cleans :
               j \in calls[i].waits \cup calls[i].cleans \/ IsRetired(j)',
           calls[i].kind = "stop" => \A j \in calls'[i].waits : j \in CallIds /\ calls[j].kind = "start",
           NEW lost \in SUBSET CallIds, reservations' = reservations \ lost,
           \A j \in lost : conn'[j] \notin InUse,
           \A j \in lost : j # connectionIntent \/ HasOpened(j)',
           calls'[i].phase = "clearing" => Covers(calls[i].waits, calls[i].prior)',
           calls'[i].phase = "recovering" => Covers(calls[i].waits, calls[i].prior \cup {i})',
           calls'[i].phase = "awaiting" => Covers({}, calls[i].prior)',
           calls'[i].cleanup = "pending" => KeepsCleanup(i),
           cleanupFailed' \in BOOLEAN, cleanupFailed => cleanupFailed'
    PROVE  OwnedInv'
<1>1. Base /\ TypeOK /\ \A j \in CallIds : Fades(sub[j], sub'[j])
  BY DEF OwnedInv, Base, Shrinks
<1>2. subscriptionIntent' = subscriptionIntent
  BY DEF OwnersStay
<1>3. ConnectionIsKnown'
  BY <1>1, ConnectionStaysKnown DEF OwnedInv
<1>4. SubscriptionIsKnown' /\ StreamingFits'
  BY <1>1, <1>2, SubscriptionStaysKnown DEF OwnedInv
<1>5. ~subscribed => subscription' = "idle"
  BY DEF OwnedInv, IdleFits
<1>. QED
  BY <1>3, <1>4, <1>5, StepKeeps

LEMMA EngineStays ==
    ASSUME TypeOK, UNCHANGED engineVars
    PROVE  Shrinks /\ conn' = conn /\ sub' = sub
  BY DEF TypeOK, engineVars, Shrinks, EngineTyped, Fades

\* ... and is over.
LEMMA AsideSettles ==
    ASSUME OwnedInv, NEW i \in CallIds, IsUsed(i), Busy(i), Settle(i), Shrinks,
           calls[i].phase = "scheduled" => \A j \in Scheduled : i <= j,
           OwnersStay, SnapshotTyped', UNCHANGED <<connection, subscription, subscribed>>,
           i # connectionIntent, i # subscriptionIntent,
           connectionIntent # None /\ conn[connectionIntent] = "open" => conn'[connectionIntent] = "open",
           subscriptionIntent # None /\ sub[subscriptionIntent] \in {"opening", "open"} =>
               sub'[subscriptionIntent] = sub[subscriptionIntent],
           NEW lost \in SUBSET CallIds, reservations' = reservations \ lost,
           \A j \in lost : conn'[j] \notin InUse,
           \A j \in lost : j # connectionIntent,
           cleanupFailed' \in BOOLEAN, cleanupFailed => cleanupFailed'
    PROVE  OwnedInv'
<1>1. /\ TypeOK /\ CallFits(i) /\ shutdown # "ok"
  BY NotAfterShutdown DEF OwnedInv, Base, CallsFit
<1>2. /\ Moves(i) /\ KeepsCleanup(i) /\ calls'[i].phase = "settled"
      /\ calls'[i].waits = {} /\ calls'[i].prior = {}
  BY <1>1, SettleMoves
<1>3. IntentsStay
  BY DEF IntentsStay, OwnersStay
<1>4. Continues(i) /\ CallFits(i)'
  BY <1>1, <1>2, <1>3 DEF Continues, CallFits, KeepsCleanup, Moves, Busy, IsUsed
<1>5. HasOpened(i)'
  BY <1>2 DEF HasOpened
<1>6. calls'[i].waits \cup calls'[i].cleans \subseteq calls[i].waits \cup calls[i].cleans
  BY <1>2 DEF KeepsCleanup
<1>7. calls[i].kind = "stop" => \A j \in calls'[i].waits : j \in CallIds /\ calls[j].kind = "start"
  BY <1>2
<1>8. \A j \in calls'[i].waits \cup calls'[i].cleans :
        j \in calls[i].waits \cup calls[i].cleans \/ IsRetired(j)'
  BY <1>6
<1>9. calls'[i].phase \notin {"clearing", "recovering", "awaiting"} /\ calls'[i].phase \in {"opened", "settled"}
  BY <1>2
<1>10. \A j \in lost : j # connectionIntent \/ HasOpened(j)'
  OBVIOUS
<1>. QED
  BY <1>1, <1>2, <1>4, <1>5, <1>7, <1>8, <1>9, <1>10, Aside

LEMMA AsideEnds ==
    ASSUME OwnedInv, NEW i \in CallIds, IsUsed(i), Busy(i), Settle(i), Shrinks,
           calls[i].phase = "scheduled" => \A j \in Scheduled : i <= j,
           UNCHANGED intentVars, UNCHANGED snapshotVars, UNCHANGED reservations,
           UNCHANGED cleanupFailed,
           i # connectionIntent, i # subscriptionIntent,
           connectionIntent # None /\ conn[connectionIntent] = "open" => conn'[connectionIntent] = "open",
           subscriptionIntent # None /\ sub[subscriptionIntent] \in {"opening", "open"} =>
               sub'[subscriptionIntent] = sub[subscriptionIntent]
    PROVE  OwnedInv'
<1>1. cleanupFailed' \in BOOLEAN /\ (cleanupFailed => cleanupFailed')
  BY DEF OwnedInv, Base, TypeOK
<1>2. {} \in SUBSET CallIds /\ reservations' = reservations \ {}
  OBVIOUS
<1>3. OwnersStay /\ SnapshotTyped' /\ UNCHANGED <<connection, subscription, subscribed>>
  BY SnapshotIsTyped, SnapshotStays, IntentsAreOwners DEF OwnedInv, Base, snapshotVars
<1>. QED
  BY <1>1, <1>2, <1>3, AsideSettles

\* The newest call is still to run when an older one does.
LEMMA NewestIsScheduled ==
    ASSUME OwnedInv, NEW i \in CallIds, IsUsed(i), calls[i].phase = "scheduled"
    PROVE  /\ subscriptionIntent # None =>
                 calls[subscriptionIntent].phase = "scheduled" /\ sub[subscriptionIntent] = "none"
           /\ connectionIntent # None /\ i <= connectionIntent =>
                 calls[connectionIntent].phase = "scheduled" /\ conn[connectionIntent] = "none"
<1>1. /\ Base /\ ResourcesFit /\ connectionIntent \in CallIds \cup {None}
      /\ subscriptionIntent \in CallIds \cup {None}
  BY DEF OwnedInv, Base, EngineInv, TypeOK
<1>2. \A j \in CallIds : calls[j].phase = "scheduled" => conn[j] = "none" /\ sub[j] = "none"
  BY <1>1 DEF ResourcesFit, HasOpened
<1>3. subscriptionIntent # None => subscriptionIntent \in CallIds /\ i <= subscriptionIntent /\ IsUsed(subscriptionIntent)
  BY <1>1 DEF Base, IntentsAreNewest
<1>4. connectionIntent # None => connectionIntent \in CallIds /\ IsUsed(connectionIntent)
  BY <1>1 DEF Base, IntentsAreNewest, IsSetup, IsUsed
<1>. QED
  BY <1>1, <1>2, <1>3, <1>4, AfterScheduled

\* A microtask that has the engine disconnect.
LEMMA DisconnectRuns ==
    ASSUME OwnedInv, NEW i \in CallIds, \A j \in Scheduled : i <= j,
           IsSetup(i), calls[i].phase = "scheduled", DisconnectEngine, GotoAndWait(i, "clearing", Owned),
           UNCHANGED <<intentVars, snapshotVars, reservations, cleanupFailed>>
    PROVE  OwnedInv'
<1>1. /\ Base /\ EngineInv /\ TypeOK /\ CallFits(i) /\ IsUsed(i) /\ SnapshotTyped
      /\ calls[i].cleanup = "none" /\ shutdown # "ok"
  BY SnapshotIsTyped, NotAfterShutdown DEF OwnedInv, Base, CallsFit, CallFits, IsSetup, IsUsed, Busy
<1>2. /\ UNCHANGED intentVars /\ UNCHANGED snapshotVars
      /\ SnapshotTyped' /\ reservations' \subseteq CallIds /\ cleanupFailed' \in BOOLEAN /\ IntentsStay
      /\ connectionIntent' = connectionIntent /\ subscriptionIntent' = subscriptionIntent
      /\ shutdown' = shutdown /\ connection' = connection /\ subscription' = subscription
      /\ subscribed' = subscribed
  BY <1>1, SnapshotStays DEF TypeOK, IntentsStay, intentVars, snapshotVars
<1>3. /\ Moves(i) /\ KeepsWork(i) /\ KeepsCleanup(i)
      /\ calls'[i].phase = "clearing" /\ calls'[i].waits = Owned
  BY <1>1, WaitMoves, WaitsAreCalls DEF Phases
<1>4. /\ Shrinks
      /\ \A j \in CallIds : {conn'[j], sub'[j]} \cap {"opening", "open"} = {}
      /\ \A j \in CallIds : conn'[j] \in InUse \/ sub'[j] \in InUse => j \in Owned
  BY <1>1, DisconnectShrinks
<1>5. Continues(i) /\ CallFits(i)'
  BY <1>1, <1>2, <1>3 DEF Continues, CallFits, KeepsWork, KeepsCleanup, Moves, IsSetup, IsUsed
<1>6. Base'
  BY <1>1, <1>2, <1>3, <1>4, <1>5, TypesStay, OrderContinues DEF Base, Moves, Shrinks
<1>7. EngineInv'
  <2>1. \A j \in Owned : j \in CallIds /\ j # i /\ HasOpened(j)
    BY <1>1, OwnedHaveOpened, WaitsAreCalls DEF HasOpened
  <2>2. \A j \in Owned : IsRetired(j)'
    BY <1>3, <1>4, <2>1 DEF IsRetired, Moves, Alone, HasOpened
  <2>3. calls[i].cleans = calls'[i].cleans /\ ~HasOpened(i)
    BY <1>1, <1>3 DEF KeepsCleanup, HasOpened
  <2>. QED
    BY <1>1, <1>2, <1>3, <1>4, <1>5, <2>2, <2>3, EngineContinues
<1>8. ReleasesAreCovered'
  <2>1. Covers(calls[i].waits, calls[i].prior)'
    BY <1>1, <1>3, <1>4, WaitsAreCalls DEF Covers, KeepsWork
  <2>2. reservations' = reservations \ {} /\ ~HasOpened(i)
    BY <1>1 DEF HasOpened
  <2>. QED
    BY <1>1, <1>3, <1>4, <1>5, <2>1, <2>2, ReleasesContinue DEF OwnedInv, KeepsCleanup
<1>9. ConnectionIsKnown'
  <2>1. CASE i = connectionIntent
    <3>1. connection # "connected" /\ ~Closing /\ (~Closing)'
      BY <1>1, <1>2, <2>1, OwnerIsIntent DEF OwnedInv, ConnectionIsKnown, Closing
    <3>2. Owned' \subseteq calls'[i].waits
      BY <1>3, <1>4 DEF Owned
    <3>3. connection = "disconnected" => Owned' = {}
      BY <1>1, <2>1, <1>3, <3>1, <3>2 DEF OwnedInv, ConnectionIsKnown
    <3>. QED
      BY <1>1, <1>2, <1>3, <2>1, <3>1, <3>2, <3>3, CallIdsAreNumbers DEF ConnectionIsKnown, KeepsCleanup
  <2>2. CASE i # connectionIntent
    <3>1. connectionIntent # None => i <= connectionIntent
      BY <1>1 DEF Base, IntentsAreNewest
    <3>2. connectionIntent # None => conn[connectionIntent] = "none"
      BY <1>1, <3>1, NewestIsScheduled
    <3>. QED
      BY <1>1, <1>2, <1>4, <1>5, <2>2, <3>2, ConnectionStaysKnown DEF OwnedInv
  <2>. QED
    BY <2>1, <2>2
<1>10. SubscriptionIsKnown' /\ StreamingFits'
  <2>1. subscriptionIntent # None => sub[subscriptionIntent] = "none"
    BY <1>1, NewestIsScheduled
  <2>. QED
    BY <1>1, <1>2, <1>4, <1>5, <2>1, SubscriptionStaysKnown DEF OwnedInv, Shrinks
<1>11. IdleFits'
  BY <1>1, <1>2, <1>5, IdleContinues DEF OwnedInv, IdleFits, IsSetup
<1>12. ShutdownIsComplete'
  BY <1>1, <1>2 DEF ShutdownIsComplete
<1>. QED
  BY <1>6, <1>7, <1>8, <1>9, <1>10, <1>11, <1>12 DEF OwnedInv

LEMMA RunConnectKeeps ==
    ASSUME OwnedInv, NEW i \in CallIds, \A j \in Scheduled : i <= j, RunConnect(i)
    PROVE  OwnedInv'
<1>1. /\ Base /\ TypeOK /\ IsSetup(i) /\ IsUsed(i) /\ Busy(i) /\ calls[i].phase = "scheduled"
      /\ UNCHANGED intentVars /\ UNCHANGED snapshotVars /\ UNCHANGED reservations /\ UNCHANGED cleanupFailed
  BY DEF RunConnect, OwnedInv, Base, IsUsed, IsSetup, Busy
<1>2. CASE OwnsConnection(i)
  BY <1>1, <1>2, DisconnectRuns DEF RunConnect
<1>3. CASE ~OwnsConnection(i)
  <2>1. Settle(i) /\ UNCHANGED engineVars /\ i # connectionIntent /\ i # subscriptionIntent
    BY <1>1, <1>3, OwnerIsIntent DEF RunConnect
  <2>2. Shrinks /\ conn' = conn /\ sub' = sub
    BY <1>1, <2>1, EngineStays
  <2>. QED
    BY <1>1, <2>1, <2>2, AsideEnds
<1>. QED
  BY <1>2, <1>3

LEMMA RunDisconnectKeeps ==
    ASSUME OwnedInv, NEW i \in CallIds, \A j \in Scheduled : i <= j, RunDisconnect(i)
    PROVE  OwnedInv'
  BY DisconnectRuns DEF RunDisconnect, IsSetup

\* A microtask that has the engine stop the subscription.
LEMMA StopRuns ==
    ASSUME OwnedInv, NEW i \in CallIds, \A j \in Scheduled : i <= j,
           calls[i].kind \in {"start", "stop"}, calls[i].phase = "scheduled",
           StopEngine, GotoAndWait(i, "clearing", OwnedSubscriptions),
           UNCHANGED <<intentVars, snapshotVars, reservations, cleanupFailed>>
    PROVE  OwnedInv'
<1>1. /\ Base /\ EngineInv /\ TypeOK /\ CallFits(i) /\ IsUsed(i) /\ SnapshotTyped
      /\ calls[i].cleanup = "none" /\ shutdown # "ok" /\ calls[i].prior = {}
      /\ i # connectionIntent
  BY SnapshotIsTyped, NotAfterShutdown, CallIdsAreNumbers
  DEF OwnedInv, Base, CallsFit, CallFits, IsUsed, Busy, IntentsAreNewest, IsSetup
<1>2. /\ UNCHANGED intentVars /\ UNCHANGED snapshotVars
      /\ SnapshotTyped' /\ reservations' \subseteq CallIds /\ cleanupFailed' \in BOOLEAN /\ IntentsStay
      /\ connectionIntent' = connectionIntent /\ subscriptionIntent' = subscriptionIntent
      /\ shutdown' = shutdown /\ connection' = connection /\ subscription' = subscription
      /\ subscribed' = subscribed
  BY <1>1, SnapshotStays DEF TypeOK, IntentsStay, intentVars, snapshotVars
<1>3. /\ Moves(i) /\ KeepsWork(i) /\ KeepsCleanup(i)
      /\ calls'[i].phase = "clearing" /\ calls'[i].waits = OwnedSubscriptions
  BY <1>1, WaitMoves, WaitsAreCalls DEF Phases
<1>4. /\ Shrinks /\ conn' = conn
      /\ \A j \in CallIds : sub'[j] \notin {"opening", "open"}
      /\ \A j \in CallIds : sub'[j] \in InUse => j \in OwnedSubscriptions
  BY <1>1, StopShrinks
<1>5. Continues(i) /\ CallFits(i)'
  BY <1>1, <1>2, <1>3 DEF Continues, CallFits, KeepsWork, KeepsCleanup, Moves, IsUsed
<1>6. Base'
  BY <1>1, <1>2, <1>3, <1>4, <1>5, TypesStay, OrderContinues DEF Base, Moves, Shrinks
<1>7. \A j \in OwnedSubscriptions : /\ j \in CallIds /\ j # i /\ HasOpened(j)
                                    /\ calls[j].kind = "start" /\ conn[j] = "none"
  BY <1>1 DEF HasOpened, EngineInv, ResourcesFit, OwnedSubscriptions, InUse
<1>8. EngineInv'
  <2>1. \A j \in OwnedSubscriptions : IsRetired(j)'
    BY <1>3, <1>4, <1>7 DEF IsRetired, Moves, Alone, HasOpened
  <2>2. calls[i].cleans = calls'[i].cleans /\ ~HasOpened(i) /\ conn[i] = "none"
    BY <1>1, <1>3 DEF KeepsCleanup, HasOpened, EngineInv, ResourcesFit
  <2>. QED
    BY <1>1, <1>2, <1>3, <1>4, <1>5, <2>1, <2>2, EngineContinues
<1>9. ReleasesAreCovered'
  <2>1. Covers(calls[i].waits, calls[i].prior)'
    BY <1>1, <1>3 DEF Covers, KeepsWork
  <2>2. reservations' = reservations \ {} /\ ~HasOpened(i)
    BY <1>1 DEF HasOpened
  <2>. QED
    BY <1>1, <1>3, <1>4, <1>5, <2>1, <2>2, ReleasesContinue DEF OwnedInv, KeepsCleanup
<1>10. ConnectionIsKnown'
  BY <1>1, <1>2, <1>4, <1>5, ConnectionStaysKnown DEF OwnedInv
<1>11. SubscriptionIsKnown' /\ StreamingFits'
  <2>1. CASE i = subscriptionIntent
    <3>1. sub[i] = "none" /\ sub'[i] = "none" /\ ~Closing /\ (~Closing)' /\ i # None
      BY <1>1, <1>2, <1>4, <2>1, NewestIsScheduled, NothingAppears, OwnerIsIntent, CallIdsAreNumbers
      DEF Closing
    <3>2. OwnedSubscriptions' \subseteq calls'[i].waits
      BY <1>3, <1>4 DEF OwnedSubscriptions
    <3>3. calls'[i].kind = calls[i].kind /\ calls'[i].on = calls[i].on /\ calls'[i].cleanup = "none"
      BY <1>1, <1>3 DEF Moves, KeepsCleanup
    <3>4. SubscriptionIsKnown'
      BY <1>1, <1>2, <1>3, <2>1, <3>1, <3>2, <3>3 DEF OwnedInv, SubscriptionIsKnown
    <3>5. subscription # "streaming"
      BY <1>1, <2>1, <3>1 DEF OwnedInv, StreamingFits
    <3>. QED
      BY <1>2, <3>4, <3>5 DEF StreamingFits
  <2>2. CASE i # subscriptionIntent
    <3>1. subscriptionIntent # None => sub[subscriptionIntent] = "none"
      BY <1>1, NewestIsScheduled
    <3>. QED
      BY <1>1, <1>2, <1>4, <1>5, <2>2, <3>1, SubscriptionStaysKnown DEF OwnedInv, Shrinks
  <2>. QED
    BY <2>1, <2>2
<1>12. IdleFits'
  BY <1>1, <1>2, <1>3, <1>5, <1>7, IdleContinues DEF OwnedInv, IdleFits
<1>13. ShutdownIsComplete'
  BY <1>1, <1>2 DEF ShutdownIsComplete
<1>. QED
  BY <1>6, <1>8, <1>9, <1>10, <1>11, <1>12, <1>13 DEF OwnedInv

LEMMA RunStartAndStopKeep ==
    ASSUME OwnedInv, NEW i \in CallIds, \A j \in Scheduled : i <= j, RunStart(i) \/ RunStop(i)
    PROVE  OwnedInv'
  BY StopRuns DEF RunStart, RunStop
---------------------------------------------------------------------------
\* connect after its first await, and the cleanup after a lost connection.

\* The newest connect or disconnect moves on before it is done: nothing can
\* have been subscribed.
LEMMA NewestMoves ==
    ASSUME OwnedInv, NEW i \in CallIds, i = connectionIntent, connection # "connected",
           calls[i].phase # "scheduled", Continues(i), CallFits(i)', Shrinks,
           OwnersStay, SnapshotTyped', subscribed' = subscribed,
           ~subscribed => subscription' = "idle",
           subscription' # subscription => subscription' # "streaming",
           HasOpened(i) => HasOpened(i)',
           conn'[i] = "open" => calls'[i].phase \in {"opened", "settled"},
           \A j \in calls'[i].waits \cup calls'[i].cleans :
               j \in calls[i].waits \cup calls[i].cleans \/ IsRetired(j)',
           NEW lost \in SUBSET CallIds, reservations' = reservations \ lost,
           \A j \in lost : conn'[j] \notin InUse,
           \A j \in lost : j # connectionIntent \/ HasOpened(j)',
           calls'[i].phase = "clearing" => Covers(calls[i].waits, calls[i].prior)',
           calls'[i].phase = "recovering" => Covers(calls[i].waits, calls[i].prior \cup {i})',
           calls'[i].phase = "awaiting" => Covers({}, calls[i].prior)',
           calls'[i].cleanup = "pending" => KeepsCleanup(i),
           cleanupFailed' \in BOOLEAN, cleanupFailed => cleanupFailed',
           ConnectionIsKnown'
    PROVE  OwnedInv'
<1>1. /\ Base /\ TypeOK /\ \A j \in CallIds : Fades(sub[j], sub'[j])
      /\ subscriptionIntent \in CallIds \cup {None}
  BY DEF OwnedInv, Base, Shrinks, TypeOK
<1>2. ~Closing /\ shutdown # "ok" /\ IsSetup(i) /\ i # None
  BY <1>1, OwnerIsIntent, CallIdsAreNumbers DEF Closing, Base, IntentsAreNewest
<1>3. subscriptionIntent # None => calls[subscriptionIntent].kind # "start"
  BY <1>2 DEF OwnedInv, SubscriptionIsKnown
<1>4. subscriptionIntent # None => sub[subscriptionIntent] = "none"
  BY <1>1, <1>3 DEF OwnedInv, EngineInv, ResourcesFit
<1>5. subscriptionIntent' = subscriptionIntent /\ calls[i].kind # "stop"
  BY <1>2 DEF OwnersStay, IsSetup
<1>6. SubscriptionIsKnown' /\ StreamingFits'
  BY <1>1, <1>2, <1>3, <1>4, <1>5, SubscriptionStaysKnown DEF OwnedInv
<1>7. sub'[i] # "open"
  BY <1>1, <1>2, NothingAppears DEF OwnedInv, EngineInv, ResourcesFit, IsSetup, Shrinks, Fades
<1>. QED
  BY <1>2, <1>5, <1>6, <1>7, StepKeeps

\* The newest connect or disconnect has not settled.
LEMMA NewestIsBusy ==
    ASSUME OwnedInv, NEW i \in CallIds, i = connectionIntent, calls[i].phase # "settled" \/ calls[i].cleanup # "none"
    PROVE  /\ ~Closing /\ connection # "connected" /\ IsSetup(i) /\ IsUsed(i) /\ TypeOK /\ SnapshotTyped
           /\ CallFits(i) /\ i # None /\ Base
<1>1. Base /\ TypeOK /\ i # None
  BY CallIdsAreNumbers DEF OwnedInv, Base
<1>2. ~Closing /\ IsSetup(i) /\ IsUsed(i)
  BY <1>1, OwnerIsIntent DEF Base, IntentsAreNewest, IsSetup, IsUsed
<1>. QED
  BY <1>1, <1>2, SnapshotIsTyped DEF OwnedInv, ConnectionIsKnown, Base, CallsFit

LEMMA ConnectionIsShown ==
    ASSUME TypeOK, NEW state \in ConnectionStates, ChangeConnection(state)
    PROVE  /\ SnapshotTyped' /\ subscribed' = subscribed /\ subscription' = subscription
           /\ connection' = state
  BY SnapshotIsTyped, ConnectionChanges

LEMMA SubscriptionIsShown ==
    ASSUME TypeOK, NEW state \in SubscriptionStates, ChangeSubscription(state)
    PROVE  /\ SnapshotTyped' /\ subscribed' = subscribed /\ connection' = connection
           /\ subscription' = state
  BY SnapshotIsTyped, SubscriptionChanges

LEMMA ShownStays ==
    ASSUME TypeOK, UNCHANGED snapshotVars
    PROVE  /\ SnapshotTyped' /\ subscribed' = subscribed /\ connection' = connection
           /\ subscription' = subscription
  BY SnapshotIsTyped, SnapshotStays DEF snapshotVars

\* The engine call that i waits for settles: the profiles it releases are
\* those of closed connections, which were opened before it.
LEMMA PriorIsReleased ==
    ASSUME OwnedInv, NEW i \in CallIds, IsSetup(i), calls[i].phase = "clearing",
           EngineSettles(calls[i].waits, FALSE)
    PROVE  /\ \A j \in calls[i].prior : conn'[j] \notin InUse /\ j # connectionIntent
           /\ calls[i].prior \in SUBSET CallIds
<1>1. /\ Base /\ TypeOK /\ WaitsAreRetired /\ CallFits(i) /\ connectionIntent \in CallIds \cup {None}
      /\ calls[i].prior \subseteq CallIds /\ calls[i].waits \in SUBSET CallIds
  BY WaitsAreCalls DEF OwnedInv, Base, CallsFit, EngineInv, TypeOK
<1>2. Shrinks
  BY <1>1, SettlesShrinks
<1>3. \A j \in calls[i].waits : conn'[j] \notin InUse
  BY <1>1, CleanedIsClosed
<1>4. Covers(calls[i].waits, calls[i].prior)
  BY DEF OwnedInv, ReleasesAreCovered
<1>5. \A j \in calls[i].prior : conn'[j] \notin InUse
  BY <1>1, <1>2, <1>3, <1>4, NothingAppears DEF Covers
<1>6. connectionIntent # None => i <= connectionIntent
  BY <1>1 DEF Base, IntentsAreNewest
<1>7. \A j \in calls[i].prior : j # connectionIntent
  BY <1>1, <1>6, CallIdsAreNumbers DEF CallFits, CallIds
<1>. QED
  BY <1>1, <1>5, <1>7

LEMMA ConnectClearedKeeps ==
    ASSUME OwnedInv, NEW i \in CallIds, NEW failed \in BOOLEAN, ConnectCleared(i, failed)
    PROVE  OwnedInv'
<1>1. /\ Base /\ TypeOK /\ IsSetup(i) /\ IsUsed(i) /\ Busy(i) /\ calls[i].phase = "clearing"
      /\ calls[i].kind = "connect" /\ CallFits(i) /\ WaitsAreRetired
      /\ calls[i].waits \in SUBSET CallIds /\ cleanupFailed' = cleanupFailed
      /\ cleanupFailed \in BOOLEAN /\ UNCHANGED intentVars /\ EngineSettles(calls[i].waits, failed)
  BY WaitsAreCalls
  DEF ConnectCleared, OwnedInv, Base, CallsFit, EngineInv, IsUsed, IsSetup, Busy, TypeOK
<1>2. /\ Shrinks /\ OwnersStay
      /\ \A j \in CallIds : conn[j] \in {"opening", "open"} => conn'[j] = conn[j]
      /\ \A j \in CallIds : sub[j] \in {"opening", "open"} => sub'[j] = sub[j]
  BY <1>1, SettlesShrinks, IntentsAreOwners
<1>3. connectionIntent \in CallIds \cup {None} /\ subscriptionIntent \in CallIds \cup {None}
  BY <1>1 DEF TypeOK
<1> DEFINE lost == IF failed THEN {} ELSE calls[i].prior
<1>4. /\ lost \in SUBSET CallIds /\ reservations' = reservations \ lost
      /\ \A j \in lost : conn'[j] \notin InUse /\ j # connectionIntent
  BY <1>1, PriorIsReleased DEF ConnectCleared
<1>. HIDE DEF lost
<1>5. CASE ~OwnsConnection(i)
  <2>1. Settle(i) /\ UNCHANGED snapshotVars /\ i # connectionIntent /\ i # subscriptionIntent
    BY <1>1, <1>5, OwnerIsIntent DEF ConnectCleared
  <2>2. SnapshotTyped' /\ UNCHANGED <<connection, subscription, subscribed>>
    BY <1>1, <2>1, ShownStays
  <2>. QED
    BY <1>1, <1>2, <1>3, <1>4, <2>1, <2>2, AsideSettles
<1>6. CASE OwnsConnection(i)
  <2>1. i = connectionIntent
    BY <1>1, <1>6, OwnerIsIntent
  <2>2. ~Closing /\ connection # "connected" /\ i # None /\ (~Closing)' /\ connectionIntent' = i
    BY <1>1, <2>1, <1>2, NewestIsBusy DEF OwnersStay, Closing
  <2>3. Owned' \subseteq Owned /\ Owned \subseteq calls[i].waits /\ conn[i] = "none" /\ calls[i].cleanup = "none"
    BY <1>1, <1>2, <2>1, <2>2, OwnedShrinks
    DEF OwnedInv, ConnectionIsKnown, EngineInv, ResourcesFit, HasOpened, CallFits
  <2>4. conn'[i] = "none"
    BY <1>1, <1>2, <2>3, NothingAppears DEF Shrinks, Fades
  <2>5. IntentsStay
    BY <1>2 DEF IntentsStay, OwnersStay
  <2>6. CASE failed
    <3>1. ChangeConnection("failed") /\ Goto(i, "recovering")
      BY <1>1, <1>6, <2>6 DEF ConnectCleared
    <3>2. /\ Moves(i) /\ KeepsWork(i) /\ KeepsCleanup(i)
          /\ calls'[i].phase = "recovering" /\ calls'[i].waits = calls[i].waits
      BY <1>1, <3>1, GotoMoves DEF Phases
    <3>3. Continues(i) /\ CallFits(i)'
      BY <1>1, <2>5, <3>2 DEF Continues, CallFits, KeepsWork, KeepsCleanup, Moves, IsUsed
    <3>4. /\ SnapshotTyped' /\ subscribed' = subscribed /\ subscription' = subscription
          /\ connection' = "failed"
      BY <1>1, <3>1, ConnectionIsShown DEF ConnectionStates
    <3>5. Covers(calls[i].waits, calls[i].prior \cup {i})'
      <4>1. Covers(calls[i].waits, calls[i].prior)
        BY <1>1 DEF OwnedInv, ReleasesAreCovered
      <4>. QED
        BY <1>1, <1>2, <2>4, <3>2, <4>1, NothingAppears, WaitsAreCalls DEF Covers, KeepsWork, InUse
    <3>6. ConnectionIsKnown'
      BY <2>1, <2>2, <2>3, <3>2, <3>4 DEF ConnectionIsKnown, KeepsCleanup
    <3>7. /\ calls[i].phase # "scheduled" /\ ~HasOpened(i) /\ conn'[i] # "open"
          /\ calls'[i].waits \cup calls'[i].cleans = calls[i].waits \cup calls[i].cleans
          /\ calls'[i].phase \notin {"clearing", "awaiting"} /\ calls'[i].cleanup # "pending"
          /\ ~subscribed => subscription' = "idle"
      BY <1>1, <2>3, <2>4, <3>2, <3>4 DEF HasOpened, KeepsCleanup, OwnedInv, IdleFits
    <3>. QED
      BY <1>1, <1>2, <1>4, <2>1, <2>2, <3>2, <3>3, <3>4, <3>5, <3>6, <3>7, NewestMoves
  <2>7. CASE ~failed
    <3>1. /\ Goto(i, "resolving")
          /\ IF subscription = "stopping" THEN ChangeSubscription("stopped") ELSE UNCHANGED snapshotVars
      BY <1>1, <1>6, <2>7 DEF ConnectCleared
    <3>2. /\ Moves(i) /\ KeepsWork(i) /\ KeepsCleanup(i)
          /\ calls'[i].phase = "resolving" /\ calls'[i].waits = calls[i].waits
      BY <1>1, <3>1, GotoMoves DEF Phases
    <3>3. Continues(i) /\ CallFits(i)'
      BY <1>1, <2>5, <3>2 DEF Continues, CallFits, KeepsWork, KeepsCleanup, Moves, IsUsed
    <3>4. /\ SnapshotTyped' /\ subscribed' = subscribed /\ connection' = connection
          /\ subscription' = subscription \/ (subscription = "stopping" /\ subscription' = "stopped")
      BY <1>1, <3>1, SubscriptionIsShown, ShownStays DEF SubscriptionStates
    <3>5. Owned' = {}
      <4>1. EngineSettles(calls[i].waits, FALSE)
        BY <1>1, <2>7
      <4>2. \A j \in calls[i].waits : conn'[j] \notin InUse /\ sub'[j] \notin InUse
        BY <1>1, <4>1, CleanedIsClosed
      <4>. QED
        BY <2>3, <4>2 DEF Owned
    <3>6. ConnectionIsKnown'
      BY <2>1, <2>2, <2>3, <3>2, <3>4, <3>5 DEF ConnectionIsKnown, KeepsCleanup
    <3>7. /\ calls[i].phase # "scheduled" /\ ~HasOpened(i) /\ conn'[i] # "open"
          /\ calls'[i].waits \cup calls'[i].cleans = calls[i].waits \cup calls[i].cleans
          /\ calls'[i].phase \notin {"clearing", "recovering", "awaiting"} /\ calls'[i].cleanup # "pending"
          /\ ~subscribed => subscription' = "idle"
      BY <1>1, <2>3, <2>4, <3>2, <3>4 DEF HasOpened, KeepsCleanup, OwnedInv, IdleFits
    <3>. QED
      BY <1>1, <1>2, <1>4, <2>1, <2>2, <3>2, <3>3, <3>4, <3>6, <3>7, NewestMoves
  <2>. QED
    BY <2>6, <2>7
<1>. QED
  BY <1>5, <1>6

\* A connect that fails leaves what the engine holds to its own cleanup, or
\* to the call that superseded it.
LEMMA FailConnectKeeps ==
    ASSUME OwnedInv, NEW i \in CallIds, calls[i].kind = "connect",
           calls[i].phase \in {"resolving", "opening", "opened"}, FailConnect(i),
           UNCHANGED <<intentVars, reservations, cleanupFailed>>
    PROVE  OwnedInv'
<1>1. /\ Base /\ TypeOK /\ IsSetup(i) /\ IsUsed(i) /\ Busy(i) /\ CallFits(i)
      /\ cleanupFailed' = cleanupFailed /\ cleanupFailed \in BOOLEAN /\ UNCHANGED intentVars
      /\ UNCHANGED reservations /\ UNCHANGED cleanupFailed /\ calls[i].phase # "scheduled"
  BY DEF OwnedInv, Base, CallsFit, IsUsed, IsSetup, Busy, TypeOK
<1>2. OwnersStay /\ reservations' = reservations \ {}
  BY <1>1, IntentsAreOwners
<1>3. CASE ~OwnsConnection(i)
  <2>1. Settle(i) /\ UNCHANGED snapshotVars /\ UNCHANGED engineVars /\ i # connectionIntent /\ i # subscriptionIntent
    BY <1>1, <1>3, OwnerIsIntent DEF FailConnect
  <2>2. Shrinks /\ conn' = conn /\ sub' = sub
    BY <1>1, <2>1, EngineStays
  <2>. QED
    BY <1>1, <2>1, <2>2, AsideEnds
<1>4. CASE OwnsConnection(i)
  <2>1. i = connectionIntent
    BY <1>1, <1>4, OwnerIsIntent
  <2>2. ~Closing /\ connection # "connected" /\ i # None /\ (~Closing)' /\ connectionIntent' = i
    BY <1>1, <2>1, <1>2, NewestIsBusy DEF OwnersStay, Closing
  <2>3. ChangeConnection("failed") /\ DisconnectEngine /\ GotoAndWait(i, "recovering", Owned)
    BY <1>4 DEF FailConnect
  <2>4. /\ Shrinks
        /\ \A j \in CallIds : {conn'[j], sub'[j]} \cap {"opening", "open"} = {}
        /\ \A j \in CallIds : conn'[j] \in InUse \/ sub'[j] \in InUse => j \in Owned
    BY <1>1, <2>3, DisconnectShrinks
  <2>5. /\ Moves(i) /\ KeepsWork(i) /\ KeepsCleanup(i)
        /\ calls'[i].phase = "recovering" /\ calls'[i].waits = Owned
    BY <1>1, <2>3, WaitMoves, WaitsAreCalls DEF Phases
  <2>6. IntentsStay
    BY <1>2 DEF IntentsStay, OwnersStay
  <2>7. Continues(i) /\ CallFits(i)'
    BY <1>1, <2>5, <2>6 DEF Continues, CallFits, KeepsWork, KeepsCleanup, Moves, IsUsed
  <2>8. /\ SnapshotTyped' /\ subscribed' = subscribed /\ subscription' = subscription
        /\ connection' = "failed"
    BY <1>1, <2>3, ConnectionIsShown DEF ConnectionStates
  <2>9. Covers(calls[i].waits, calls[i].prior \cup {i})'
    BY <1>1, <2>4, <2>5, WaitsAreCalls DEF Covers, KeepsWork
  <2>10. Owned' \subseteq Owned /\ (calls[i].cleanup = "pending" => Owned \subseteq calls[i].cleans)
    BY <1>1, <2>1, <2>2, <2>4, OwnedShrinks DEF OwnedInv, ConnectionIsKnown
  <2>11. ConnectionIsKnown'
    BY <2>1, <2>2, <2>5, <2>8, <2>10 DEF ConnectionIsKnown, KeepsCleanup
  <2>12. \A j \in Owned : j \in CallIds /\ HasOpened(j)
    BY OwnedHaveOpened, WaitsAreCalls, <1>1
  <2>13. \A j \in Owned : IsRetired(j)'
    BY <2>4, <2>5, <2>12 DEF IsRetired, Moves, Alone, HasOpened
  <2>14. /\ HasOpened(i)' /\ conn'[i] # "open"
         /\ \A j \in calls'[i].waits \cup calls'[i].cleans :
               j \in calls[i].waits \cup calls[i].cleans \/ IsRetired(j)'
         /\ calls'[i].phase \notin {"clearing", "awaiting"}
         /\ ~subscribed => subscription' = "idle"
    BY <2>4, <2>5, <2>8, <2>13 DEF HasOpened, KeepsCleanup, OwnedInv, IdleFits
  <2>. QED
    BY <1>1, <1>2, <2>1, <2>2, <2>4, <2>5, <2>7, <2>8, <2>9, <2>11, <2>14, NewestMoves
<1>. QED
  BY <1>3, <1>4

LEMMA RefusalsKeep ==
    ASSUME OwnedInv, NEW i \in CallIds, ProfileFails(i) \/ EngineRefuses(i)
    PROVE  OwnedInv'
  BY FailConnectKeeps DEF ProfileFails, EngineRefuses

LEMMA ConnectOpenedKeeps ==
    ASSUME OwnedInv, NEW i \in CallIds, ConnectOpened(i)
    PROVE  OwnedInv'
<1>1. CASE FailConnect(i)
  BY <1>1, FailConnectKeeps DEF ConnectOpened
<1>2. CASE /\ OwnsConnection(i) /\ calls[i].cleanup = "none" /\ ChangeConnection("connected")
           /\ Settle(i) /\ UNCHANGED engineVars
  <2>1. /\ Base /\ TypeOK /\ IsSetup(i) /\ IsUsed(i) /\ Busy(i) /\ CallFits(i)
        /\ cleanupFailed' = cleanupFailed /\ cleanupFailed \in BOOLEAN /\ UNCHANGED intentVars
        /\ reservations' = reservations \ {} /\ calls[i].phase = "opened"
        /\ calls[i].kind = "connect"
    BY DEF ConnectOpened, OwnedInv, Base, CallsFit, IsUsed, IsSetup, Busy, TypeOK
  <2>2. OwnersStay /\ IntentsStay /\ i = connectionIntent
    BY <2>1, <1>2, IntentsAreOwners, OwnerIsIntent DEF IntentsStay, OwnersStay
  <2>3. ~Closing /\ connection # "connected" /\ i # None /\ (~Closing)' /\ connectionIntent' = i
    BY <2>1, <2>2, NewestIsBusy DEF OwnersStay, Closing
  <2>4. Shrinks /\ conn' = conn /\ sub' = sub
    BY <1>2, <2>1, EngineStays
  <2>5. /\ Moves(i) /\ KeepsCleanup(i) /\ calls'[i].phase = "settled"
        /\ calls'[i].waits = {} /\ calls'[i].prior = {}
    BY <1>2, <2>1, SettleMoves
  <2>6. Continues(i) /\ CallFits(i)'
    BY <2>1, <2>2, <2>5 DEF Continues, CallFits, KeepsCleanup, Moves, IsUsed
  <2>7. /\ SnapshotTyped' /\ subscribed' = subscribed /\ subscription' = subscription
        /\ connection' = "connected"
    BY <1>2, <2>1, ConnectionIsShown DEF ConnectionStates
  <2>8. Owned \subseteq {i} /\ conn[i] = "open" /\ sub[i] = "none"
    BY <1>2, <2>1, <2>2, <2>3 DEF OwnedInv, ConnectionIsKnown, EngineInv, ResourcesFit
  <2>9. (\A j \in CallIds \ {i} : conn'[j] \notin InUse) /\ OwnedSubscriptions' = {}
    BY <2>4, <2>8 DEF Owned, OwnedSubscriptions, InUse
  <2>10. ConnectionIsKnown'
    BY <1>2, <2>1, <2>2, <2>3, <2>4, <2>5, <2>7, <2>8, <2>9 DEF ConnectionIsKnown, KeepsCleanup, Moves
  <2>11. /\ HasOpened(i)' /\ calls[i].phase # "scheduled"
         /\ \A j \in calls'[i].waits \cup calls'[i].cleans : j \in calls[i].waits \cup calls[i].cleans
         /\ calls'[i].phase \notin {"clearing", "recovering", "awaiting"}
         /\ ~subscribed => subscription' = "idle"
    BY <2>1, <2>5, <2>7 DEF HasOpened, KeepsCleanup, OwnedInv, IdleFits
  <2>. QED
    BY <2>1, <2>2, <2>3, <2>4, <2>5, <2>6, <2>7, <2>10, <2>11, NewestMoves
<1>. QED
  BY <1>1, <1>2 DEF ConnectOpened

LEMMA ConnectRecoversKeeps ==
    ASSUME OwnedInv, NEW i \in CallIds, NEW failed \in BOOLEAN, ConnectRecovers(i, failed)
    PROVE  OwnedInv'
<1>1. /\ Base /\ TypeOK /\ IsSetup(i) /\ IsUsed(i) /\ Busy(i) /\ calls[i].phase = "recovering"
      /\ calls[i].kind = "connect" /\ CallFits(i) /\ WaitsAreRetired
      /\ calls[i].waits \in SUBSET CallIds /\ calls[i].prior \cup {i} \in SUBSET CallIds
      /\ UNCHANGED intentVars /\ EngineSettles(calls[i].waits, failed) /\ Settle(i)
  BY WaitsAreCalls
  DEF ConnectRecovers, OwnedInv, Base, CallsFit, CallFits, EngineInv, IsUsed, IsSetup, Busy
<1>2. /\ Shrinks /\ OwnersStay /\ IntentsStay
      /\ \A j \in CallIds : conn[j] \in {"opening", "open"} => conn'[j] = conn[j]
      /\ \A j \in CallIds : sub[j] \in {"opening", "open"} => sub'[j] = sub[j]
  BY <1>1, SettlesShrinks, IntentsAreOwners DEF IntentsStay, OwnersStay
<1>3. /\ connectionIntent \in CallIds \cup {None} /\ subscriptionIntent \in CallIds \cup {None}
      /\ cleanupFailed' \in BOOLEAN /\ (cleanupFailed => cleanupFailed') /\ (failed => cleanupFailed')
  BY <1>1 DEF TypeOK, ConnectRecovers
<1> DEFINE lost == IF failed THEN {} ELSE calls[i].prior \cup {i}
<1>4. lost \in SUBSET CallIds /\ reservations' = reservations \ lost
  BY <1>1 DEF ConnectRecovers
<1>5. ~failed => \A j \in calls[i].waits : conn'[j] \notin InUse /\ sub'[j] \notin InUse
  <2>1. ASSUME ~failed PROVE EngineSettles(calls[i].waits, FALSE)
    BY <1>1, <2>1
  <2>. QED
    BY <1>1, <2>1, CleanedIsClosed
<1>6. \A j \in lost : conn'[j] \notin InUse /\ (j # connectionIntent \/ j = i)
  <2>1. Covers(calls[i].waits, calls[i].prior \cup {i})
    BY <1>1 DEF OwnedInv, ReleasesAreCovered
  <2>2. \A j \in lost : j \in CallIds /\ conn'[j] \notin InUse
    BY <1>1, <1>2, <1>4, <1>5, <2>1, NothingAppears DEF Covers
  <2>3. ~Closing => i <= connectionIntent
    BY <1>1 DEF Base, IntentsAreNewest
  <2>4. Closing => connectionIntent = None
    BY <1>1 DEF Base, IntentsAreNewest
  <2>. QED
    BY <1>1, <2>2, <2>3, <2>4, CallIdsAreNumbers DEF CallFits, CallIds
<1>. HIDE DEF lost
<1>7. /\ Moves(i) /\ KeepsCleanup(i) /\ calls'[i].phase = "settled"
      /\ calls'[i].waits = {} /\ calls'[i].prior = {}
  BY <1>1, SettleMoves
<1>8. CASE i # connectionIntent
  <2>1. UNCHANGED snapshotVars /\ i # subscriptionIntent
    BY <1>1, <1>8, OwnerIsIntent DEF ConnectRecovers
  <2>2. SnapshotTyped' /\ UNCHANGED <<connection, subscription, subscribed>>
    BY <1>1, <2>1, ShownStays
  <2>3. \A j \in lost : conn'[j] \notin InUse /\ j # connectionIntent
    BY <1>6, <1>8
  <2>. QED
    BY <1>1, <1>2, <1>3, <1>4, <1>8, <2>1, <2>2, <2>3, AsideSettles
<1>9. CASE i = connectionIntent
  <2>2. ~Closing /\ connection # "connected" /\ i # None /\ (~Closing)' /\ connectionIntent' = i
    BY <1>1, <1>9, <1>2, NewestIsBusy DEF OwnersStay, Closing
  <2>3. /\ SnapshotTyped' /\ subscribed' = subscribed /\ subscription' = subscription
        /\ connection' \in {connection, "failed"}
    BY <1>1, ConnectionIsShown, ShownStays DEF ConnectRecovers, ConnectionStates
  <2>4. /\ Owned' \subseteq Owned /\ Owned \subseteq calls[i].waits
        /\ connection = "disconnected" => Owned = {}
        /\ calls[i].cleanup = "pending" => Owned \subseteq calls[i].cleans
    BY <1>1, <1>2, <1>9, <2>2, OwnedShrinks DEF OwnedInv, ConnectionIsKnown
  <2>5. ~failed => Owned' = {}
    BY <1>5, <2>4 DEF Owned
  <2>6. ConnectionIsKnown'
    BY <1>3, <1>7, <1>9, <2>2, <2>3, <2>4, <2>5 DEF ConnectionIsKnown, KeepsCleanup
  <2>7. Continues(i) /\ CallFits(i)'
    BY <1>1, <1>2, <1>7 DEF Continues, CallFits, KeepsCleanup, Moves, IsUsed
  <2>8. /\ HasOpened(i)' /\ calls[i].phase # "scheduled"
        /\ \A j \in calls'[i].waits \cup calls'[i].cleans : j \in calls[i].waits \cup calls[i].cleans
        /\ calls'[i].phase \notin {"clearing", "recovering", "awaiting"}
        /\ ~subscribed => subscription' = "idle"
    BY <1>1, <1>7, <2>3 DEF HasOpened, KeepsCleanup, OwnedInv, IdleFits
  <2>9. (\A j \in lost : conn'[j] \notin InUse) /\ (\A j \in lost : j # connectionIntent \/ HasOpened(j)')
    BY <1>6, <2>8
  <2>. QED
    BY <1>2, <1>3, <1>4, <1>7, <1>9, <2>2, <2>3, <2>6, <2>7, <2>8, <2>9, NewestMoves
<1>. QED
  BY <1>8, <1>9

LEMMA LossCleanedKeeps ==
    ASSUME OwnedInv, NEW i \in CallIds, NEW failed \in BOOLEAN, LossCleaned(i, failed)
    PROVE  OwnedInv'
<1>1. /\ Base /\ TypeOK /\ IsSetup(i) /\ IsUsed(i)
      /\ calls[i].kind = "connect" /\ calls[i].cleanup = "pending" /\ CallFits(i) /\ WaitsAreRetired
      /\ calls[i].phase \in {"opened", "recovering", "settled"}
      /\ calls[i].cleans \in SUBSET CallIds /\ calls[i].kept \in SUBSET CallIds
      /\ UNCHANGED intentVars /\ EngineSettles(calls[i].cleans, failed)
  BY WaitsAreCalls
  DEF LossCleaned, OwnedInv, Base, CallsFit, CallFits, EngineInv, IsUsed, IsSetup
<1>2. /\ Shrinks /\ OwnersStay /\ IntentsStay /\ shutdown # "ok"
      /\ \A j \in CallIds : conn[j] \in {"opening", "open"} => conn'[j] = conn[j]
      /\ \A j \in CallIds : sub[j] \in {"opening", "open"} => sub'[j] = sub[j]
  BY <1>1, SettlesShrinks, IntentsAreOwners, NotAfterShutdown DEF IntentsStay, OwnersStay
<1>3. /\ connectionIntent \in CallIds \cup {None} /\ subscriptionIntent \in CallIds \cup {None}
      /\ cleanupFailed' \in BOOLEAN /\ (cleanupFailed => cleanupFailed') /\ (failed => cleanupFailed')
  BY <1>1 DEF TypeOK, LossCleaned
<1> DEFINE lost == IF failed THEN {} ELSE calls[i].kept
<1>4. lost \in SUBSET CallIds /\ reservations' = reservations \ lost
  BY <1>1 DEF LossCleaned
<1>5. ~failed => \A j \in calls[i].cleans : conn'[j] \notin InUse /\ sub'[j] \notin InUse
  <2>1. ASSUME ~failed PROVE EngineSettles(calls[i].cleans, FALSE)
    BY <1>1, <2>1
  <2>. QED
    BY <1>1, <2>1, CleanedIsClosed
<1>6. \A j \in lost : conn'[j] \notin InUse /\ (j # connectionIntent \/ j = i)
  <2>1. Covers(calls[i].cleans, calls[i].kept)
    BY <1>1 DEF OwnedInv, ReleasesAreCovered
  <2>2. \A j \in lost : j \in CallIds /\ conn'[j] \notin InUse
    BY <1>1, <1>2, <1>4, <1>5, <2>1, NothingAppears DEF Covers
  <2>3. ~Closing => i <= connectionIntent
    BY <1>1 DEF Base, IntentsAreNewest
  <2>4. Closing => connectionIntent = None
    BY <1>1 DEF Base, IntentsAreNewest
  <2>. QED
    BY <1>1, <2>2, <2>3, <2>4, CallIdsAreNumbers DEF CallFits, CallIds
<1>. HIDE DEF lost
<1>7. /\ Moves(i) /\ KeepsWork(i)
      /\ calls'[i].phase = calls[i].phase /\ calls'[i].waits = calls[i].waits
      /\ calls'[i].cleanup = "done" /\ calls'[i].cleans = {} /\ calls'[i].kept = {}
  <2>1. calls' = [calls EXCEPT ![i] = [@ EXCEPT !.cleanup = "done", !.cleans = {}, !.kept = {}]]
    BY DEF LossCleaned
  <2>2. PICK ids \in SUBSET CallIds, status \in {"none", "pending", "done"} : ids = {} /\ status = "done"
    OBVIOUS
  <2>3. calls' = [calls EXCEPT ![i] = [@ EXCEPT !.cleanup = status, !.cleans = ids, !.kept = ids]]
    BY <2>1, <2>2
  <2>4. TypeOK
    BY <1>1
  <2>. QED
    BY <2>2, <2>3, <2>4, CleanupMoves, ZenonT(90)
<1>8. Continues(i) /\ CallFits(i)'
  BY <1>1, <1>2, <1>7 DEF Continues, CallFits, KeepsWork, Moves, IsUsed
<1>9. /\ HasOpened(i) /\ HasOpened(i)' /\ calls[i].phase # "scheduled"
      /\ conn'[i] = "open" \/ sub'[i] = "open" => calls'[i].phase \in {"opened", "settled"}
      /\ calls'[i].phase \notin {"clearing", "awaiting"} /\ calls'[i].cleanup # "pending"
      /\ calls[i].kind # "stop"
  BY <1>1, <1>2, <1>7, NothingAppears DEF HasOpened, OwnedInv, EngineInv, ResourcesFit
<1>10. \A j \in calls'[i].waits \cup calls'[i].cleans :
          j \in calls[i].waits \cup calls[i].cleans \/ IsRetired(j)'
  BY <1>7
<1>11. calls'[i].phase = "recovering" => Covers(calls[i].waits, calls[i].prior \cup {i})'
  <2>1. calls[i].phase = "recovering" => Covers(calls[i].waits, calls[i].prior \cup {i})
    BY DEF OwnedInv, ReleasesAreCovered
  <2>. QED
    BY <1>1, <1>2, <1>7, <2>1, NothingAppears, WaitsAreCalls DEF Covers, KeepsWork
<1>12. (\A j \in lost : conn'[j] \notin InUse) /\ (\A j \in lost : j # connectionIntent \/ HasOpened(j)')
  BY <1>6, <1>9
<1>13. CASE i # connectionIntent
  <2>1. UNCHANGED snapshotVars /\ i # subscriptionIntent
    BY <1>1, <1>13, OwnerIsIntent DEF LossCleaned
  <2>2. SnapshotTyped' /\ UNCHANGED <<connection, subscription, subscribed>>
    BY <1>1, <2>1, ShownStays
  <2>. QED
    BY <1>2, <1>3, <1>4, <1>8, <1>9, <1>10, <1>11, <1>12, <1>13, <2>1, <2>2, Aside
<1>14. CASE i = connectionIntent
  <2>2. ~Closing /\ connection # "connected" /\ i # None /\ (~Closing)' /\ connectionIntent' = i
    BY <1>1, <1>14, <1>2, NewestIsBusy DEF OwnersStay, Closing
  <2>3. /\ SnapshotTyped' /\ subscribed' = subscribed /\ subscription' = subscription
        /\ connection' \in {connection, "failed"}
    BY <1>1, ConnectionIsShown, ShownStays DEF LossCleaned, ConnectionStates
  <2>4. /\ Owned' \subseteq Owned /\ Owned \subseteq calls[i].cleans
        /\ connection = "disconnected" => Owned = {}
        /\ calls[i].phase = "recovering" => Owned \subseteq calls[i].waits
        /\ calls[i].phase = "opened" => Owned \subseteq {i}
    BY <1>1, <1>2, <1>14, <2>2, OwnedShrinks DEF OwnedInv, ConnectionIsKnown
  <2>5. ~failed => Owned' = {}
    BY <1>5, <2>4 DEF Owned
  <2>6. ConnectionIsKnown'
    BY <1>1, <1>3, <1>7, <1>14, <2>2, <2>3, <2>4, <2>5 DEF ConnectionIsKnown
  <2>7. ~subscribed => subscription' = "idle"
    BY <2>3 DEF OwnedInv, IdleFits
  <2>. QED
    BY <1>2, <1>3, <1>4, <1>8, <1>9, <1>10, <1>11, <1>12, <1>14, <2>2, <2>3, <2>6, <2>7, NewestMoves
<1>. QED
  BY <1>13, <1>14

\* Between microtasks only the current connection is open, and it may be lost.
LEMMA EngineLosesKeeps ==
    ASSUME OwnedInv, NEW i \in CallIds, MicrotasksRun, EngineLoses(i)
    PROVE  OwnedInv'
<1>1. /\ Base /\ TypeOK /\ EngineInv /\ CallFits(i) /\ SnapshotTyped /\ conn[i] = "open"
      /\ calls[i].kind = "connect" /\ calls[i].phase \in {"opened", "settled"}
      /\ IsSetup(i) /\ IsUsed(i) /\ Scheduled = {} /\ reservations' = reservations
      /\ cleanupFailed' = cleanupFailed /\ shutdown # "scheduled" /\ i # None
  BY SnapshotIsTyped, CallIdsAreNumbers
  DEF EngineLoses, MicrotasksRun, OwnedInv, Base, CallsFit, EngineInv, ResourcesFit, IsSetup, IsUsed
<1>2. i = connectionIntent /\ ~Closing /\ OwnsConnection(i)
  <2>1. i = connectionIntent
    BY <1>1 DEF EngineInv, OpenIsCurrent
  <2>. QED
    BY <1>1, <2>1, OwnerIsIntent
<1>3. /\ subscriptionIntent' = None /\ stopPromise' = None /\ connection' = "failed"
      /\ subscription' = IF IsRevocable THEN "failed" ELSE subscription
      /\ revisions' = [c |-> revisions.c + 1,
                       s |-> IF IsRevocable THEN revisions.s + 2 ELSE revisions.s]
      /\ Show(revisions.c + 1, IF IsRevocable THEN revisions.s + 2 ELSE shown.s)
      /\ DisconnectEngine
      /\ calls' = [calls EXCEPT ![i] = [@ EXCEPT !.cleanup = "pending", !.cleans = Owned,
                                                 !.kept = reservations]]
      /\ connectionIntent' = connectionIntent /\ disconnectPromise' = disconnectPromise
      /\ shutdown' = shutdown /\ subscribed' = subscribed
  BY <1>2 DEF EngineLoses
<1>4. /\ Shrinks
      /\ \A j \in CallIds : {conn'[j], sub'[j]} \cap {"opening", "open"} = {}
      /\ \A j \in CallIds : conn'[j] \in InUse \/ sub'[j] \in InUse => j \in Owned
  BY <1>1, <1>3, DisconnectShrinks
<1>5. /\ Moves(i) /\ KeepsWork(i)
      /\ calls'[i].phase = calls[i].phase /\ calls'[i].waits = calls[i].waits
      /\ calls'[i].cleanup = "pending" /\ calls'[i].cleans = Owned /\ calls'[i].kept = reservations
  BY <1>1, <1>3, CleanupMoves, WaitsAreCalls DEF TypeOK
<1>6. SnapshotTyped'
  <2>1. /\ revisions.c + 1 \in Nat /\ (IF IsRevocable THEN revisions.s + 2 ELSE shown.s) \in Nat
        /\ (IF IsRevocable THEN revisions.s + 2 ELSE revisions.s) \in Nat
    BY <1>1 DEF SnapshotTyped, Revisions
  <2>2. revisions' \in Revisions
    BY <1>3, <2>1 DEF Revisions
  <2>3. connection' \in ConnectionStates /\ subscription' \in SubscriptionStates /\ subscribed' \in BOOLEAN
    BY <1>1, <1>3 DEF SnapshotTyped, ConnectionStates, SubscriptionStates
  <2>. QED
    BY <1>1, <1>3, <2>1, <2>2, <2>3, ShowTyped
<1>7. IntentsStay
  BY <1>1, <1>3 DEF IntentsStay
<1>8. reservations \subseteq 1 .. i
  <2>1. \A j \in reservations : j \in CallIds /\ IsSetup(j)
    BY <1>1 DEF OwnedInv, ReleasesAreCovered, TypeOK, IsSetup
  <2>2. \A j \in reservations : j <= i
    BY <1>1, <1>2, <2>1 DEF Base, IntentsAreNewest
  <2>. QED
    BY <2>1, <2>2 DEF CallIds
<1>9. Continues(i) /\ CallFits(i)'
  BY <1>1, <1>5, <1>7, <1>8 DEF Continues, CallFits, KeepsWork, Moves, IsUsed
<1>10. Base'
  <2>1. /\ connectionIntent' \in CallIds \cup {None} /\ subscriptionIntent' \in CallIds \cup {None}
        /\ disconnectPromise' \in CallIds \cup {None} /\ stopPromise' \in CallIds \cup {None}
        /\ shutdown' \in {"none", "scheduled", "running", "ok", "failed"}
        /\ reservations' \subseteq CallIds /\ cleanupFailed' \in BOOLEAN
    BY <1>1, <1>3 DEF TypeOK
  <2>. QED
    BY <1>1, <1>4, <1>6, <1>9, <2>1, TypesMove, OrderContinues DEF Base, Continues, Moves, Shrinks
<1>11. EngineInv'
  <2>1. \A j \in Owned : j \in CallIds /\ HasOpened(j)
    BY <1>1, OwnedHaveOpened, WaitsAreCalls
  <2>2. HasOpened(i)' /\ \A j \in Owned : IsRetired(j)'
    BY <1>1, <1>4, <1>5, <2>1 DEF IsRetired, Moves, Alone, HasOpened
  <2>3. \A j \in calls'[i].waits \cup calls'[i].cleans :
           j \in calls[i].waits \cup calls[i].cleans \/ IsRetired(j)'
    BY <1>5, <2>2
  <2>4. \A j \in CallIds : conn'[j] # "open" /\ sub'[j] \notin {"opening", "open"}
    BY <1>4
  <2>. QED
    BY <1>1, <1>4, <1>9, <2>2, <2>3, <2>4, EngineContinues
<1>12. ReleasesAreCovered'
  <2>1. Covers(calls[i].cleans, calls[i].kept)'
    BY <1>1, <1>4, <1>5 DEF Covers, TypeOK
  <2>2. /\ HasOpened(i)' /\ reservations' = reservations \ {} /\ {} \in SUBSET CallIds
        /\ calls'[i].phase \notin {"clearing", "recovering", "awaiting"}
    BY <1>1, <1>5 DEF HasOpened
  <2>. QED
    BY <1>1, <1>4, <1>9, <2>1, <2>2, ReleasesContinue DEF OwnedInv
<1>13. ConnectionIsKnown'
  <2>1. Owned' \subseteq Owned /\ (calls[i].phase = "opened" => Owned \subseteq {i})
    BY <1>1, <1>2, <1>4, OwnedShrinks DEF OwnedInv, ConnectionIsKnown
  <2>. QED
    BY <1>1, <1>2, <1>3, <1>5, <2>1 DEF ConnectionIsKnown
<1>14. subscription' # "streaming" /\ (~subscribed => subscription' = "idle")
  BY <1>3 DEF OwnedInv, IdleFits, IsRevocable
<1>15. SubscriptionIsKnown' /\ StreamingFits'
  BY <1>3, <1>14 DEF SubscriptionIsKnown, StreamingFits
<1>16. IdleFits'
  BY <1>1, <1>3, <1>9, <1>14, IdleContinues DEF OwnedInv
<1>17. ShutdownIsComplete'
  BY <1>2, <1>3 DEF ShutdownIsComplete, Closing
<1>. QED
  BY <1>10, <1>11, <1>12, <1>13, <1>15, <1>16, <1>17 DEF OwnedInv

\* The newest connect opens: nothing waits for it, and nothing else is owned.
LEMMA ConnectOpens ==
    ASSUME OwnedInv, NEW i \in CallIds, i = connectionIntent, calls[i].kind = "connect",
           NEW p \in {"opening", "opened"}, NEW r \in {"opening", "open"}, Goto(i, p),
           conn' = [conn EXCEPT ![i] = r], sub' = sub,
           \/ calls[i].phase = "resolving" /\ p = "opening" /\ r = "opening" /\ connection' = "connecting"
           \/ /\ calls[i].phase = "opening" /\ conn[i] = "opening" /\ p = "opened" /\ r = "open"
              /\ connection' = connection,
           UNCHANGED intentVars, UNCHANGED <<reservations, cleanupFailed>>,
           SnapshotTyped', subscribed' = subscribed, subscription' = subscription
    PROVE  OwnedInv'
<1>1. /\ Base /\ TypeOK /\ IsSetup(i) /\ IsUsed(i) /\ CallFits(i) /\ EngineInv
      /\ cleanupFailed' = cleanupFailed /\ reservations' = reservations /\ calls[i].phase # "scheduled"
      /\ calls[i].cleanup = "none" /\ connectionIntent \in CallIds \cup {None}
      /\ subscriptionIntent \in CallIds \cup {None}
  BY DEF OwnedInv, Base, CallsFit, CallFits, IsUsed, IsSetup, TypeOK
<1>2. ~Closing /\ connection # "connected" /\ i # None
  BY <1>1, NewestIsBusy
<1>3. /\ OwnersStay /\ IntentsStay /\ (~Closing)' /\ connectionIntent' = i
      /\ subscriptionIntent' = subscriptionIntent /\ shutdown' = shutdown
  BY <1>1, <1>2, IntentsAreOwners DEF IntentsStay, OwnersStay, Closing
<1>4. /\ Moves(i) /\ KeepsWork(i) /\ KeepsCleanup(i)
      /\ calls'[i].phase = p /\ calls'[i].waits = calls[i].waits
  BY <1>1, GotoMoves DEF Phases
<1>5. /\ conn'[i] = r /\ \A j \in CallIds \ {i} : conn'[j] = conn[j]
      /\ EngineTyped /\ sub[i] = "none"
  BY <1>1 DEF TypeOK, EngineTyped, Resources, EngineInv, ResourcesFit
<1>6. Continues(i) /\ CallFits(i)'
  BY <1>1, <1>3, <1>4 DEF Continues, CallFits, KeepsWork, KeepsCleanup, Moves, IsUsed
<1>7. \A j \in CallIds : /\ calls'[j].kind = calls[j].kind
                         /\ HasOpened(j) => HasOpened(j)'
                         /\ j # i => calls'[j] = calls[j]
  BY <1>4 DEF Moves, Alone, HasOpened
<1>8. Base'
  <2>1. /\ connectionIntent' \in CallIds \cup {None} /\ subscriptionIntent' \in CallIds \cup {None}
        /\ disconnectPromise' \in CallIds \cup {None} /\ stopPromise' \in CallIds \cup {None}
        /\ shutdown' \in {"none", "scheduled", "running", "ok", "failed"}
        /\ reservations' \subseteq CallIds /\ cleanupFailed' \in BOOLEAN
    BY <1>1 DEF TypeOK, intentVars
  <2>. QED
    BY <1>1, <1>5, <1>6, <2>1, TypesMove, OrderContinues DEF Base, Moves, Continues
<1>9. \A j \in CallIds : i \notin calls[j].waits \cup calls[j].cleans
  BY <1>1 DEF EngineInv, WaitsAreRetired, IsRetired, HasOpened
<1>10. EngineInv'
  <2>1. ResourcesFit'
    <3> SUFFICES ASSUME NEW j \in CallIds
                 PROVE  /\ conn'[j] # "none" => calls'[j].kind = "connect" /\ HasOpened(j)'
                        /\ sub'[j] # "none" => calls'[j].kind = "start" /\ HasOpened(j)'
                        /\ conn'[j] = "open" => calls'[j].phase \in {"opened", "settled"}
                        /\ sub'[j] = "open" => calls'[j].phase \in {"opened", "settled"}
                        /\ conn'[j] = "opening" => j = connectionIntent'
                        /\ sub'[j] = "opening" => j = subscriptionIntent'
      BY DEF ResourcesFit
    <3>1. HasOpened(i)'
      BY <1>4 DEF HasOpened
    <3>. QED
      BY <1>1, <1>3, <1>4, <1>5, <1>7, <3>1 DEF EngineInv, ResourcesFit
  <2>2. OpenIsCurrent'
    <3>1. Scheduled' = Scheduled
      BY <1>1, <1>4, <1>7 DEF Scheduled
    <3>. QED
      BY <1>1, <1>3, <1>5, <3>1 DEF EngineInv, OpenIsCurrent
  <2>3. WaitsAreRetired'
    <3> SUFFICES ASSUME NEW k \in CallIds, NEW j \in calls'[k].waits \cup calls'[k].cleans
                 PROVE  IsRetired(j)'
      BY DEF WaitsAreRetired
    <3>1. j \in calls[k].waits \cup calls[k].cleans
      BY <1>4, <1>7 DEF KeepsCleanup
    <3>2. j \in CallIds /\ j # i /\ IsRetired(j)
      BY <1>1, <1>9, <3>1, WaitsAreCalls DEF EngineInv, WaitsAreRetired
    <3>. QED
      BY <1>5, <1>7, <3>2 DEF IsRetired
  <2>. QED
    BY <2>1, <2>2, <2>3 DEF EngineInv
<1>11. ReleasesAreCovered'
  <2>1. \A j \in CallIds : i \notin calls[j].prior /\ (j # i => i \notin calls[j].kept)
    <3>1. \A j \in CallIds : IsSetup(j) => j <= i
      BY <1>1, <1>2 DEF Base, IntentsAreNewest
    <3>2. \A j \in CallIds : CallFits(j)
      BY <1>1 DEF Base, CallsFit
    <3>. QED
      BY <3>1, <3>2, CallIdsAreNumbers DEF CallFits, IsSetup, CallIds
  <2>2. ASSUME NEW j \in CallIds
        PROVE  /\ calls'[j].phase = "clearing" => Covers(calls[j].waits, calls[j].prior)'
               /\ calls'[j].phase = "recovering" => Covers(calls[j].waits, calls[j].prior \cup {j})'
               /\ calls'[j].phase = "awaiting" => Covers({}, calls[j].prior)'
               /\ calls'[j].cleanup = "pending" => Covers(calls[j].cleans, calls[j].kept)'
    <3>1. CASE j = i
      BY <1>1, <1>4, <3>1 DEF KeepsCleanup
    <3>2. CASE j # i
      <4>1. /\ calls[j].phase = "clearing" => Covers(calls[j].waits, calls[j].prior)
            /\ calls[j].phase = "recovering" => Covers(calls[j].waits, calls[j].prior \cup {j})
            /\ calls[j].phase = "awaiting" => Covers({}, calls[j].prior)
            /\ calls[j].cleanup = "pending" => Covers(calls[j].cleans, calls[j].kept)
        BY DEF OwnedInv, ReleasesAreCovered
      <4>2. /\ calls[j].prior \subseteq CallIds /\ calls[j].kept \subseteq CallIds
            /\ i \notin calls[j].prior \cup {j} /\ i \notin calls[j].kept
        BY <1>1, <2>1, <3>2, WaitsAreCalls
      <4>3. \A h \in calls[j].prior \cup {j} : conn'[h] = conn[h]
        BY <1>5, <4>2
      <4>4. \A h \in calls[j].kept : conn'[h] = conn[h]
        BY <1>5, <4>2
      <4>5. calls'[j] = calls[j]
        BY <1>7, <3>2
      <4>. QED
        BY <4>1, <4>3, <4>4, <4>5 DEF Covers
    <3>. QED
      BY <3>1, <3>2
  <2>3. i \in reservations
    BY <1>1 DEF OwnedInv, ReleasesAreCovered, ProfileStaysReserved, Live, HasOpened
  <2>4. ProfileStaysReserved'
    BY <1>1, <1>5, <2>3 DEF OwnedInv, ReleasesAreCovered, ProfileStaysReserved
  <2>5. \A j \in reservations' : calls'[j].kind = "connect"
    BY <1>1, <1>7 DEF OwnedInv, ReleasesAreCovered, TypeOK
  <2>6. \A j \in CallIds :
          connectionIntent' = j /\ calls'[j].kind = "connect" /\ ~HasOpened(j)' => j \in reservations'
    BY <1>1, <1>3, <2>3
  <2>. QED
    BY <2>2, <2>4, <2>5, <2>6 DEF ReleasesAreCovered
<1>12. ConnectionIsKnown'
  <2>1. Owned \subseteq {i} /\ connection' # "connected"
    BY <1>1, <1>2 DEF OwnedInv, ConnectionIsKnown
  <2>2. Owned' \subseteq {i}
    BY <1>5, <2>1 DEF Owned
  <2>3. connection' # "disconnected"
    BY <1>1, <1>2 DEF OwnedInv, ConnectionIsKnown, Owned, InUse
  <2>. QED
    BY <1>1, <1>2, <1>3, <1>4, <1>5, <2>1, <2>2, <2>3 DEF ConnectionIsKnown, KeepsCleanup
<1>13. SubscriptionIsKnown' /\ StreamingFits'
  <2>1. subscriptionIntent # None => calls[subscriptionIntent].kind # "start"
    BY <1>2 DEF OwnedInv, SubscriptionIsKnown
  <2>2. \A j \in CallIds : Fades(sub[j], sub'[j])
    BY DEF Fades
  <2>. QED
    BY <1>1, <1>3, <1>6, <2>1, <2>2, SubscriptionStaysKnown DEF OwnedInv
<1>14. IdleFits'
  BY <1>1, <1>6, IdleContinues DEF OwnedInv, IdleFits
<1>15. ShutdownIsComplete'
  BY <1>2, <1>3 DEF ShutdownIsComplete, Closing
<1>. QED
  BY <1>8, <1>10, <1>11, <1>12, <1>13, <1>14, <1>15 DEF OwnedInv

LEMMA ProfileResolvesKeeps ==
    ASSUME OwnedInv, NEW i \in CallIds, ProfileResolves(i)
    PROVE  OwnedInv'
<1>1. /\ Base /\ TypeOK /\ IsSetup(i) /\ IsUsed(i) /\ Busy(i) /\ calls[i].phase = "resolving"
      /\ calls[i].kind = "connect" /\ UNCHANGED intentVars /\ UNCHANGED <<reservations, cleanupFailed>>
      /\ sub' = sub
  BY DEF ProfileResolves, OwnedInv, Base, IsUsed, IsSetup, Busy
<1>2. CASE ~OwnsConnection(i)
  <2>1. Settle(i) /\ UNCHANGED snapshotVars /\ UNCHANGED engineVars /\ i # connectionIntent /\ i # subscriptionIntent
    BY <1>1, <1>2, OwnerIsIntent DEF ProfileResolves, engineVars
  <2>2. Shrinks /\ conn' = conn /\ sub' = sub
    BY <1>1, <2>1, EngineStays
  <2>. QED
    BY <1>1, <2>1, <2>2, AsideEnds
<1>3. CASE OwnsConnection(i)
  <2>1. i = connectionIntent
    BY <1>1, <1>3, OwnerIsIntent
  <2>2. ChangeConnection("connecting") /\ Goto(i, "opening") /\ conn' = [conn EXCEPT ![i] = "opening"]
    BY <1>3 DEF ProfileResolves
  <2>3. /\ SnapshotTyped' /\ subscribed' = subscribed /\ subscription' = subscription
        /\ connection' = "connecting"
    BY <1>1, <2>2, ConnectionIsShown DEF ConnectionStates
  <2>4. PICK p \in {"opening", "opened"}, r \in {"opening", "open"} : p = "opening" /\ r = "opening"
    OBVIOUS
  <2>5. Goto(i, p) /\ conn' = [conn EXCEPT ![i] = r]
    BY <2>2, <2>4
  <2>. QED
    BY <1>1, <2>1, <2>3, <2>4, <2>5, ConnectOpens
<1>. QED
  BY <1>2, <1>3

LEMMA EngineConnectsKeeps ==
    ASSUME OwnedInv, NEW i \in CallIds, EngineConnects(i)
    PROVE  OwnedInv'
<1>1. /\ TypeOK /\ calls[i].kind = "connect" /\ calls[i].phase = "opening" /\ conn[i] = "opening"
      /\ conn' = [conn EXCEPT ![i] = "open"] /\ Goto(i, "opened") /\ UNCHANGED intentVars
      /\ UNCHANGED snapshotVars /\ UNCHANGED <<reservations, cleanupFailed>> /\ sub' = sub
  BY DEF EngineConnects, OwnedInv, Base
<1>2. i = connectionIntent
  BY <1>1 DEF OwnedInv, EngineInv, ResourcesFit
<1>3. /\ SnapshotTyped' /\ subscribed' = subscribed /\ subscription' = subscription
      /\ connection' = connection
  BY <1>1, ShownStays
<1>4. PICK p \in {"opening", "opened"}, r \in {"opening", "open"} : p = "opened" /\ r = "open"
  OBVIOUS
<1>5. Goto(i, p) /\ conn' = [conn EXCEPT ![i] = r]
  BY <1>1, <1>4
<1>. QED
  BY <1>1, <1>2, <1>3, <1>4, <1>5, ConnectOpens

---------------------------------------------------------------------------
\* start and stop after their first await.

\* The newest start or stop moves on: the connection stays what it is.
LEMMA SubscriptionMoves ==
    ASSUME OwnedInv, NEW i \in CallIds, i = subscriptionIntent, calls[i].kind \in {"start", "stop"},
           calls[i].phase # "scheduled", Continues(i), CallFits(i)', Shrinks,
           UNCHANGED intentVars, UNCHANGED reservations, SnapshotTyped',
           subscribed' = subscribed, connection' = connection, ~subscribed => subscription' = "idle",
           \A j \in CallIds : conn[j] = "open" => conn'[j] = "open",
           HasOpened(i) => HasOpened(i)',
           sub'[i] = "open" => calls'[i].phase \in {"opened", "settled"},
           \A j \in calls'[i].waits \cup calls'[i].cleans :
               j \in calls[i].waits \cup calls[i].cleans \/ IsRetired(j)',
           calls[i].kind = "stop" => \A j \in calls'[i].waits : j \in CallIds /\ calls[j].kind = "start",
           cleanupFailed' \in BOOLEAN, cleanupFailed => cleanupFailed',
           SubscriptionIsKnown', StreamingFits'
    PROVE  OwnedInv'
<1>1. /\ Base /\ TypeOK /\ OwnersStay /\ connectionIntent \in CallIds \cup {None}
      /\ reservations' = reservations \ {}
  BY IntentsAreOwners DEF OwnedInv, Base, TypeOK
<1>2. i # connectionIntent /\ ~Closing /\ shutdown # "ok"
  BY <1>1, OwnerIsIntent, CallIdsAreNumbers DEF Closing, Base, IntentsAreNewest, IsSetup
<1>3. ConnectionIsKnown'
  BY <1>1, <1>2, ConnectionStaysKnown DEF OwnedInv
<1>4. calls'[i].kind \in {"start", "stop"} /\ conn[i] = "none" /\ conn'[i] = "none"
  BY <1>1, NothingAppears DEF Continues, Moves, OwnedInv, EngineInv, ResourcesFit
<1>5. calls'[i].prior = {} /\ calls'[i].kept = {} /\ calls'[i].phase # "recovering"
  BY <1>4 DEF CallFits
<1>6. /\ calls'[i].phase = "clearing" => Covers(calls[i].waits, calls[i].prior)'
      /\ calls'[i].phase = "recovering" => Covers(calls[i].waits, calls[i].prior \cup {i})'
      /\ calls'[i].phase = "awaiting" => Covers({}, calls[i].prior)'
  BY <1>5 DEF Covers
<1>. QED
  BY <1>1, <1>2, <1>3, <1>4, <1>5, <1>6, StepKeeps

\* A start owns the subscription exactly while it is the newest of its kind.
LEMMA StartOwns ==
    ASSUME OwnedInv, NEW i \in CallIds, calls[i].kind = "start"
    PROVE  OwnsSubscription(i) <=> i = subscriptionIntent
<1>1. Base
  BY DEF OwnedInv
<1>2. ASSUME i = subscriptionIntent PROVE OwnsSubscription(i)
  <2>1. ~Closing /\ i # None
    BY <1>1, <1>2, OwnerIsIntent, CallIdsAreNumbers
  <2>. QED
    BY <1>2, <2>1 DEF OwnedInv, SubscriptionIsKnown, OwnsSubscription
<1>. QED
  BY <1>1, <1>2, OwnerIsIntent

LEMMA SubscriptionCall ==
    ASSUME OwnedInv, NEW i \in CallIds, calls[i].kind \in {"start", "stop"}
    PROVE  /\ Base /\ TypeOK /\ IsUsed(i) /\ CallFits(i) /\ EngineInv /\ i # connectionIntent
           /\ WaitsAreRetired /\ calls[i].waits \in SUBSET CallIds /\ calls[i].cleans \in SUBSET CallIds
           /\ cleanupFailed \in BOOLEAN /\ i # None /\ conn[i] = "none"
           /\ connectionIntent \in CallIds \cup {None} /\ subscriptionIntent \in CallIds \cup {None}
           /\ i = subscriptionIntent => ~Closing
<1>1. Base /\ TypeOK /\ CallFits(i) /\ EngineInv
  BY DEF OwnedInv, Base, CallsFit
<1>. QED
  BY <1>1, WaitsAreCalls, OwnerIsIntent, CallIdsAreNumbers
  DEF EngineInv, ResourcesFit, IsUsed, TypeOK, Base, IntentsAreNewest, IsSetup

\* The engine's stop that a start waits for settles.
LEMMA StopSettles ==
    ASSUME TypeOK, WaitsAreRetired, NEW i \in CallIds, NEW failed \in BOOLEAN, conn' = conn,
           sub' = Closed(sub, calls[i].waits, failed),
           failed <=> \E j \in calls[i].waits : sub'[j] = "leaked"
    PROVE  /\ Shrinks
           /\ \A j \in CallIds : sub[j] \in {"opening", "open"} => sub'[j] = sub[j]
           /\ ~failed => \A j \in calls[i].waits : sub'[j] \notin InUse
<1>1. calls[i].waits \in SUBSET CallIds /\ sub \in [CallIds -> Resources] /\ conn \in [CallIds -> Resources]
  BY WaitsAreCalls DEF TypeOK
<1>2. /\ sub' \in [CallIds -> Resources]
      /\ \A j \in CallIds : /\ Fades(sub[j], sub'[j])
                            /\ sub'[j] = IF j \in calls[i].waits /\ sub[j] = "retiring"
                                         THEN IF failed THEN "leaked" ELSE "closed" ELSE sub[j]
  BY <1>1, ClosedFades
<1>3. \A j \in calls[i].waits : sub[j] \notin {"opening", "open"}
  BY <1>1 DEF WaitsAreRetired, IsRetired
<1>4. Shrinks
  BY <1>1, <1>2 DEF Shrinks, EngineTyped, Fades
<1>. QED
  BY <1>1, <1>2, <1>3, <1>4 DEF InUse

\* A start that fails, with nothing of its own left open.
LEMMA FailStartKeeps ==
    ASSUME OwnedInv, NEW i \in CallIds, calls[i].kind = "start",
           calls[i].phase \in {"clearing", "opening", "opened"},
           NEW dirty \in BOOLEAN, FailStart(i, dirty), Shrinks, conn' = conn,
           \A j \in CallIds : sub[j] \in {"opening", "open"} => sub'[j] = sub[j],
           i = subscriptionIntent => sub'[i] \notin {"opening", "open"},
           i = subscriptionIntent /\ ~dirty => OwnedSubscriptions' \subseteq {i},
           UNCHANGED intentVars, UNCHANGED reservations
    PROVE  OwnedInv'
<1>1. /\ Base /\ TypeOK /\ IsUsed(i) /\ CallFits(i) /\ i # connectionIntent /\ cleanupFailed \in BOOLEAN
      /\ connectionIntent \in CallIds \cup {None} /\ subscriptionIntent \in CallIds \cup {None}
      /\ i = subscriptionIntent => ~Closing
      /\ Busy(i) /\ calls[i].phase # "scheduled" /\ Settle(i) /\ i # None
  BY SubscriptionCall DEF FailStart, Busy
<1>2. OwnsSubscription(i) <=> i = subscriptionIntent
  BY StartOwns
<1>3. CASE i # subscriptionIntent
  <2>1. UNCHANGED snapshotVars /\ UNCHANGED cleanupFailed
    BY <1>2, <1>3 DEF FailStart
  <2>. QED
    BY <1>1, <1>3, <2>1, AsideEnds
<1>4. CASE i = subscriptionIntent
  <2>1. ChangeSubscription("failed") /\ cleanupFailed' = (cleanupFailed \/ dirty)
    BY <1>2, <1>4 DEF FailStart
  <2>2. /\ SnapshotTyped' /\ subscribed' = subscribed /\ connection' = connection
        /\ subscription' = "failed"
    BY <1>1, <2>1, SubscriptionIsShown DEF SubscriptionStates
  <2>3. /\ Moves(i) /\ KeepsCleanup(i) /\ calls'[i].phase = "settled"
        /\ calls'[i].waits = {} /\ calls'[i].prior = {}
    BY <1>1, SettleMoves
  <2>4. Continues(i) /\ CallFits(i)'
    BY <1>1, <2>3 DEF Continues, CallFits, KeepsCleanup, Moves, IsUsed, IntentsStay, intentVars
  <2>5. /\ subscribed /\ connection = "connected" /\ calls[i].on = connectionIntent
        /\ sub[i] = "retiring" => calls[i].cleanup = "pending"
        /\ sub[i] = "leaked" => cleanupFailed \/ calls[i].cleanup = "pending"
        /\ calls[i].cleanup = "pending" => OwnedSubscriptions \subseteq calls[i].cleans
    BY <1>1, <1>4 DEF OwnedInv, SubscriptionIsKnown
  <2>6. /\ sub'[i] = "retiring" => sub[i] = "retiring" \/ sub[i] \in {"opening", "open"}
        /\ sub'[i] = "leaked" => sub[i] \in {"retiring", "leaked"}
        /\ OwnedSubscriptions' \subseteq OwnedSubscriptions
    BY <1>1, OwnedShrinks DEF Shrinks, Fades
  <2>7. /\ sub'[i] = "retiring" => calls'[i].cleanup = "pending"
        /\ sub'[i] = "leaked" => cleanupFailed' \/ calls'[i].cleanup = "pending"
        /\ calls'[i].cleanup = "pending" => OwnedSubscriptions' \subseteq calls'[i].cleans
        /\ OwnedSubscriptions' \subseteq {i} \/ cleanupFailed'
        /\ cleanupFailed' \in BOOLEAN /\ (cleanupFailed => cleanupFailed')
    BY <1>1, <1>4, <2>1, <2>3, <2>5, <2>6 DEF KeepsCleanup
  <2>8. connectionIntent' = connectionIntent /\ subscriptionIntent' = i /\ calls'[i].on = calls[i].on
    BY <1>4, <2>3 DEF intentVars, Moves
  <2>9. SubscriptionIsKnown' /\ StreamingFits'
    BY <1>4, <2>2, <2>3, <2>5, <2>7, <2>8 DEF SubscriptionIsKnown, StreamingFits, Moves
  <2>10. /\ HasOpened(i)' /\ calls[i].kind # "stop"
         /\ \A j \in calls'[i].waits \cup calls'[i].cleans : j \in calls[i].waits \cup calls[i].cleans
         /\ calls'[i].phase \in {"opened", "settled"}
    BY <2>3 DEF HasOpened, KeepsCleanup
  <2>. QED
    BY <1>1, <1>4, <2>2, <2>4, <2>5, <2>7, <2>9, <2>10, SubscriptionMoves
<1>. QED
  BY <1>3, <1>4

LEMMA StartRefusedKeeps ==
    ASSUME OwnedInv, NEW i \in CallIds, StartRefused(i)
    PROVE  OwnedInv'
<1>1. /\ calls[i].kind = "start" /\ calls[i].phase = "opening" /\ sub[i] # "opening"
      /\ FailStart(i, FALSE) /\ UNCHANGED intentVars /\ UNCHANGED reservations /\ UNCHANGED engineVars
  BY DEF StartRefused
<1>2. TypeOK /\ i # None /\ (i = subscriptionIntent => ~Closing) /\ EngineInv
  BY <1>1, SubscriptionCall
<1>3. Shrinks /\ conn' = conn /\ sub' = sub
  BY <1>1, <1>2, EngineStays
<1>4. sub[i] # "open"
  BY <1>1, <1>2 DEF EngineInv, ResourcesFit
<1>5. i = subscriptionIntent => OwnedSubscriptions \subseteq {i}
  BY <1>1, <1>2 DEF OwnedInv, SubscriptionIsKnown
<1>6. OwnedSubscriptions' = OwnedSubscriptions
  BY <1>3 DEF OwnedSubscriptions
<1>7. PICK dirty \in BOOLEAN : dirty = FALSE /\ FailStart(i, dirty)
  BY <1>1
<1>. QED
  BY <1>1, <1>3, <1>4, <1>5, <1>6, <1>7, FailStartKeeps

\* The newest start opens: nothing waits for it, and nothing else is subscribed.
LEMMA StartOpens ==
    ASSUME OwnedInv, NEW i \in CallIds, i = subscriptionIntent, calls[i].kind = "start",
           NEW p \in {"opening", "opened"}, NEW r \in {"opening", "open"}, Goto(i, p),
           conn' = conn, sub' \in [CallIds -> Resources], sub'[i] = r,
           \A j \in CallIds \ {i} : Fades(sub[j], sub'[j]),
           OwnedSubscriptions' \subseteq {i},
           \/ calls[i].phase = "clearing" /\ p = "opening" /\ r = "opening"
           \/ calls[i].phase = "opening" /\ sub[i] = "opening" /\ p = "opened" /\ r = "open",
           UNCHANGED intentVars, UNCHANGED <<reservations, cleanupFailed>>, UNCHANGED snapshotVars
    PROVE  OwnedInv'
<1>1. /\ Base /\ TypeOK /\ IsUsed(i) /\ CallFits(i) /\ EngineInv /\ i # connectionIntent /\ i # None
      /\ ~Closing /\ cleanupFailed \in BOOLEAN /\ conn[i] = "none"
      /\ connectionIntent \in CallIds \cup {None} /\ calls[i].cleanup # "pending"
      /\ cleanupFailed' = cleanupFailed /\ reservations' = reservations /\ calls[i].phase # "scheduled"
  <2>1. /\ Base /\ TypeOK /\ IsUsed(i) /\ CallFits(i) /\ EngineInv /\ i # connectionIntent /\ i # None
        /\ ~Closing /\ cleanupFailed \in BOOLEAN /\ conn[i] = "none"
        /\ connectionIntent \in CallIds \cup {None}
    BY SubscriptionCall
  <2>2. ASSUME calls[i].cleanup = "pending" PROVE FALSE
    <3>1. sub[i] = "opening"
      BY <2>1, <2>2 DEF CallFits
    <3>2. i \in calls[i].cleans
      BY <2>1, <2>2, <3>1 DEF OwnedInv, SubscriptionIsKnown, OwnedSubscriptions, InUse
    <3>. QED
      BY <2>1, <3>1, <3>2 DEF EngineInv, WaitsAreRetired, IsRetired
  <2>. QED
    BY <2>1, <2>2
<1>2. /\ SnapshotTyped' /\ subscribed' = subscribed /\ connection' = connection
      /\ subscription' = subscription
  BY <1>1, ShownStays
<1>3. /\ IntentsStay /\ (~Closing)' /\ connectionIntent' = connectionIntent
      /\ subscriptionIntent' = i /\ shutdown' = shutdown
  BY <1>1 DEF IntentsStay, Closing, intentVars
<1>4. /\ Moves(i) /\ KeepsWork(i) /\ KeepsCleanup(i)
      /\ calls'[i].phase = p /\ calls'[i].waits = calls[i].waits
  BY <1>1, GotoMoves DEF Phases
<1>5. Continues(i) /\ CallFits(i)'
  BY <1>1, <1>3, <1>4 DEF Continues, CallFits, KeepsWork, KeepsCleanup, Moves, IsUsed
<1>6. \A j \in CallIds : /\ calls'[j].kind = calls[j].kind
                         /\ HasOpened(j) => HasOpened(j)'
                         /\ j # i => calls'[j] = calls[j]
  BY <1>4 DEF Moves, Alone, HasOpened
<1>7. Base'
  <2>1. /\ connectionIntent' \in CallIds \cup {None} /\ subscriptionIntent' \in CallIds \cup {None}
        /\ disconnectPromise' \in CallIds \cup {None} /\ stopPromise' \in CallIds \cup {None}
        /\ shutdown' \in {"none", "scheduled", "running", "ok", "failed"}
        /\ reservations' \subseteq CallIds /\ cleanupFailed' \in BOOLEAN
    BY <1>1 DEF TypeOK, intentVars
  <2>2. EngineTyped
    BY <1>1 DEF EngineTyped, TypeOK
  <2>. QED
    BY <1>1, <1>2, <1>5, <2>1, <2>2, TypesMove, OrderContinues DEF Base, Moves, Continues
<1>8. \A j \in CallIds : i \notin calls[j].waits \cup calls[j].cleans
  BY <1>1 DEF EngineInv, WaitsAreRetired, IsRetired, HasOpened
<1>9. EngineInv'
  <2>1. \A j \in CallIds \ {i} : /\ sub'[j] # "none" => sub[j] # "none"
                                 /\ sub'[j] \in {"opening", "open"} => sub'[j] = sub[j]
    BY DEF Fades
  <2>2. ResourcesFit'
    <3> SUFFICES ASSUME NEW j \in CallIds
                 PROVE  /\ conn'[j] # "none" => calls'[j].kind = "connect" /\ HasOpened(j)'
                        /\ sub'[j] # "none" => calls'[j].kind = "start" /\ HasOpened(j)'
                        /\ conn'[j] = "open" => calls'[j].phase \in {"opened", "settled"}
                        /\ sub'[j] = "open" => calls'[j].phase \in {"opened", "settled"}
                        /\ conn'[j] = "opening" => j = connectionIntent'
                        /\ sub'[j] = "opening" => j = subscriptionIntent'
      BY DEF ResourcesFit
    <3>1. HasOpened(i)'
      BY <1>4 DEF HasOpened
    <3>. QED
      BY <1>1, <1>3, <1>4, <1>6, <2>1, <3>1 DEF EngineInv, ResourcesFit
  <2>3. OpenIsCurrent'
    <3>1. Scheduled' = Scheduled
      BY <1>1, <1>4, <1>6 DEF Scheduled
    <3>. QED
      BY <1>1, <1>3, <2>1, <3>1 DEF EngineInv, OpenIsCurrent
  <2>4. WaitsAreRetired'
    <3> SUFFICES ASSUME NEW k \in CallIds, NEW j \in calls'[k].waits \cup calls'[k].cleans
                 PROVE  IsRetired(j)'
      BY DEF WaitsAreRetired
    <3>1. j \in calls[k].waits \cup calls[k].cleans
      BY <1>4, <1>6 DEF KeepsCleanup
    <3>2. j \in CallIds /\ j # i /\ IsRetired(j)
      BY <1>1, <1>8, <3>1, WaitsAreCalls DEF EngineInv, WaitsAreRetired
    <3>. QED
      BY <1>6, <2>1, <3>2 DEF IsRetired
  <2>. QED
    BY <2>2, <2>3, <2>4 DEF EngineInv
<1>10. ReleasesAreCovered'
  <2>1. ASSUME NEW j \in CallIds
        PROVE  /\ calls'[j].phase = "clearing" => Covers(calls[j].waits, calls[j].prior)'
               /\ calls'[j].phase = "recovering" => Covers(calls[j].waits, calls[j].prior \cup {j})'
               /\ calls'[j].phase = "awaiting" => Covers({}, calls[j].prior)'
               /\ calls'[j].cleanup = "pending" => Covers(calls[j].cleans, calls[j].kept)'
    <3>1. CASE j = i
      BY <1>1, <1>4, <3>1 DEF KeepsCleanup
    <3>2. CASE j # i
      <4>1. /\ calls[j].phase = "clearing" => Covers(calls[j].waits, calls[j].prior)
            /\ calls[j].phase = "recovering" => Covers(calls[j].waits, calls[j].prior \cup {j})
            /\ calls[j].phase = "awaiting" => Covers({}, calls[j].prior)
            /\ calls[j].cleanup = "pending" => Covers(calls[j].cleans, calls[j].kept)
        BY DEF OwnedInv, ReleasesAreCovered
      <4>2. calls'[j] = calls[j]
        BY <1>6, <3>2
      <4>. QED
        BY <4>1, <4>2 DEF Covers
    <3>. QED
      BY <3>1, <3>2
  <2>2. ProfileStaysReserved'
    BY <1>1 DEF OwnedInv, ReleasesAreCovered, ProfileStaysReserved
  <2>3. \A j \in reservations' : calls'[j].kind = "connect"
    BY <1>1, <1>6 DEF OwnedInv, ReleasesAreCovered, TypeOK
  <2>4. \A j \in CallIds :
          connectionIntent' = j /\ calls'[j].kind = "connect" /\ ~HasOpened(j)' => j \in reservations'
    BY <1>1, <1>3, <1>6 DEF OwnedInv, ReleasesAreCovered
  <2>. QED
    BY <2>1, <2>2, <2>3, <2>4 DEF ReleasesAreCovered
<1>11. /\ subscribed /\ connection = "connected" /\ calls[i].on = connectionIntent
       /\ calls[i].phase = "clearing" => subscription = "loading"
       /\ calls[i].phase = "opening" /\ sub[i] = "opening" => subscription = "loading"
  BY <1>1 DEF OwnedInv, SubscriptionIsKnown
<1>12. ConnectionIsKnown'
  <2>1. /\ connectionIntent # None /\ calls[connectionIntent].kind = "connect"
        /\ calls[connectionIntent].phase = "settled" /\ calls[connectionIntent].cleanup = "none"
        /\ conn[connectionIntent] = "open"
        /\ \A j \in CallIds \ {connectionIntent} : conn[j] \notin InUse
    BY <1>1, <1>11 DEF OwnedInv, ConnectionIsKnown
  <2>2. calls'[connectionIntent] = calls[connectionIntent]
    BY <1>1, <1>6, <2>1
  <2>. QED
    BY <1>1, <1>2, <1>3, <1>11, <2>1, <2>2 DEF ConnectionIsKnown
<1>13. SubscriptionIsKnown'
  BY <1>1, <1>2, <1>3, <1>4, <1>11 DEF SubscriptionIsKnown, Moves, KeepsCleanup
<1>14. StreamingFits'
  BY <1>2, <1>11 DEF StreamingFits
<1>15. IdleFits'
  BY <1>1, <1>2, <1>5, IdleContinues DEF OwnedInv, IdleFits
<1>16. ShutdownIsComplete'
  BY <1>1, <1>3 DEF ShutdownIsComplete, Closing
<1>. QED
  BY <1>7, <1>9, <1>10, <1>12, <1>13, <1>14, <1>15, <1>16 DEF OwnedInv

LEMMA EngineSubscribesKeeps ==
    ASSUME OwnedInv, NEW i \in CallIds, EngineSubscribes(i)
    PROVE  OwnedInv'
<1>1. /\ calls[i].kind = "start" /\ calls[i].phase = "opening" /\ sub[i] = "opening"
      /\ sub' = [sub EXCEPT ![i] = "open"] /\ Goto(i, "opened") /\ UNCHANGED intentVars
      /\ UNCHANGED snapshotVars /\ UNCHANGED <<reservations, cleanupFailed>> /\ conn' = conn
  BY DEF EngineSubscribes
<1>2. TypeOK /\ EngineInv /\ i # None /\ (i = subscriptionIntent => ~Closing)
  BY <1>1, SubscriptionCall
<1>3. i = subscriptionIntent
  BY <1>1, <1>2 DEF EngineInv, ResourcesFit
<1>4. /\ sub' \in [CallIds -> Resources] /\ sub'[i] = "open"
      /\ \A j \in CallIds \ {i} : sub'[j] = sub[j]
  BY <1>1, <1>2 DEF TypeOK, Resources
<1>5. OwnedSubscriptions \subseteq {i}
  BY <1>1, <1>2, <1>3 DEF OwnedInv, SubscriptionIsKnown
<1>6. OwnedSubscriptions' \subseteq {i} /\ \A j \in CallIds \ {i} : Fades(sub[j], sub'[j])
  BY <1>4, <1>5 DEF OwnedSubscriptions, Fades
<1>7. PICK p \in {"opening", "opened"}, r \in {"opening", "open"} : p = "opened" /\ r = "open"
  OBVIOUS
<1>8. Goto(i, p) /\ sub'[i] = r
  BY <1>1, <1>4, <1>7
<1>. QED
  BY <1>1, <1>3, <1>4, <1>6, <1>7, <1>8, StartOpens

LEMMA StartClearedKeeps ==
    ASSUME OwnedInv, NEW i \in CallIds, NEW failed \in BOOLEAN, StartCleared(i, failed)
    PROVE  OwnedInv'
<1> DEFINE proceeds == ~failed /\ OwnsSubscription(i) /\ conn[calls[i].on] = "open"
<1> DEFINE closed == Closed(sub, calls[i].waits, failed)
<1>1. /\ calls[i].kind = "start" /\ calls[i].phase = "clearing"
      /\ failed <=> \E j \in calls[i].waits : closed[j] = "leaked"
      /\ UNCHANGED intentVars /\ UNCHANGED reservations /\ conn' = conn
      /\ proceeds => /\ sub' = [closed EXCEPT ![i] = "opening"] /\ Goto(i, "opening")
                     /\ UNCHANGED snapshotVars /\ UNCHANGED cleanupFailed
      /\ ~proceeds => sub' = closed /\ FailStart(i, failed)
  BY DEF StartCleared
<1>2. /\ TypeOK /\ EngineInv /\ WaitsAreRetired /\ i # None /\ (i = subscriptionIntent => ~Closing)
      /\ calls[i].waits \in SUBSET CallIds /\ Base
  BY <1>1, SubscriptionCall
<1>3. sub[i] = "none"
  BY <1>1, <1>2 DEF EngineInv, ResourcesFit, HasOpened
<1>4. i = subscriptionIntent => OwnedSubscriptions \subseteq calls[i].waits
  BY <1>1, <1>2 DEF OwnedInv, SubscriptionIsKnown
<1>5. /\ closed \in [CallIds -> Resources]
      /\ \A j \in CallIds : Fades(sub[j], closed[j])
      /\ \A j \in CallIds : closed[j] = IF j \in calls[i].waits /\ sub[j] = "retiring"
                                        THEN IF failed THEN "leaked" ELSE "closed" ELSE sub[j]
  BY <1>2, ClosedFades DEF TypeOK
<1>6. CASE ~proceeds
  <2>1. sub' = closed /\ FailStart(i, failed) /\ sub' = Closed(sub, calls[i].waits, failed)
        /\ (failed <=> \E j \in calls[i].waits : sub'[j] = "leaked")
    BY <1>1, <1>6
  <2>2. /\ Shrinks
        /\ \A j \in CallIds : sub[j] \in {"opening", "open"} => sub'[j] = sub[j]
        /\ ~failed => \A j \in calls[i].waits : sub'[j] \notin InUse
    BY <1>1, <1>2, <2>1, StopSettles
  <2>3. sub'[i] \notin {"opening", "open"}
    BY <1>2, <1>3, <2>2 DEF Shrinks, Fades
  <2>4. i = subscriptionIntent /\ ~failed => OwnedSubscriptions' \subseteq {i}
    BY <1>2, <1>4, <2>2, OwnedShrinks DEF OwnedSubscriptions
  <2>. HIDE DEF proceeds, closed
  <2>. QED
    BY <1>1, <2>1, <2>2, <2>3, <2>4, FailStartKeeps
<1>7. CASE proceeds
  <2>1. i = subscriptionIntent /\ ~failed
    BY <1>1, <1>2, <1>7, OwnerIsIntent
  <2>2. /\ sub' = [closed EXCEPT ![i] = "opening"] /\ Goto(i, "opening")
        /\ UNCHANGED snapshotVars /\ UNCHANGED cleanupFailed
    BY <1>1, <1>7
  <2>. HIDE DEF closed
  <2>3. sub' \in [CallIds -> Resources] /\ sub'[i] = "opening" /\ \A j \in CallIds \ {i} : sub'[j] = closed[j]
    BY <1>5, <2>2 DEF Resources
  <2>4. \A j \in CallIds \ {i} : Fades(sub[j], sub'[j])
    BY <1>5, <2>3
  <2>5. OwnedSubscriptions' \subseteq {i}
    <3>1. \A j \in calls[i].waits : sub[j] \notin {"opening", "open"}
      BY <1>2 DEF WaitsAreRetired, IsRetired
    <3>2. \A j \in calls[i].waits : closed[j] # "leaked"
      BY <1>1, <2>1
    <3>3. \A j \in calls[i].waits : closed[j] \notin InUse
      BY <1>2, <1>5, <2>1, <3>1, <3>2 DEF InUse
    <3>4. \A j \in CallIds : sub[j] \in InUse => j \in calls[i].waits
      BY <1>4, <2>1 DEF OwnedSubscriptions
    <3>5. \A j \in CallIds : closed[j] \in InUse => sub[j] \in InUse
      BY <1>5 DEF Fades, InUse
    <3>6. \A j \in CallIds : closed[j] \notin InUse
      BY <3>3, <3>4, <3>5
    <3>. QED
      BY <2>3, <3>6 DEF OwnedSubscriptions
  <2>6. PICK p \in {"opening", "opened"}, r \in {"opening", "open"} : p = "opening" /\ r = "opening"
    OBVIOUS
  <2>7. Goto(i, p) /\ sub'[i] = r /\ UNCHANGED <<reservations, cleanupFailed>>
    BY <1>1, <2>2, <2>3, <2>6
  <2>. QED
    BY <1>1, <2>1, <2>2, <2>3, <2>4, <2>5, <2>6, <2>7, StartOpens
<1>. QED
  BY <1>6, <1>7

LEMMA StartOpenedKeeps ==
    ASSUME OwnedInv, NEW i \in CallIds, StartOpened(i)
    PROVE  OwnedInv'
<1>1. /\ calls[i].kind = "start" /\ calls[i].phase = "opened" /\ UNCHANGED intentVars
      /\ UNCHANGED reservations /\ UNCHANGED engineVars
  BY DEF StartOpened
<1>2. /\ Base /\ TypeOK /\ IsUsed(i) /\ CallFits(i) /\ EngineInv /\ i # None /\ cleanupFailed \in BOOLEAN
      /\ i = subscriptionIntent => ~Closing
  BY <1>1, SubscriptionCall
<1>3. /\ Shrinks /\ conn' = conn /\ sub' = sub /\ OwnedSubscriptions' = OwnedSubscriptions
      /\ OwnsSubscription(i) <=> i = subscriptionIntent
  BY <1>1, <1>2, EngineStays, StartOwns DEF OwnedSubscriptions
<1>4. i = subscriptionIntent =>
        /\ subscribed /\ connection = "connected" /\ calls[i].on = connectionIntent
        /\ OwnedSubscriptions \subseteq {i}
        /\ subscription # "failed" => sub[i] = "open"
        /\ sub[i] \in {"opening", "open"} => subscription # "failed"
  BY <1>1, <1>2 DEF OwnedInv, SubscriptionIsKnown
<1>5. CASE FailStart(i, FALSE) /\ ~(OwnsSubscription(i) /\ subscription # "failed")
  <2>1. PICK dirty \in BOOLEAN : dirty = FALSE /\ FailStart(i, dirty)
    BY <1>5
  <2>2. i = subscriptionIntent => sub'[i] \notin {"opening", "open"}
    BY <1>3, <1>4, <1>5
  <2>. QED
    BY <1>1, <1>3, <1>4, <2>1, <2>2, FailStartKeeps
<1>6. CASE /\ OwnsSubscription(i) /\ subscription # "failed" /\ ChangeSubscription("streaming")
           /\ Settle(i) /\ UNCHANGED cleanupFailed
  <2>1. /\ SnapshotTyped' /\ subscribed' = subscribed /\ connection' = connection
        /\ subscription' = "streaming"
    BY <1>2, <1>6, SubscriptionIsShown DEF SubscriptionStates
  <2>2. /\ Moves(i) /\ KeepsCleanup(i) /\ calls'[i].phase = "settled"
        /\ calls'[i].waits = {} /\ calls'[i].prior = {}
    BY <1>2, <1>6, SettleMoves
  <2>3. Continues(i) /\ CallFits(i)'
    BY <1>1, <1>2, <2>2 DEF Continues, CallFits, KeepsCleanup, Moves, IsUsed, IntentsStay, intentVars
  <2>4. i = subscriptionIntent /\ sub'[i] = "open" /\ OwnedSubscriptions' = {i}
    BY <1>3, <1>4, <1>6 DEF OwnedSubscriptions, InUse
  <2>5. connectionIntent' = connectionIntent /\ subscriptionIntent' = i /\ calls'[i].on = calls[i].on
    BY <1>1, <2>2, <2>4 DEF intentVars, Moves
  <2>6. calls[i].cleanup # "pending"
    <3>1. calls[i].cleanup = "pending" => i \in calls[i].cleans
      BY <1>1, <1>2, <1>3, <2>4 DEF OwnedInv, SubscriptionIsKnown
    <3>. QED
      BY <1>2, <1>3, <2>4, <3>1 DEF EngineInv, WaitsAreRetired, IsRetired
  <2>7. SubscriptionIsKnown' /\ StreamingFits'
    BY <1>1, <1>2, <1>4, <2>1, <2>2, <2>4, <2>5, <2>6 DEF SubscriptionIsKnown, StreamingFits, Moves, KeepsCleanup
  <2>8. /\ HasOpened(i)' /\ calls[i].kind # "stop" /\ calls[i].phase # "scheduled"
        /\ \A j \in calls'[i].waits \cup calls'[i].cleans : j \in calls[i].waits \cup calls[i].cleans
        /\ calls'[i].phase \in {"opened", "settled"}
        /\ cleanupFailed' \in BOOLEAN /\ (cleanupFailed => cleanupFailed')
        /\ ~subscribed => subscription' = "idle"
    BY <1>1, <1>2, <1>4, <1>6, <2>2, <2>4 DEF HasOpened, KeepsCleanup
  <2>. QED
    BY <1>1, <1>3, <2>1, <2>3, <2>4, <2>7, <2>8, SubscriptionMoves
<1>. QED
  BY <1>5, <1>6 DEF StartOpened

\* Between microtasks only the current subscription is open, and it may fail.
LEMMA SubscriptionFailsKeeps ==
    ASSUME OwnedInv, NEW i \in CallIds, MicrotasksRun, SubscriptionFails(i)
    PROVE  OwnedInv'
<1>1. sub[i] \in {"opening", "open"} /\ UNCHANGED intentVars /\ UNCHANGED reservations /\ UNCHANGED cleanupFailed
  BY DEF SubscriptionFails
<1>2. calls[i].kind = "start" /\ calls[i].phase \in {"opening", "opened", "settled"}
  <2>1. calls[i].kind = "start" /\ HasOpened(i) /\ CallFits(i)
    BY <1>1 DEF OwnedInv, EngineInv, ResourcesFit, Base, CallsFit
  <2>. QED
    BY <2>1 DEF HasOpened, CallFits
<1>3. /\ Base /\ TypeOK /\ IsUsed(i) /\ CallFits(i) /\ EngineInv /\ i # None /\ cleanupFailed \in BOOLEAN
      /\ i = subscriptionIntent => ~Closing
      /\ connectionIntent \in CallIds \cup {None}
  BY <1>2, SubscriptionCall
<1>4. i = subscriptionIntent
  BY <1>1, <1>3 DEF EngineInv, ResourcesFit, OpenIsCurrent, MicrotasksRun
<1>5. /\ subscribed /\ connection = "connected" /\ calls[i].on = connectionIntent
      /\ subscription # "failed"
      /\ calls[i].phase \in {"opening", "opened"} => OwnedSubscriptions \subseteq {i}
      /\ calls[i].phase = "settled" => OwnedSubscriptions \subseteq {i} \/ cleanupFailed
  BY <1>1, <1>2, <1>3, <1>4 DEF OwnedInv, SubscriptionIsKnown
<1>6. /\ ChangeSubscription("failed") /\ StopEngine
      /\ calls' = [calls EXCEPT ![i] = [@ EXCEPT !.cleanup = "pending", !.cleans = OwnedSubscriptions]]
  BY <1>2, <1>4, <1>5, StartOwns DEF SubscriptionFails
<1>7. /\ SnapshotTyped' /\ subscribed' = subscribed /\ connection' = connection
      /\ subscription' = "failed"
  BY <1>3, <1>6, SubscriptionIsShown DEF SubscriptionStates
<1>8. /\ Shrinks /\ conn' = conn
      /\ \A j \in CallIds : sub'[j] \notin {"opening", "open"}
      /\ OwnedSubscriptions' \subseteq OwnedSubscriptions
  BY <1>3, <1>6, StopShrinks, OwnedShrinks
<1>9. /\ Moves(i) /\ KeepsWork(i)
      /\ calls'[i].phase = calls[i].phase /\ calls'[i].waits = calls[i].waits
      /\ calls'[i].cleanup = "pending" /\ calls'[i].cleans = OwnedSubscriptions
      /\ calls'[i].kept = calls[i].kept
  BY <1>3, <1>6, SubscriptionCleanupMoves, WaitsAreCalls
<1>10. Continues(i) /\ CallFits(i)'
  BY <1>1, <1>2, <1>3, <1>9 DEF Continues, CallFits, KeepsWork, Moves, IsUsed, IntentsStay, intentVars
<1>11. \A j \in OwnedSubscriptions : IsRetired(j)'
  <2>1. \A j \in OwnedSubscriptions : j \in CallIds /\ HasOpened(j) /\ conn[j] = "none"
    BY <1>3 DEF OwnedSubscriptions, InUse, EngineInv, ResourcesFit
  <2>2. \A j \in CallIds : HasOpened(j) => HasOpened(j)'
    BY <1>9 DEF HasOpened, Moves, Alone
  <2>. QED
    BY <1>8, <2>1, <2>2 DEF IsRetired
<1>12. connectionIntent' = connectionIntent /\ subscriptionIntent' = i /\ calls'[i].on = calls[i].on
       /\ calls'[i].kind = "start"
  BY <1>2, <1>4, <1>9, <1>1 DEF intentVars, Moves
<1>13. SubscriptionIsKnown' /\ StreamingFits'
  BY <1>1, <1>2, <1>5, <1>7, <1>8, <1>9, <1>12 DEF SubscriptionIsKnown, StreamingFits
<1>14. /\ HasOpened(i)' /\ calls[i].kind # "stop" /\ calls[i].phase # "scheduled" /\ sub'[i] # "open"
       /\ \A j \in calls'[i].waits \cup calls'[i].cleans :
             j \in calls[i].waits \cup calls[i].cleans \/ IsRetired(j)'
       /\ cleanupFailed' \in BOOLEAN /\ (cleanupFailed => cleanupFailed')
  BY <1>1, <1>2, <1>3, <1>8, <1>9, <1>11 DEF HasOpened
<1>. QED
  BY <1>1, <1>2, <1>4, <1>5, <1>7, <1>8, <1>10, <1>13, <1>14, SubscriptionMoves

LEMMA SubscriptionCleanedKeeps ==
    ASSUME OwnedInv, NEW i \in CallIds, NEW failed \in BOOLEAN, SubscriptionCleaned(i, failed)
    PROVE  OwnedInv'
<1>1. /\ calls[i].kind = "start" /\ calls[i].cleanup = "pending" /\ UNCHANGED intentVars
      /\ UNCHANGED reservations /\ EngineSettles(calls[i].cleans, failed)
      /\ calls' = [calls EXCEPT ![i] = [@ EXCEPT !.cleanup = "done", !.cleans = {}]]
  BY DEF SubscriptionCleaned
<1>2. /\ Base /\ TypeOK /\ IsUsed(i) /\ CallFits(i) /\ EngineInv /\ i # None /\ cleanupFailed \in BOOLEAN
      /\ i = subscriptionIntent => ~Closing
      /\ WaitsAreRetired /\ calls[i].cleans \in SUBSET CallIds
      /\ connectionIntent \in CallIds \cup {None} /\ subscriptionIntent \in CallIds \cup {None}
      /\ i # connectionIntent
      /\ OwnsSubscription(i) <=> i = subscriptionIntent
  BY <1>1, SubscriptionCall, StartOwns
<1>3. calls[i].phase \in {"opening", "opened", "settled"} /\ calls[i].kept = {} /\ calls[i].prior = {}
  BY <1>1, <1>2 DEF CallFits
<1>4. /\ Shrinks /\ OwnersStay /\ shutdown # "ok"
      /\ \A j \in CallIds : conn[j] \in {"opening", "open"} => conn'[j] = conn[j]
      /\ \A j \in CallIds : sub[j] \in {"opening", "open"} => sub'[j] = sub[j]
      /\ \A j \in calls[i].cleans : sub'[j] # "retiring"
      /\ OwnedSubscriptions' \subseteq OwnedSubscriptions
  BY <1>1, <1>2, SettlesShrinks, IntentsAreOwners, NotAfterShutdown, OwnedShrinks
<1>5. ~failed => \A j \in calls[i].cleans : sub'[j] \notin InUse
  <2>1. ASSUME ~failed PROVE EngineSettles(calls[i].cleans, FALSE)
    BY <1>1, <2>1
  <2>. QED
    BY <1>2, <2>1, CleanedIsClosed
<1>6. /\ Moves(i) /\ KeepsWork(i)
      /\ calls'[i].phase = calls[i].phase /\ calls'[i].waits = calls[i].waits
      /\ calls'[i].cleanup = "done" /\ calls'[i].cleans = {} /\ calls'[i].kept = {}
  <2>1. PICK ids \in SUBSET CallIds, status \in {"none", "pending", "done"} : ids = {} /\ status = "done"
    OBVIOUS
  <2>2. calls' = [calls EXCEPT ![i] = [@ EXCEPT !.cleanup = status, !.cleans = ids]]
    BY <1>1, <2>1
  <2>3. TypeOK
    BY <1>2
  <2>. QED
    BY <1>3, <2>1, <2>2, <2>3, SubscriptionCleanupMoves
<1>7. Continues(i) /\ CallFits(i)'
  BY <1>1, <1>2, <1>3, <1>6 DEF Continues, CallFits, KeepsWork, Moves, IsUsed, IntentsStay, intentVars
<1>8. /\ HasOpened(i)' /\ calls[i].kind # "stop" /\ calls[i].phase # "scheduled"
      /\ conn'[i] = "open" \/ sub'[i] = "open" => calls'[i].phase \in {"opened", "settled"}
      /\ \A j \in calls'[i].waits \cup calls'[i].cleans : j \in calls[i].waits \cup calls[i].cleans
      /\ calls'[i].phase \notin {"clearing", "recovering", "awaiting"} /\ calls'[i].cleanup # "pending"
  BY <1>1, <1>2, <1>3, <1>4, <1>6, NothingAppears DEF HasOpened, EngineInv, ResourcesFit
<1>9. CASE i # subscriptionIntent
  <2>1. UNCHANGED snapshotVars /\ UNCHANGED cleanupFailed
    BY <1>2, <1>9 DEF SubscriptionCleaned
  <2>2. SnapshotTyped' /\ UNCHANGED <<connection, subscription, subscribed>>
    BY <1>2, <2>1, ShownStays
  <2>3. {} \in SUBSET CallIds /\ reservations' = reservations \ {}
        /\ cleanupFailed' \in BOOLEAN /\ (cleanupFailed => cleanupFailed')
    BY <1>1, <1>2, <2>1
  <2>. QED
    BY <1>2, <1>4, <1>7, <1>8, <1>9, <2>2, <2>3, Aside
<1>10. CASE i = subscriptionIntent
  <2>1. /\ subscribed /\ connection = "connected" /\ calls[i].on = connectionIntent
        /\ OwnedSubscriptions \subseteq calls[i].cleans
        /\ calls[i].phase \in {"opening", "opened"} => OwnedSubscriptions \subseteq {i}
        /\ calls[i].phase = "opening" => subscription \in {"loading", "failed"}
        /\ calls[i].phase = "opened" => subscription = "failed" \/ (subscription = "loading" /\ sub[i] = "open")
    BY <1>1, <1>2, <1>10 DEF OwnedInv, SubscriptionIsKnown
  <2>2. sub[i] \notin {"opening", "open"}
    BY <1>2, <2>1 DEF EngineInv, WaitsAreRetired, IsRetired, OwnedSubscriptions, InUse
  <2>3. /\ SnapshotTyped' /\ subscribed' = subscribed /\ connection' = connection
        /\ subscription' \in {subscription, "failed"}
        /\ failed => cleanupFailed'
        /\ cleanupFailed' \in BOOLEAN /\ (cleanupFailed => cleanupFailed')
    <3>1. CASE failed
      <4>1. cleanupFailed' = TRUE /\ ChangeSubscription("failed")
        BY <1>2, <1>10, <3>1 DEF SubscriptionCleaned
      <4>. QED
        BY <1>2, <4>1, SubscriptionIsShown DEF SubscriptionStates
    <3>2. CASE ~failed
      <4>1. UNCHANGED snapshotVars /\ UNCHANGED cleanupFailed
        BY <3>2 DEF SubscriptionCleaned
      <4>. QED
        BY <1>2, <3>2, <4>1, ShownStays
    <3>. QED
      BY <3>1, <3>2
  <2>4. ~failed => OwnedSubscriptions' = {}
    BY <1>4, <1>5, <2>1 DEF OwnedSubscriptions
  <2>5. /\ connectionIntent' = connectionIntent /\ subscriptionIntent' = i /\ calls'[i].on = calls[i].on
        /\ calls'[i].kind = "start"
    BY <1>1, <1>6, <1>10 DEF intentVars, Moves
  <2>6. /\ sub'[i] \notin {"opening", "open"} /\ (sub'[i] \in InUse => i \in OwnedSubscriptions')
        /\ sub'[i] # "retiring"
    <3>1. sub'[i] \notin {"opening", "open"} /\ (sub'[i] \in InUse => i \in OwnedSubscriptions')
      BY <1>2, <1>4, <2>2, NothingAppears DEF OwnedSubscriptions
    <3>. QED
      BY <1>4, <2>1, <3>1 DEF InUse
  <2>7. subscription # "streaming"
    BY <1>2, <1>10, <2>2 DEF OwnedInv, StreamingFits
  <2>8. subscription' # "streaming" /\ StreamingFits'
    BY <2>3, <2>7 DEF StreamingFits
  <2>9. SubscriptionIsKnown'
    BY <1>3, <1>4, <1>6, <2>1, <2>2, <2>3, <2>4, <2>5, <2>6 DEF SubscriptionIsKnown, InUse
  <2>10. ~subscribed => subscription' = "idle"
    BY <2>1
  <2>. QED
    BY <1>1, <1>4, <1>7, <1>8, <1>10, <2>3, <2>8, <2>9, <2>10, SubscriptionMoves
<1>. QED
  BY <1>9, <1>10

LEMMA StopClearedKeeps ==
    ASSUME OwnedInv, NEW i \in CallIds, NEW failed \in BOOLEAN, StopCleared(i, failed)
    PROVE  OwnedInv'
<1>1. /\ calls[i].kind = "stop" /\ calls[i].phase = "clearing" /\ UNCHANGED intentVars
      /\ UNCHANGED reservations /\ EngineSettles(calls[i].waits, failed)
      /\ failed => Settle(i)
      /\ ~failed => Goto(i, "awaiting")
  BY DEF StopCleared
<1>2. /\ Base /\ TypeOK /\ IsUsed(i) /\ CallFits(i) /\ EngineInv /\ i # None /\ cleanupFailed \in BOOLEAN
      /\ i = subscriptionIntent => ~Closing
      /\ WaitsAreRetired /\ calls[i].waits \in SUBSET CallIds
      /\ connectionIntent \in CallIds \cup {None} /\ subscriptionIntent \in CallIds \cup {None}
      /\ i # connectionIntent
  BY <1>1, SubscriptionCall
<1>3. calls[i].cleanup = "none" /\ Busy(i) /\ ~HasOpened(i) /\ sub[i] = "none" /\ conn[i] = "none"
  BY <1>1, <1>2 DEF CallFits, Busy, HasOpened, EngineInv, ResourcesFit
<1>4. /\ Shrinks /\ OwnersStay /\ IntentsStay /\ shutdown # "ok"
      /\ \A j \in CallIds : conn[j] \in {"opening", "open"} => conn'[j] = conn[j]
      /\ \A j \in CallIds : sub[j] \in {"opening", "open"} => sub'[j] = sub[j]
      /\ OwnedSubscriptions' \subseteq OwnedSubscriptions
  BY <1>1, <1>2, <1>3, SettlesShrinks, IntentsAreOwners, NotAfterShutdown, OwnedShrinks
  DEF IntentsStay, OwnersStay
<1>5. ~failed => \A j \in calls[i].waits : sub'[j] \notin InUse
  <2>1. ASSUME ~failed PROVE EngineSettles(calls[i].waits, FALSE)
    BY <1>1, <2>1
  <2>. QED
    BY <1>2, <2>1, CleanedIsClosed
<1>6. failed => subscribed
  BY <1>1, <1>2 DEF EngineSettles, OwnedInv, IdleFits
<1>7. /\ Moves(i) /\ KeepsCleanup(i) /\ calls'[i].waits \subseteq calls[i].waits
      /\ calls'[i].phase = (IF failed THEN "settled" ELSE "awaiting") /\ calls'[i].prior = {}
  <2>1. CASE failed
    BY <1>1, <1>2, <2>1, SettleMoves
  <2>2. CASE ~failed
    <3>1. PICK p \in Phases : p = "awaiting"
      BY DEF Phases
    <3>2. Goto(i, p) /\ TypeOK
      BY <1>1, <1>2, <2>2, <3>1
    <3>3. Moves(i) /\ KeepsCleanup(i) /\ KeepsWork(i) /\ calls'[i].phase = p /\ calls'[i].waits = calls[i].waits
      BY <3>2, GotoMoves
    <3>. QED
      BY <1>1, <1>2, <2>2, <3>1, <3>3 DEF KeepsWork, CallFits
  <2>. QED
    BY <2>1, <2>2
<1>8. Continues(i) /\ CallFits(i)'
  BY <1>1, <1>2, <1>3, <1>4, <1>7 DEF Continues, CallFits, KeepsCleanup, Moves, IsUsed
<1>9. /\ calls[i].phase # "scheduled" /\ conn'[i] = "none" /\ sub'[i] = "none"
      /\ \A j \in calls'[i].waits \cup calls'[i].cleans : j \in calls[i].waits \cup calls[i].cleans
      /\ \A j \in calls'[i].waits : j \in CallIds /\ calls[j].kind = "start"
      /\ calls'[i].phase \notin {"clearing", "recovering"} /\ calls'[i].cleanup # "pending"
      /\ Covers({}, calls[i].prior)'
  BY <1>1, <1>2, <1>3, <1>4, <1>7, NothingAppears
  DEF KeepsCleanup, OwnedInv, IdleFits, Covers, Shrinks, Fades
<1>10. CASE i # subscriptionIntent
  <2>1. UNCHANGED snapshotVars /\ UNCHANGED cleanupFailed
    BY <1>10 DEF StopCleared
  <2>2. SnapshotTyped' /\ UNCHANGED <<connection, subscription, subscribed>>
    BY <1>2, <2>1, ShownStays
  <2>3. {} \in SUBSET CallIds /\ reservations' = reservations \ {}
        /\ cleanupFailed' \in BOOLEAN /\ (cleanupFailed => cleanupFailed')
    BY <1>1, <1>2, <2>1
  <2>. QED
    BY <1>2, <1>3, <1>4, <1>8, <1>9, <1>10, <2>2, <2>3, Aside
<1>11. CASE i = subscriptionIntent
  <2>1. /\ SnapshotTyped' /\ subscribed' = subscribed /\ connection' = connection
        /\ subscription' = IF failed THEN "failed" ELSE subscription
        /\ failed => cleanupFailed'
        /\ cleanupFailed' \in BOOLEAN /\ (cleanupFailed => cleanupFailed')
    <3>1. CASE failed
      <4>1. cleanupFailed' = TRUE /\ ChangeSubscription("failed")
        BY <1>2, <1>11, <3>1 DEF StopCleared
      <4>. QED
        BY <1>2, <3>1, <4>1, SubscriptionIsShown DEF SubscriptionStates
    <3>2. CASE ~failed
      <4>1. UNCHANGED snapshotVars /\ UNCHANGED cleanupFailed
        BY <3>2 DEF StopCleared
      <4>. QED
        BY <1>2, <3>2, <4>1, ShownStays
    <3>. QED
      BY <3>1, <3>2
  <2>2. ~failed => OwnedSubscriptions' = {}
    <3>1. OwnedSubscriptions \subseteq calls[i].waits
      BY <1>1, <1>2, <1>11 DEF OwnedInv, SubscriptionIsKnown
    <3>. QED
      BY <1>4, <1>5, <3>1 DEF OwnedSubscriptions
  <2>3. subscriptionIntent' = i /\ calls'[i].kind = "stop"
    BY <1>1, <1>7, <1>11 DEF intentVars, Moves
  <2>4. SubscriptionIsKnown'
    BY <1>7, <2>1, <2>2, <2>3 DEF SubscriptionIsKnown
  <2>5. subscription # "streaming"
    BY <1>1, <1>2, <1>11 DEF OwnedInv, StreamingFits
  <2>6. StreamingFits' /\ (~subscribed => subscription' = "idle")
    BY <1>6, <2>1, <2>5 DEF StreamingFits, OwnedInv, IdleFits
  <2>. QED
    BY <1>1, <1>3, <1>4, <1>8, <1>9, <1>11, <2>1, <2>4, <2>6, SubscriptionMoves
<1>. QED
  BY <1>10, <1>11

LEMMA ShowIsTyped ==
    ASSUME TypeOK, NEW c \in Nat, NEW s \in Nat, Show(c, s),
           connection' \in ConnectionStates, subscription' \in SubscriptionStates,
           subscribed' = subscribed, revisions' = revisions
    PROVE  SnapshotTyped'
<1>1. SnapshotTyped
  BY SnapshotIsTyped
<1>. QED
  BY <1>1, ShowTyped DEF SnapshotTyped

\* A viewer adopts the result of a superseded call.
LEMMA ViewedIsTyped ==
    ASSUME TypeOK, NEW c \in Nat, NEW s \in Nat, NEW cs \in ConnectionStates, NEW ss \in SubscriptionStates,
           viewed' = Viewing(c, cs, s, ss),
           UNCHANGED <<connection, subscription, subscribed, revisions, shown>>
    PROVE  SnapshotTyped'
<1>1. SnapshotTyped
  BY SnapshotIsTyped
<1>2. viewed' \in [revision : Revisions, connection : ConnectionStates, subscription : SubscriptionStates]
  BY <1>1, ViewingTyped
<1>. QED
  BY <1>1, <1>2 DEF SnapshotTyped

LEMMA NumbersOfSnapshots ==
    ASSUME TypeOK, NEW i \in CallIds
    PROVE  /\ calls[i].reserved.c \in Nat /\ calls[i].reserved.s \in Nat
           /\ shown.c \in Nat /\ shown.s \in Nat /\ viewed.revision.c \in Nat /\ viewed.revision.s \in Nat
           /\ viewed.connection \in ConnectionStates /\ viewed.subscription \in SubscriptionStates
           /\ Ended \in SubscriptionStates /\ revisions.c \in Nat /\ revisions.s \in Nat
  BY DEF TypeOK, Call, Revisions, Ended, SubscriptionStates

LEMMA StopFinishesKeeps ==
    ASSUME OwnedInv, NEW i \in CallIds, StopFinishes(i)
    PROVE  OwnedInv'
<1>1. /\ calls[i].kind = "stop" /\ calls[i].phase = "awaiting" /\ Settle(i) /\ UNCHANGED intentVars
      /\ UNCHANGED reservations /\ UNCHANGED cleanupFailed /\ UNCHANGED engineVars
  BY DEF StopFinishes
<1>2. /\ Base /\ TypeOK /\ IsUsed(i) /\ CallFits(i) /\ EngineInv /\ i # None /\ cleanupFailed \in BOOLEAN
      /\ i = subscriptionIntent => ~Closing
      /\ connectionIntent \in CallIds \cup {None} /\ subscriptionIntent \in CallIds \cup {None}
      /\ i # connectionIntent
  BY <1>1, SubscriptionCall
<1>3. /\ Shrinks /\ conn' = conn /\ sub' = sub /\ OwnersStay /\ IntentsStay /\ Busy(i)
      /\ OwnedSubscriptions' = OwnedSubscriptions
  BY <1>1, <1>2, EngineStays, IntentsAreOwners DEF IntentsStay, OwnersStay, Busy, OwnedSubscriptions
<1>4. /\ Moves(i) /\ KeepsCleanup(i) /\ calls'[i].phase = "settled"
      /\ calls'[i].waits = {} /\ calls'[i].prior = {}
  BY <1>1, <1>2, SettleMoves
<1>5. Continues(i) /\ CallFits(i)'
  BY <1>1, <1>2, <1>3, <1>4 DEF Continues, CallFits, KeepsCleanup, Moves, IsUsed
<1>6. CASE i # subscriptionIntent
  <2>1. /\ viewed' = Viewing(viewed.revision.c, viewed.connection, calls[i].reserved.s, Ended)
        /\ UNCHANGED <<connection, subscription, subscribed, revisions, shown>>
    BY <1>6 DEF StopFinishes
  <2>2. SnapshotTyped'
    BY <1>2, <2>1, NumbersOfSnapshots, ViewedIsTyped
  <2>3. {} \in SUBSET CallIds /\ reservations' = reservations \ {} /\ calls[i].phase # "scheduled"
        /\ cleanupFailed' \in BOOLEAN /\ (cleanupFailed => cleanupFailed')
    BY <1>1, <1>2
  <2>. QED
    BY <1>1, <1>2, <1>3, <1>6, <2>1, <2>2, <2>3, AsideSettles
<1>7. CASE i = subscriptionIntent
  <2>1. /\ subscription' = Ended /\ connection' = connection /\ subscribed' = subscribed
        /\ revisions' = revisions /\ Show(shown.c, calls[i].reserved.s)
    BY <1>2, <1>7 DEF StopFinishes
  <2>2. SnapshotTyped'
    BY <1>2, <2>1, NumbersOfSnapshots, ShowIsTyped DEF TypeOK
  <2>3. OwnedSubscriptions' = {}
    BY <1>1, <1>2, <1>3, <1>7 DEF OwnedInv, SubscriptionIsKnown
  <2>4. subscriptionIntent' = i /\ calls'[i].kind = "stop"
    BY <1>1, <1>4, <1>7 DEF intentVars, Moves
  <2>5. SubscriptionIsKnown'
    BY <1>4, <2>3, <2>4 DEF SubscriptionIsKnown
  <2>6. StreamingFits' /\ (~subscribed => subscription' = "idle")
    BY <2>1 DEF StreamingFits, Ended
  <2>7. /\ HasOpened(i)' /\ calls[i].phase # "scheduled"
        /\ \A j \in calls'[i].waits \cup calls'[i].cleans : j \in calls[i].waits \cup calls[i].cleans
        /\ calls'[i].phase \in {"opened", "settled"}
        /\ \A j \in calls'[i].waits : j \in CallIds /\ calls[j].kind = "start"
        /\ cleanupFailed' \in BOOLEAN /\ (cleanupFailed => cleanupFailed')
    BY <1>1, <1>2, <1>4 DEF HasOpened, KeepsCleanup
  <2>. QED
    BY <1>1, <1>3, <1>5, <1>7, <2>1, <2>2, <2>5, <2>6, <2>7, SubscriptionMoves
<1>. QED
  BY <1>6, <1>7

---------------------------------------------------------------------------
\* disconnect after its first await.

LEMMA SetupCall ==
    ASSUME OwnedInv, NEW i \in CallIds, IsSetup(i)
    PROVE  /\ Base /\ TypeOK /\ IsUsed(i) /\ CallFits(i) /\ EngineInv /\ WaitsAreRetired
           /\ calls[i].waits \in SUBSET CallIds /\ calls[i].prior \in SUBSET CallIds
           /\ cleanupFailed \in BOOLEAN /\ i # None
           /\ connectionIntent \in CallIds \cup {None} /\ subscriptionIntent \in CallIds \cup {None}
           /\ i # connectionIntent => i # subscriptionIntent
           /\ i = connectionIntent => ~Closing
           /\ \A j \in calls[i].prior : j # connectionIntent
<1>1. Base /\ TypeOK /\ CallFits(i) /\ EngineInv /\ connectionIntent \in CallIds \cup {None}
  BY DEF OwnedInv, Base, CallsFit, TypeOK
<1>2. connectionIntent # None => i <= connectionIntent
  BY <1>1 DEF Base, IntentsAreNewest
<1>3. \A j \in calls[i].prior : j # connectionIntent
  BY <1>1, <1>2, CallIdsAreNumbers DEF CallFits, CallIds
<1>. QED
  BY <1>1, <1>3, WaitsAreCalls, OwnerIsIntent, CallIdsAreNumbers DEF EngineInv, IsUsed, IsSetup, TypeOK

LEMMA DisconnectClearedKeeps ==
    ASSUME OwnedInv, NEW i \in CallIds, NEW failed \in BOOLEAN, DisconnectCleared(i, failed)
    PROVE  OwnedInv'
<1>1. /\ calls[i].kind = "disconnect" /\ calls[i].phase = "clearing" /\ UNCHANGED intentVars
      /\ UNCHANGED reservations /\ EngineSettles(calls[i].waits, failed)
      /\ failed => Settle(i)
      /\ ~failed => Goto(i, "awaiting")
  BY DEF DisconnectCleared
<1>2. /\ Base /\ TypeOK /\ IsSetup(i) /\ IsUsed(i) /\ CallFits(i) /\ EngineInv /\ i # None
      /\ cleanupFailed \in BOOLEAN /\ WaitsAreRetired /\ calls[i].waits \in SUBSET CallIds
      /\ connectionIntent \in CallIds \cup {None} /\ subscriptionIntent \in CallIds \cup {None}
      /\ i # connectionIntent => i # subscriptionIntent
      /\ i = connectionIntent => ~Closing
      /\ OwnsConnection(i) <=> i = connectionIntent
  <2>1. IsSetup(i)
    BY <1>1 DEF IsSetup
  <2>. QED
    BY <2>1, SetupCall, OwnerIsIntent
<1>3. calls[i].cleanup = "none" /\ Busy(i) /\ ~HasOpened(i) /\ sub[i] = "none" /\ conn[i] = "none"
  BY <1>1, <1>2 DEF CallFits, Busy, HasOpened, EngineInv, ResourcesFit
<1>4. /\ Shrinks /\ OwnersStay /\ IntentsStay /\ shutdown # "ok"
      /\ \A j \in CallIds : conn[j] \in {"opening", "open"} => conn'[j] = conn[j]
      /\ \A j \in CallIds : sub[j] \in {"opening", "open"} => sub'[j] = sub[j]
      /\ Owned' \subseteq Owned
  BY <1>1, <1>2, <1>3, SettlesShrinks, IntentsAreOwners, NotAfterShutdown, OwnedShrinks
  DEF IntentsStay, OwnersStay
<1>5. ~failed => /\ \A j \in calls[i].waits : conn'[j] \notin InUse /\ sub'[j] \notin InUse
                 /\ \A j \in calls[i].prior : conn'[j] \notin InUse
  <2>1. ASSUME ~failed PROVE EngineSettles(calls[i].waits, FALSE)
    BY <1>1, <2>1
  <2>. QED
    BY <1>1, <1>2, <2>1, CleanedIsClosed, PriorIsReleased
<1>6. /\ Moves(i) /\ KeepsCleanup(i) /\ calls'[i].waits \subseteq calls[i].waits
      /\ calls'[i].prior \subseteq calls[i].prior
      /\ calls'[i].phase = (IF failed THEN "settled" ELSE "awaiting")
  <2>1. CASE failed
    BY <1>1, <1>2, <2>1, SettleMoves
  <2>2. CASE ~failed
    <3>1. PICK p \in Phases : p = "awaiting"
      BY DEF Phases
    <3>2. Goto(i, p) /\ TypeOK
      BY <1>1, <1>2, <2>2, <3>1
    <3>3. Moves(i) /\ KeepsCleanup(i) /\ KeepsWork(i) /\ calls'[i].phase = p /\ calls'[i].waits = calls[i].waits
      BY <3>2, GotoMoves
    <3>. QED
      BY <2>2, <3>1, <3>3 DEF KeepsWork
  <2>. QED
    BY <2>1, <2>2
<1>7. Continues(i) /\ CallFits(i)'
  BY <1>1, <1>2, <1>3, <1>4, <1>6 DEF Continues, CallFits, KeepsCleanup, Moves, IsUsed
<1>8. /\ calls[i].phase # "scheduled" /\ conn'[i] = "none" /\ sub'[i] = "none" /\ calls[i].kind # "stop"
      /\ \A j \in calls'[i].waits \cup calls'[i].cleans : j \in calls[i].waits \cup calls[i].cleans
      /\ calls'[i].phase \notin {"clearing", "recovering"} /\ calls'[i].cleanup # "pending"
      /\ calls'[i].phase = "awaiting" => Covers({}, calls[i].prior)'
  BY <1>1, <1>2, <1>3, <1>4, <1>5, <1>6, NothingAppears
  DEF KeepsCleanup, Covers, Shrinks, Fades
<1>9. CASE i # connectionIntent
  <2>1. UNCHANGED snapshotVars /\ UNCHANGED cleanupFailed
    BY <1>2, <1>9 DEF DisconnectCleared
  <2>2. SnapshotTyped' /\ UNCHANGED <<connection, subscription, subscribed>>
    BY <1>2, <2>1, ShownStays
  <2>3. {} \in SUBSET CallIds /\ reservations' = reservations \ {}
        /\ cleanupFailed' \in BOOLEAN /\ (cleanupFailed => cleanupFailed')
    BY <1>1, <1>2, <2>1
  <2>. QED
    BY <1>2, <1>3, <1>4, <1>7, <1>8, <1>9, <2>2, <2>3, Aside
<1>10. CASE i = connectionIntent
  <2>1. /\ SnapshotTyped' /\ subscribed' = subscribed /\ subscription' = subscription
        /\ connection' = IF failed THEN "failed" ELSE connection
        /\ failed => cleanupFailed'
        /\ cleanupFailed' \in BOOLEAN /\ (cleanupFailed => cleanupFailed')
    <3>1. CASE failed
      <4>1. cleanupFailed' = TRUE /\ ChangeConnection("failed")
        BY <1>2, <1>10, <3>1 DEF DisconnectCleared
      <4>. QED
        BY <1>2, <3>1, <4>1, ConnectionIsShown DEF ConnectionStates
    <3>2. CASE ~failed
      <4>1. UNCHANGED snapshotVars /\ UNCHANGED cleanupFailed
        BY <3>2 DEF DisconnectCleared
      <4>. QED
        BY <1>2, <3>2, <4>1, ShownStays
    <3>. QED
      BY <3>1, <3>2
  <2>2. ~Closing /\ connection # "connected"
    BY <1>1, <1>10, NewestIsBusy
  <2>3. ~failed => Owned' = {}
    <3>1. Owned \subseteq calls[i].waits
      BY <1>1, <1>2, <1>10, <2>2 DEF OwnedInv, ConnectionIsKnown
    <3>. QED
      BY <1>4, <1>5, <3>1 DEF Owned
  <2>4. connection = "disconnected" => Owned' = {}
    BY <1>4, <2>2 DEF OwnedInv, ConnectionIsKnown
  <2>5. ConnectionIsKnown'
    <3>1. connectionIntent' = i /\ connection' # "connected" /\ (connection' = "disconnected" => Owned' = {})
      BY <1>10, <1>4, <2>1, <2>2, <2>4 DEF OwnersStay
    <3>. QED
      BY <1>2, <1>6, <1>8, <2>1, <2>3, <3>1 DEF ConnectionIsKnown
  <2>6. ~subscribed => subscription' = "idle"
    BY <2>1 DEF OwnedInv, IdleFits
  <2>7. {} \in SUBSET CallIds /\ reservations' = reservations \ {}
    BY <1>1
  <2>. QED
    BY <1>3, <1>4, <1>7, <1>8, <1>10, <2>1, <2>2, <2>5, <2>6, <2>7, NewestMoves
<1>. QED
  BY <1>9, <1>10

LEMMA DisconnectFinishesKeeps ==
    ASSUME OwnedInv, NEW i \in CallIds, DisconnectFinishes(i)
    PROVE  OwnedInv'
<1>1. /\ calls[i].kind = "disconnect" /\ calls[i].phase = "awaiting" /\ Settle(i)
      /\ UNCHANGED <<connectionIntent, subscriptionIntent, stopPromise, shutdown>>
      /\ disconnectPromise' \in {None, disconnectPromise}
      /\ UNCHANGED engineVars /\ reservations' = reservations \ calls[i].prior
  BY DEF DisconnectFinishes
<1>2. /\ Base /\ TypeOK /\ IsSetup(i) /\ IsUsed(i) /\ CallFits(i) /\ EngineInv /\ i # None
      /\ cleanupFailed \in BOOLEAN /\ calls[i].prior \in SUBSET CallIds
      /\ connectionIntent \in CallIds \cup {None} /\ subscriptionIntent \in CallIds \cup {None}
      /\ i # connectionIntent => i # subscriptionIntent
      /\ i = connectionIntent => ~Closing
      /\ OwnsConnection(i) <=> i = connectionIntent
      /\ \A j \in calls[i].prior : j # connectionIntent
  <2>1. IsSetup(i)
    BY <1>1 DEF IsSetup
  <2>. QED
    BY <2>1, SetupCall, OwnerIsIntent
<1>3. /\ Shrinks /\ conn' = conn /\ sub' = sub /\ OwnersStay /\ IntentsStay /\ Busy(i)
      /\ Owned' = Owned /\ OwnedSubscriptions' = OwnedSubscriptions
  BY <1>1, <1>2, EngineStays DEF IntentsStay, OwnersStay, Busy, Owned, OwnedSubscriptions, TypeOK
<1>4. /\ Moves(i) /\ KeepsCleanup(i) /\ calls'[i].phase = "settled"
      /\ calls'[i].waits = {} /\ calls'[i].prior = {}
  BY <1>1, <1>2, SettleMoves
<1>5. Continues(i) /\ CallFits(i)'
  BY <1>1, <1>2, <1>3, <1>4 DEF Continues, CallFits, KeepsCleanup, Moves, IsUsed
<1>6. \A j \in calls[i].prior : conn'[j] \notin InUse
  BY <1>1, <1>3 DEF OwnedInv, ReleasesAreCovered, Covers
<1>7. CASE i # connectionIntent
  <2>1. /\ viewed' = Viewing(calls[i].reserved.c, "disconnected", calls[i].reserved.s, Ended)
        /\ UNCHANGED <<connection, subscription, subscribed, revisions, shown>> /\ UNCHANGED cleanupFailed
    BY <1>2, <1>7 DEF DisconnectFinishes
  <2>2. SnapshotTyped'
    BY <1>2, <2>1, NumbersOfSnapshots, ViewedIsTyped DEF ConnectionStates
  <2>3. calls[i].phase # "scheduled" /\ cleanupFailed' \in BOOLEAN /\ (cleanupFailed => cleanupFailed')
    BY <1>1, <1>2, <2>1
  <2>. QED
    BY <1>1, <1>2, <1>3, <1>6, <1>7, <2>1, <2>2, <2>3, AsideSettles
<1>8. CASE i = connectionIntent
  <2>1. ~Closing /\ connection # "connected" /\ connectionIntent' = i /\ shutdown # "ok"
    BY <1>1, <1>8, NewestIsBusy DEF Closing
  <2>2. /\ connection' = "disconnected" /\ subscribed' = subscribed /\ revisions' = revisions
        /\ \/ /\ subscriptionIntent = i /\ subscription' = Ended /\ cleanupFailed' = FALSE
              /\ Show(calls[i].reserved.c, calls[i].reserved.s)
           \/ /\ subscriptionIntent # i /\ subscription' = subscription /\ cleanupFailed' = cleanupFailed
              /\ Show(calls[i].reserved.c, shown.s)
    BY <1>2, <1>8 DEF DisconnectFinishes
  <2>3. connection' \in ConnectionStates /\ subscription' \in SubscriptionStates
    BY <1>2, <2>2, NumbersOfSnapshots DEF TypeOK, ConnectionStates
  <2>4. SnapshotTyped'
    BY <1>2, <2>2, <2>3, NumbersOfSnapshots, ShowIsTyped
  <2>5. Owned' = {} /\ ConnectionIsKnown'
    <3>1. Owned' = {}
      BY <1>1, <1>2, <1>3, <1>8, <2>1 DEF OwnedInv, ConnectionIsKnown
    <3>. QED
      BY <1>2, <1>4, <2>1, <2>2, <3>1 DEF ConnectionIsKnown, Owned
  <2>6. /\ HasOpened(i)' /\ calls[i].phase # "scheduled"
        /\ \A j \in calls'[i].waits \cup calls'[i].cleans : j \in calls[i].waits \cup calls[i].cleans
        /\ calls'[i].phase \in {"opened", "settled"}
        /\ calls'[i].phase \notin {"clearing", "recovering", "awaiting"}
        /\ calls[i].kind # "stop" /\ cleanupFailed' \in BOOLEAN
        /\ ~subscribed => subscription' = "idle"
    BY <1>1, <1>2, <1>4, <2>2 DEF HasOpened, KeepsCleanup, OwnedInv, IdleFits, Ended
  <2>7. \A j \in calls[i].prior : j # connectionIntent \/ HasOpened(j)'
    BY <1>2
  <2>8. CASE subscriptionIntent = i
    <3>1. SubscriptionIsKnown'
      <4>1. subscriptionIntent' = i /\ calls'[i].kind = "disconnect"
        BY <1>1, <1>4, <2>8 DEF Moves
      <4>. QED
        BY <4>1 DEF SubscriptionIsKnown
    <3>2. StreamingFits'
      BY <2>2, <2>8 DEF StreamingFits, Ended
    <3>. QED
      BY <1>1, <1>2, <1>3, <1>4, <1>5, <1>6, <2>1, <2>2, <2>4, <2>5, <2>6, <2>7, <3>1, <3>2, StepKeeps
  <2>9. CASE subscriptionIntent # i
    <3>1. subscription' = subscription /\ cleanupFailed' = cleanupFailed
      BY <2>2, <2>9
    <3>. QED
      BY <1>2, <1>1, <1>3, <1>4, <1>5, <1>6, <1>8, <2>1, <2>2, <2>4, <2>5, <2>6, <2>7, <3>1, NewestMoves
  <2>. QED
    BY <2>8, <2>9
<1>. QED
  BY <1>7, <1>8

---------------------------------------------------------------------------
\* The shutdown.

\* What the engine lets go of uncovers nothing that a call will release.
LEMMA CoversStay ==
    ASSUME TypeOK, Shrinks, ReleasesAreCovered, NEW j \in CallIds, calls'[j] = calls[j]
    PROVE  /\ calls'[j].phase = "clearing" => Covers(calls[j].waits, calls[j].prior)'
           /\ calls'[j].phase = "recovering" => Covers(calls[j].waits, calls[j].prior \cup {j})'
           /\ calls'[j].phase = "awaiting" => Covers({}, calls[j].prior)'
           /\ calls'[j].cleanup = "pending" => Covers(calls[j].cleans, calls[j].kept)'
<1>1. /\ calls[j].phase = "clearing" => Covers(calls[j].waits, calls[j].prior)
      /\ calls[j].phase = "recovering" => Covers(calls[j].waits, calls[j].prior \cup {j})
      /\ calls[j].phase = "awaiting" => Covers({}, calls[j].prior)
      /\ calls[j].cleanup = "pending" => Covers(calls[j].cleans, calls[j].kept)
  BY DEF ReleasesAreCovered
<1>2. \A ids, priors : priors \subseteq CallIds /\ Covers(ids, priors) =>
          \A h \in priors : conn'[h] \in InUse => h \in ids
  BY NothingAppears DEF Covers
<1>3. /\ calls[j].prior \subseteq CallIds /\ calls[j].kept \subseteq CallIds
      /\ calls[j].prior \cup {j} \subseteq CallIds
  BY WaitsAreCalls
<1>4. calls[j].phase = "clearing" => \A h \in calls[j].prior : conn'[h] \in InUse => h \in calls[j].waits
  BY <1>1, <1>2, <1>3
<1>5. calls[j].phase = "recovering" =>
         \A h \in calls[j].prior \cup {j} : conn'[h] \in InUse => h \in calls[j].waits
  BY <1>1, <1>2, <1>3
<1>6. calls[j].phase = "awaiting" => \A h \in calls[j].prior : conn'[h] \in InUse => h \in {}
  BY <1>1, <1>2, <1>3
<1>7. calls[j].cleanup = "pending" => \A h \in calls[j].kept : conn'[h] \in InUse => h \in calls[j].cleans
  BY <1>1, <1>2, <1>3
<1>. QED
  BY <1>4, <1>5, <1>6, <1>7 DEF Covers

LEMMA ClosingKeeps ==
    ASSUME OwnedInv, calls' = calls, Shrinks, shutdown' \in {"scheduled", "running", "ok", "failed"},
           connectionIntent' = None, subscriptionIntent' = None,
           disconnectPromise' = disconnectPromise, stopPromise' \in {None, stopPromise},
           SnapshotTyped', subscribed' = subscribed, ~subscribed => subscription' = "idle",
           NEW lost \in SUBSET CallIds, reservations' = reservations \ lost,
           \A j \in lost : conn'[j] \notin InUse, cleanupFailed' = cleanupFailed,
           \A j \in CallIds : conn'[j] # "opening" /\ sub'[j] # "opening",
           shutdown' # "scheduled" => \A j \in CallIds : conn'[j] # "open" /\ sub'[j] # "open",
           ShutdownIsComplete'
    PROVE  OwnedInv'
<1>1. TypeOK /\ Base /\ EngineInv /\ ReleasesAreCovered /\ IdleFits
  BY DEF OwnedInv, Base
<1>2. Closing' /\ None \notin CallIds
  BY CallIdsAreNumbers DEF Closing
<1>3. Base'
  <2>1. /\ connectionIntent' \in CallIds \cup {None} /\ subscriptionIntent' \in CallIds \cup {None}
        /\ disconnectPromise' \in CallIds \cup {None} /\ stopPromise' \in CallIds \cup {None}
        /\ shutdown' \in {"none", "scheduled", "running", "ok", "failed"}
        /\ reservations' \subseteq CallIds /\ cleanupFailed' \in BOOLEAN
        /\ calls' \in [CallIds -> Call]
    BY <1>1 DEF TypeOK
  <2>2. TypeOK'
    BY <1>1, <2>1, TypesMove DEF Shrinks
  <2>3. CallsFit' /\ InOrder'
    BY <1>1 DEF Base, CallsFit, CallFits, InOrder, IsUsed
  <2>4. IntentsAreNewest'
    BY <1>2 DEF IntentsAreNewest
  <2>. QED
    BY <2>2, <2>3, <2>4 DEF Base
<1>4. EngineInv'
  <2>1. ResourcesFit'
    <3> SUFFICES ASSUME NEW j \in CallIds
                 PROVE  /\ conn'[j] # "none" => calls'[j].kind = "connect" /\ HasOpened(j)'
                        /\ sub'[j] # "none" => calls'[j].kind = "start" /\ HasOpened(j)'
                        /\ conn'[j] = "open" => calls'[j].phase \in {"opened", "settled"}
                        /\ sub'[j] = "open" => calls'[j].phase \in {"opened", "settled"}
                        /\ conn'[j] = "opening" => j = connectionIntent'
                        /\ sub'[j] = "opening" => j = subscriptionIntent'
      BY DEF ResourcesFit
    <3>. QED
      BY <1>1, NothingAppears DEF EngineInv, ResourcesFit, HasOpened
  <2>2. OpenIsCurrent'
    BY DEF OpenIsCurrent
  <2>3. WaitsAreRetired'
    <3>1. \A j \in CallIds : IsRetired(j) => IsRetired(j)'
      BY <1>1, NothingAppears DEF IsRetired, HasOpened
    <3>2. \A k \in CallIds : calls[k].waits \cup calls[k].cleans \subseteq CallIds
      BY <1>1, WaitsAreCalls
    <3>. QED
      BY <1>1, <3>1, <3>2 DEF EngineInv, WaitsAreRetired
  <2>. QED
    BY <2>1, <2>2, <2>3 DEF EngineInv
<1>5. ReleasesAreCovered'
  <2>1. ASSUME NEW j \in CallIds
        PROVE  /\ calls'[j].phase = "clearing" => Covers(calls[j].waits, calls[j].prior)'
               /\ calls'[j].phase = "recovering" => Covers(calls[j].waits, calls[j].prior \cup {j})'
               /\ calls'[j].phase = "awaiting" => Covers({}, calls[j].prior)'
               /\ calls'[j].cleanup = "pending" => Covers(calls[j].cleans, calls[j].kept)'
    BY <1>1, CoversStay
  <2>2. ProfileStaysReserved'
    <3> SUFFICES ASSUME NEW j \in CallIds, conn'[j] \in InUse PROVE j \in reservations'
      BY DEF ProfileStaysReserved, Live, InUse
    <3>. QED
      BY <1>1, NothingAppears DEF ReleasesAreCovered, ProfileStaysReserved, Live, InUse
  <2>3. \A j \in reservations' : calls'[j].kind = "connect"
    BY <1>1 DEF ReleasesAreCovered
  <2>4. \A j \in CallIds :
          connectionIntent' = j /\ calls'[j].kind = "connect" /\ ~HasOpened(j)' => j \in reservations'
    BY <1>2
  <2>. QED
    BY <2>1, <2>2, <2>3, <2>4 DEF ReleasesAreCovered
<1>6. ConnectionIsKnown' /\ SubscriptionIsKnown' /\ StreamingFits'
  BY <1>2 DEF ConnectionIsKnown, SubscriptionIsKnown, StreamingFits
<1>7. IdleFits'
  BY <1>1 DEF IdleFits
<1>. QED
  BY <1>3, <1>4, <1>5, <1>6, <1>7 DEF OwnedInv

LEMMA RevokedFits ==
    ASSUME TypeOK, IdleFits
    PROVE  /\ Revoked \in SubscriptionStates /\ Revoked # "streaming"
           /\ ~subscribed => Revoked = "idle"
           /\ RevokedRevision \in Nat /\ RevokedShown \in Nat
           /\ subscription \in SubscriptionStates
  BY DEF TypeOK, IdleFits, Revoked, IsRevocable, SubscriptionStates, RevokedRevision, RevokedShown, Revisions

LEMMA ShutdownKeeps ==
    ASSUME OwnedInv, Shutdown
    PROVE  OwnedInv'
<1>1. TypeOK /\ SnapshotTyped /\ IdleFits
  BY SnapshotIsTyped DEF OwnedInv, Base
<1>2. /\ calls' = calls /\ shutdown' = "scheduled" /\ connectionIntent' = None /\ subscriptionIntent' = None
      /\ disconnectPromise' = disconnectPromise /\ stopPromise' = None /\ subscription' = Revoked
      /\ connection' = connection /\ subscribed' = subscribed /\ viewed' = viewed
      /\ reservations' = reservations \ {} /\ cleanupFailed' = cleanupFailed
      /\ AbortConnection /\ AbortSubscription
  BY DEF Shutdown
<1>3. Shrinks /\ \A j \in CallIds : conn'[j] # "opening" /\ sub'[j] # "opening"
  BY <1>1, <1>2, AbortShrinks
<1>4. SnapshotTyped'
  <2>1. revisions' \in Revisions /\ shown' \in Revisions
    BY <1>1, RevokedFits DEF Shutdown, SnapshotTyped, Revisions
  <2>. QED
    BY <1>1, <1>2, <2>1, RevokedFits DEF SnapshotTyped
<1>5. (~subscribed => subscription' = "idle") /\ ShutdownIsComplete'
  BY <1>1, <1>2, RevokedFits DEF ShutdownIsComplete
<1>6. /\ shutdown' \in {"scheduled", "running", "ok", "failed"} /\ stopPromise' \in {None, stopPromise}
      /\ shutdown' # "scheduled" => \A j \in CallIds : conn'[j] # "open" /\ sub'[j] # "open"
      /\ {} \in SUBSET CallIds /\ \A j \in {} : conn'[j] \notin InUse
  BY <1>2
<1>. QED
  BY <1>2, <1>3, <1>4, <1>5, <1>6, ClosingKeeps

LEMMA ClosedIntents ==
    ASSUME OwnedInv, Closing
    PROVE  connectionIntent = None /\ subscriptionIntent = None /\ None \notin Scheduled /\ None \notin CallIds
  BY CallIdsAreNumbers DEF OwnedInv, Base, IntentsAreNewest, Scheduled

LEMMA RunShutdownKeeps ==
    ASSUME OwnedInv, RunShutdown
    PROVE  OwnedInv'
<1>1. TypeOK /\ Closing
  BY DEF OwnedInv, Base, RunShutdown, Closing
<1>2. /\ calls' = calls /\ shutdown' = "running" /\ DisconnectEngine
      /\ UNCHANGED <<connectionIntent, subscriptionIntent, disconnectPromise, stopPromise>>
      /\ UNCHANGED snapshotVars /\ reservations' = reservations \ {} /\ cleanupFailed' = cleanupFailed
  BY DEF RunShutdown
<1>3. Shrinks /\ \A j \in CallIds : {conn'[j], sub'[j]} \cap {"opening", "open"} = {}
  BY <1>1, <1>2, DisconnectShrinks
<1>4. SnapshotTyped' /\ subscribed' = subscribed /\ (~subscribed => subscription' = "idle")
  BY <1>1, <1>2, ShownStays DEF OwnedInv, IdleFits
<1>5. ShutdownIsComplete'
  BY <1>2 DEF ShutdownIsComplete
<1>6. \A j \in CallIds : /\ conn'[j] # "opening" /\ sub'[j] # "opening"
                         /\ conn'[j] # "open" /\ sub'[j] # "open"
  BY <1>3
<1>7. connectionIntent' = None /\ subscriptionIntent' = None
  BY <1>1, <1>2, ClosedIntents
<1>8. /\ disconnectPromise' = disconnectPromise /\ stopPromise' \in {None, stopPromise}
      /\ shutdown' \in {"scheduled", "running", "ok", "failed"}
  BY <1>2
<1>. QED
  BY <1>2, <1>3, <1>4, <1>5, <1>6, <1>7, <1>8, ClosingKeeps

\* A shutdown that succeeds has closed everything: nothing is open any more
\* when it settles.
LEMMA ShutdownFinishesKeeps ==
    ASSUME OwnedInv, NEW failed \in BOOLEAN, ShutdownFinishes(failed)
    PROVE  OwnedInv'
<1>1. TypeOK /\ Closing /\ EngineInv /\ Owned \in SUBSET CallIds /\ reservations \in SUBSET CallIds
  BY DEF OwnedInv, Base, ShutdownFinishes, Closing, Owned, TypeOK
<1>2. /\ calls' = calls /\ shutdown = "running" /\ shutdown' = (IF failed THEN "failed" ELSE "ok")
      /\ EngineSettles(Owned, failed) /\ WorkIsIdle
      /\ UNCHANGED <<connectionIntent, subscriptionIntent, disconnectPromise, stopPromise>>
      /\ UNCHANGED snapshotVars /\ cleanupFailed' = cleanupFailed
      /\ reservations' = (IF failed THEN reservations ELSE {})
  BY DEF ShutdownFinishes
<1>3. connectionIntent = None /\ subscriptionIntent = None /\ None \notin Scheduled /\ None \notin CallIds
  BY <1>1, ClosedIntents
<1>4. \A j \in CallIds : {conn[j], sub[j]} \cap {"opening", "open"} = {}
  BY <1>1, <1>2, <1>3 DEF EngineInv, ResourcesFit, OpenIsCurrent
<1>5. /\ Shrinks
      /\ ~failed => \A j \in Owned : {conn[j], sub[j]} \cap {"opening", "open"} = {} =>
                                         conn'[j] \notin InUse /\ sub'[j] \notin InUse
  BY <1>1, <1>2, SettlesShrinks
<1>6. ~failed => \A j \in CallIds : conn'[j] \notin InUse /\ sub'[j] \notin InUse
  BY <1>1, <1>4, <1>5, NothingAppears DEF Owned
<1>7. \A j \in CallIds : /\ conn'[j] # "opening" /\ sub'[j] # "opening"
                         /\ conn'[j] # "open" /\ sub'[j] # "open"
  BY <1>1, <1>4, <1>5, NothingAppears
<1>8. SnapshotTyped' /\ subscribed' = subscribed /\ (~subscribed => subscription' = "idle")
  BY <1>1, <1>2, ShownStays DEF OwnedInv, IdleFits
<1>9. ShutdownIsComplete'
  BY <1>2, <1>6 DEF ShutdownIsComplete, WorkIsIdle, Busy, Live, InUse
<1> DEFINE lost == IF failed THEN {} ELSE reservations
<1>10. lost \in SUBSET CallIds /\ reservations' = reservations \ lost /\ \A j \in lost : conn'[j] \notin InUse
  BY <1>1, <1>2, <1>6
<1>. HIDE DEF lost
<1>11. shutdown' \in {"scheduled", "running", "ok", "failed"}
  BY <1>2
<1>. QED
  BY <1>2, <1>3, <1>5, <1>7, <1>8, <1>9, <1>10, <1>11, ClosingKeeps

---------------------------------------------------------------------------
\* The calls, up to their first await.

LEMMA FreshIsNext ==
    ASSUME OwnedInv, NEW i \in CallIds, IsFresh(i)
    PROVE  /\ calls[i] = NoCall /\ conn[i] = "none" /\ sub[i] = "none"
           /\ \A j \in CallIds : IsUsed(j) <=> j < i
           /\ reservations \subseteq 1 .. i - 1 /\ i \notin reservations
           /\ connectionIntent # None => connectionIntent \in CallIds /\ connectionIntent < i
<1>1. Base /\ TypeOK /\ EngineInv /\ CallFits(i) /\ connectionIntent \in CallIds \cup {None}
  BY DEF OwnedInv, Base, CallsFit, TypeOK
<1>2. calls[i].kind = "none" /\ \A j \in 1 .. i - 1 : calls[j].kind # "none"
  BY DEF IsFresh
<1>3. calls[i] = NoCall
  BY <1>1, <1>2 DEF CallFits
<1>4. conn[i] = "none" /\ sub[i] = "none"
  BY <1>1, <1>2 DEF EngineInv, ResourcesFit
<1>5. \A j \in CallIds : IsUsed(j) <=> j < i
  <2> SUFFICES ASSUME NEW j \in CallIds
               PROVE  IsUsed(j) <=> j < i
    OBVIOUS
  <2>1. i \in Nat /\ j \in Nat /\ 1 <= j
    BY CallIdsAreNumbers DEF CallIds
  <2>2. CASE j < i
    BY <1>2, <2>1, <2>2 DEF IsUsed
  <2>3. CASE j = i
    BY <1>2, <2>1, <2>3 DEF IsUsed
  <2>4. CASE i < j
    BY <1>1, <1>2, <2>1, <2>4 DEF IsUsed, Base, InOrder
  <2>. QED
    BY <2>1, <2>2, <2>3, <2>4
<1>6. \A j \in reservations : j \in CallIds /\ IsUsed(j)
  BY <1>1 DEF OwnedInv, ReleasesAreCovered, IsUsed, TypeOK
<1>7. connectionIntent # None => connectionIntent \in CallIds /\ IsUsed(connectionIntent)
  BY <1>1 DEF Base, IntentsAreNewest, IsSetup, IsUsed
<1>. QED
  BY <1>3, <1>4, <1>5, <1>6, <1>7, CallIdsAreNumbers DEF CallIds

\* A call takes its place after all others, revoking what they open.
LEMMA Admits ==
    ASSUME OwnedInv, NEW i \in CallIds, ~Closing, IsFresh(i), NEW k \in Call,
           calls' = [calls EXCEPT ![i] = k],
           k.kind \in {"connect", "disconnect", "start", "stop"}, k.phase = "scheduled",
           k.waits = {}, k.cleans = {}, k.kept = {}, k.cleanup = "none",
           k.prior \in {{}, reservations}, k.kind \in {"start", "stop"} => k.prior = {},
           Shrinks, \A j \in CallIds : conn[j] = "open" => conn'[j] = "open",
           \A j \in CallIds : sub'[j] # "opening",
           subscriptionIntent' = i, shutdown' = shutdown,
           k.kind \in {"connect", "disconnect"} =>
               /\ connectionIntent' = i /\ connection' \in {"connecting", "disconnecting"}
               /\ \A j \in CallIds : conn'[j] # "opening",
           k.kind \in {"start", "stop"} => connectionIntent' = connectionIntent /\ connection' = connection,
           k.kind = "start" =>
               /\ connection = "connected" /\ k.on = connectionIntent
               /\ subscription' = "loading" /\ subscribed',
           k.kind # "start" => subscribed' = subscribed,
           ~subscribed' => subscription' = "idle", subscription' # "streaming",
           disconnectPromise' \in CallIds \cup {None}, stopPromise' \in CallIds \cup {None},
           SnapshotTyped', cleanupFailed' = cleanupFailed,
           reservations' = IF k.kind = "connect" THEN reservations \cup {i} ELSE reservations
    PROVE  OwnedInv'
<1>1. /\ TypeOK /\ Base /\ EngineInv /\ ReleasesAreCovered /\ IdleFits /\ ConnectionIsKnown
      /\ connectionIntent \in CallIds \cup {None} /\ i # None /\ CallIds \subseteq Nat
  BY CallIdsAreNumbers DEF OwnedInv, Base, TypeOK
<1>2. /\ calls[i] = NoCall /\ conn[i] = "none" /\ sub[i] = "none"
      /\ \A j \in CallIds : IsUsed(j) <=> j < i
      /\ reservations \subseteq 1 .. i - 1 /\ i \notin reservations
      /\ connectionIntent # None => connectionIntent \in CallIds /\ connectionIntent < i
  BY FreshIsNext
<1>3. /\ calls' \in [CallIds -> Call] /\ calls'[i] = k
      /\ \A j \in CallIds \ {i} : calls'[j] = calls[j]
      /\ calls[i].kind = "none" /\ calls[i].phase = "unused" /\ IsUsed(i)'
  BY <1>1, <1>2 DEF TypeOK, NoCall, IsUsed
<1>4. \A j \in CallIds : IsUsed(j)' <=> j <= i
  <2> SUFFICES ASSUME NEW j \in CallIds
               PROVE  IsUsed(j)' <=> j <= i
    OBVIOUS
  <2>1. i \in Nat /\ j \in Nat
    BY <1>1
  <2>2. CASE j = i
    BY <1>3, <2>1, <2>2
  <2>3. CASE j # i
    BY <1>2, <1>3, <2>1, <2>3 DEF IsUsed
  <2>. QED
    BY <2>2, <2>3
<1>5. (~Closing)' /\ i \in Scheduled' /\ Scheduled \subseteq Scheduled'
  BY <1>3 DEF Closing, Scheduled
<1>6. Base'
  <2>1. TypeOK'
    <3>1. /\ connectionIntent' \in CallIds \cup {None} /\ subscriptionIntent' \in CallIds \cup {None}
          /\ shutdown' \in {"none", "scheduled", "running", "ok", "failed"}
          /\ reservations' \subseteq CallIds /\ cleanupFailed' \in BOOLEAN
      BY <1>1 DEF TypeOK
    <3>. QED
      BY <1>1, <1>3, <3>1, TypesMove DEF Shrinks
  <2>2. CallsFit'
    <3>1. \A j \in CallIds \ {i} : CallFits(j)'
      BY <1>1, <1>3 DEF Base, CallsFit, CallFits
    <3>2. CallFits(i)'
      BY <1>2, <1>3 DEF CallFits
    <3>. QED
      BY <3>1, <3>2 DEF CallsFit
  <2>3. InOrder'
    <3> SUFFICES ASSUME NEW j \in CallIds, NEW h \in CallIds, j < h, IsUsed(h)'
                 PROVE  IsUsed(j)' /\ (calls'[j].phase = "scheduled" => calls'[h].phase = "scheduled")
      BY DEF InOrder
    <3>1. j \in Nat /\ h \in Nat /\ i \in Nat /\ h <= i /\ j < i
      BY <1>1, <1>4
    <3>2. CASE h = i
      BY <1>3, <1>4, <3>1, <3>2
    <3>3. CASE h # i
      <4>1. h < i /\ IsUsed(h) /\ calls'[h] = calls[h] /\ calls'[j] = calls[j]
        BY <1>2, <1>3, <3>1, <3>3
      <4>. QED
        BY <1>1, <1>4, <3>1, <4>1 DEF Base, InOrder
    <3>. QED
      BY <3>2, <3>3
  <2>4. IntentsAreNewest'
    <3>1. connectionIntent' # None => IsSetup(connectionIntent)'
      BY <1>1, <1>2, <1>3 DEF Base, IntentsAreNewest, IsSetup
    <3>2. \A j \in CallIds : IsSetup(j)' => j <= connectionIntent'
      <4> SUFFICES ASSUME NEW j \in CallIds, IsSetup(j)'
                   PROVE  j <= connectionIntent'
        OBVIOUS
      <4>1. IsUsed(j)'
        BY DEF IsSetup, IsUsed
      <4>2. CASE k.kind \in {"connect", "disconnect"}
        BY <1>4, <4>1, <4>2
      <4>3. CASE k.kind \in {"start", "stop"}
        <5>1. j # i
          BY <1>3, <4>3 DEF IsSetup
        <5>2. IsSetup(j)
          BY <1>3, <5>1 DEF IsSetup
        <5>. QED
          BY <1>1, <4>3, <5>2 DEF Base, IntentsAreNewest
      <4>. QED
        BY <4>2, <4>3
    <3>. QED
      BY <1>1, <1>3, <1>4, <1>5, <3>1, <3>2 DEF IntentsAreNewest
  <2>. QED
    BY <2>1, <2>2, <2>3, <2>4 DEF Base
<1>7. \A j \in CallIds : /\ HasOpened(j) => j # i /\ HasOpened(j)'
                         /\ j # i => calls'[j].kind = calls[j].kind
  BY <1>3 DEF HasOpened
<1>8. EngineInv'
  <2>1. ResourcesFit'
    <3> SUFFICES ASSUME NEW j \in CallIds
                 PROVE  /\ conn'[j] # "none" => calls'[j].kind = "connect" /\ HasOpened(j)'
                        /\ sub'[j] # "none" => calls'[j].kind = "start" /\ HasOpened(j)'
                        /\ conn'[j] = "open" => calls'[j].phase \in {"opened", "settled"}
                        /\ sub'[j] = "open" => calls'[j].phase \in {"opened", "settled"}
                        /\ conn'[j] = "opening" => j = connectionIntent'
                        /\ sub'[j] = "opening" => j = subscriptionIntent'
      BY DEF ResourcesFit
    <3>1. CASE j = i
      BY <1>1, <1>2, <3>1, NothingAppears
    <3>2. CASE j # i
      BY <1>1, <1>3, <1>7, <3>2, NothingAppears DEF EngineInv, ResourcesFit
    <3>. QED
      BY <3>1, <3>2
  <2>2. OpenIsCurrent'
    <3> SUFFICES ASSUME NEW j \in CallIds
                 PROVE  /\ conn'[j] = "open" =>
                             \/ j = connectionIntent' \/ connectionIntent' \in Scheduled' \/ shutdown' = "scheduled"
                        /\ sub'[j] = "open" =>
                             \/ j = subscriptionIntent' \/ subscriptionIntent' \in Scheduled' \/ shutdown' = "scheduled"
      BY DEF OpenIsCurrent
    <3>. QED
      BY <1>1, <1>5, NothingAppears DEF EngineInv, OpenIsCurrent
  <2>3. WaitsAreRetired'
    <3>1. \A j \in CallIds : IsRetired(j) => IsRetired(j)'
      BY <1>1, <1>7, NothingAppears DEF IsRetired
    <3> SUFFICES ASSUME NEW h \in CallIds, NEW j \in calls'[h].waits \cup calls'[h].cleans
                 PROVE  IsRetired(j)'
      BY DEF WaitsAreRetired
    <3>2. h # i /\ j \in calls[h].waits \cup calls[h].cleans
      BY <1>3
    <3>. QED
      BY <1>1, <3>1, <3>2, WaitsAreCalls DEF EngineInv, WaitsAreRetired
  <2>. QED
    BY <2>1, <2>2, <2>3 DEF EngineInv
<1>9. ReleasesAreCovered'
  <2>1. ASSUME NEW j \in CallIds
        PROVE  /\ calls'[j].phase = "clearing" => Covers(calls[j].waits, calls[j].prior)'
               /\ calls'[j].phase = "recovering" => Covers(calls[j].waits, calls[j].prior \cup {j})'
               /\ calls'[j].phase = "awaiting" => Covers({}, calls[j].prior)'
               /\ calls'[j].cleanup = "pending" => Covers(calls[j].cleans, calls[j].kept)'
    <3>1. CASE j = i
      BY <1>3, <3>1
    <3>2. CASE j # i
      BY <1>1, <1>3, <3>2, CoversStay
    <3>. QED
      BY <3>1, <3>2
  <2>2. ProfileStaysReserved'
    <3> SUFFICES ASSUME NEW j \in CallIds, conn'[j] \in InUse PROVE j \in reservations'
      BY DEF ProfileStaysReserved, Live, InUse
    <3>. QED
      BY <1>1, NothingAppears DEF ReleasesAreCovered, ProfileStaysReserved, Live, InUse
  <2>3. \A j \in reservations' : calls'[j].kind = "connect"
    BY <1>1, <1>2, <1>3, <1>7 DEF ReleasesAreCovered, TypeOK
  <2>4. \A j \in CallIds :
          connectionIntent' = j /\ calls'[j].kind = "connect" /\ ~HasOpened(j)' => j \in reservations'
    <3>1. CASE k.kind \in {"connect", "disconnect"}
      BY <1>3, <3>1
    <3>2. CASE k.kind \in {"start", "stop"}
      BY <1>1, <1>2, <1>3, <3>2 DEF ReleasesAreCovered, HasOpened
    <3>. QED
      BY <3>1, <3>2
  <2>. QED
    BY <2>1, <2>2, <2>3, <2>4 DEF ReleasesAreCovered
<1>10. Owned' \subseteq Owned /\ OwnedSubscriptions' \subseteq OwnedSubscriptions
  BY <1>1, OwnedShrinks
<1>11. ConnectionIsKnown'
  <2>1. CASE k.kind \in {"connect", "disconnect"}
    <3>1. connectionIntent' = i /\ connection' \notin {"connected", "disconnected"}
      BY <2>1
    <3>. QED
      BY <1>1, <1>3, <3>1 DEF ConnectionIsKnown
  <2>2. CASE k.kind \in {"start", "stop"}
    <3>1. /\ connectionIntent' = connectionIntent /\ connection' = connection
          /\ subscriptionIntent' # connectionIntent
          /\ connectionIntent # None => calls'[connectionIntent] = calls[connectionIntent]
      BY <1>1, <1>2, <1>3, <2>2
    <3>2. \A j \in CallIds : conn'[j] \in InUse => conn[j] \in InUse
      BY <1>1, NothingAppears
    <3>3. CASE connectionIntent = None
      BY <1>1, <1>10, <3>1, <3>3 DEF ConnectionIsKnown
    <3>4. CASE connectionIntent # None
      BY <1>1, <1>10, <3>1, <3>2, <3>4 DEF ConnectionIsKnown
    <3>. QED
      BY <3>3, <3>4
  <2>. QED
    BY <2>1, <2>2
<1>12. SubscriptionIsKnown'
  <2>1. calls'[subscriptionIntent'] = k /\ sub'[i] = "none"
    BY <1>1, <1>2, <1>3, NothingAppears DEF Shrinks, Fades
  <2>. QED
    BY <2>1 DEF SubscriptionIsKnown
<1>13. StreamingFits'
  BY DEF StreamingFits
<1>14. IdleFits'
  <2>1. ASSUME ~subscribed', NEW j \in CallIds PROVE calls'[j].kind # "start"
    BY <1>1, <1>3, <2>1 DEF IdleFits
  <2>2. ASSUME NEW j \in CallIds, calls'[j].kind = "stop", NEW h \in calls'[j].waits
        PROVE  calls'[h].kind = "start"
    <3>1. j # i /\ h \in CallIds /\ calls[h].kind = "start"
      BY <1>1, <1>3, <2>2, WaitsAreCalls DEF IdleFits
    <3>. QED
      BY <1>3, <3>1
  <2>. QED
    BY <2>1, <2>2 DEF IdleFits
<1>15. ShutdownIsComplete'
  BY <1>5 DEF ShutdownIsComplete, Closing
<1>. QED
  BY <1>6, <1>8, <1>9, <1>11, <1>12, <1>13, <1>14, <1>15 DEF OwnedInv

LEMMA ConnectKeeps ==
    ASSUME OwnedInv, NEW i \in CallIds, Connect(i)
    PROVE  OwnedInv'
<1> DEFINE k == [NoCall EXCEPT !.kind = "connect", !.phase = "scheduled", !.prior = reservations]
<1>1. TypeOK /\ SnapshotTyped /\ IdleFits /\ reservations \in SUBSET CallIds
  BY SnapshotIsTyped DEF OwnedInv, Base, TypeOK
<1>2. /\ k \in Call /\ k.kind = "connect" /\ k.phase = "scheduled" /\ k.waits = {} /\ k.cleans = {}
      /\ k.kept = {} /\ k.cleanup = "none" /\ k.prior = reservations
  BY <1>1, NoCallTyped DEF Call, NoCall, Phases, Kinds
<1>3. calls' = [calls EXCEPT ![i] = k]
  BY DEF Connect
<1>. HIDE DEF k
<1>4. /\ ~Closing /\ IsFresh(i) /\ connectionIntent' = i /\ subscriptionIntent' = i
      /\ disconnectPromise' = None /\ stopPromise' = None /\ connection' = "connecting"
      /\ subscription' = Revoked /\ revisions' = [c |-> revisions.c + 1, s |-> RevokedRevision]
      /\ Show(revisions.c + 1, RevokedShown) /\ reservations' = reservations \cup {i}
      /\ AbortConnection /\ AbortSubscription /\ shutdown' = shutdown
      /\ subscribed' = subscribed /\ cleanupFailed' = cleanupFailed
  BY DEF Connect
<1>5. /\ Shrinks /\ \A j \in CallIds : conn[j] = "open" => conn'[j] = "open"
      /\ \A j \in CallIds : sub'[j] # "opening" /\ conn'[j] # "opening"
  BY <1>1, <1>4, AbortShrinks
<1>6. SnapshotTyped'
  <2>1. revisions.c + 1 \in Nat /\ RevokedShown \in Nat /\ RevokedRevision \in Nat
    BY <1>1, RevokedFits DEF SnapshotTyped, Revisions
  <2>2. revisions' \in Revisions /\ connection' \in ConnectionStates /\ subscribed' \in BOOLEAN
    BY <1>1, <1>4, <2>1 DEF Revisions, ConnectionStates, SnapshotTyped
  <2>. QED
    BY <1>1, <1>4, <2>1, <2>2, RevokedFits, ShowTyped
<1>7. (~subscribed' => subscription' = "idle") /\ subscription' # "streaming"
  BY <1>1, <1>4, RevokedFits
<1>. QED
  BY <1>2, <1>3, <1>4, <1>5, <1>6, <1>7, Admits

LEMMA DisconnectKeeps ==
    ASSUME OwnedInv, NEW i \in CallIds, Disconnect(i)
    PROVE  OwnedInv'
<1> DEFINE pending == PendingSetup("connect") \cup PendingSetup("start")
<1> DEFINE k == [NoCall EXCEPT !.kind = "disconnect", !.phase = "scheduled", !.prior = reservations,
                               !.reserved = revisions', !.pending = pending]
<1>1. TypeOK /\ SnapshotTyped /\ IdleFits /\ reservations \in SUBSET CallIds /\ pending \in SUBSET CallIds
  BY SnapshotIsTyped DEF OwnedInv, Base, TypeOK, PendingSetup
<1>2. /\ ~Closing /\ IsFresh(i) /\ connectionIntent' = i /\ subscriptionIntent' = i
      /\ disconnectPromise' = i /\ stopPromise' = None /\ connection' = "disconnecting"
      /\ subscription' = Revoked /\ revisions' = [c |-> revisions.c + 2, s |-> RevokedRevision + 1]
      /\ Show(revisions.c + 1, RevokedShown) /\ reservations' = reservations
      /\ AbortConnection /\ AbortSubscription /\ shutdown' = shutdown
      /\ subscribed' = subscribed /\ cleanupFailed' = cleanupFailed
  BY DEF Disconnect
<1>3. revisions.c + 1 \in Nat /\ RevokedShown \in Nat /\ RevokedRevision \in Nat /\ revisions' \in Revisions
  <2>1. revisions.c \in Nat /\ RevokedShown \in Nat /\ RevokedRevision \in Nat
    BY <1>1, RevokedFits DEF SnapshotTyped, Revisions
  <2>. QED
    BY <1>2, <2>1 DEF Revisions
<1>4. calls' = [calls EXCEPT ![i] = k]
  BY DEF Disconnect
<1>. HIDE DEF pending
<1>5. /\ k \in Call /\ k.kind = "disconnect" /\ k.phase = "scheduled" /\ k.waits = {} /\ k.cleans = {}
      /\ k.kept = {} /\ k.cleanup = "none" /\ k.prior = reservations
  BY <1>1, <1>3, NoCallTyped DEF Call, NoCall, Phases, Kinds
<1>. HIDE DEF k
<1>6. /\ Shrinks /\ \A j \in CallIds : conn[j] = "open" => conn'[j] = "open"
      /\ \A j \in CallIds : sub'[j] # "opening" /\ conn'[j] # "opening"
  BY <1>1, <1>2, AbortShrinks
<1>7. SnapshotTyped'
  <2>1. connection' \in ConnectionStates /\ subscribed' \in BOOLEAN
    BY <1>1, <1>2 DEF ConnectionStates, SnapshotTyped
  <2>. QED
    BY <1>1, <1>2, <1>3, <2>1, RevokedFits, ShowTyped
<1>8. (~subscribed' => subscription' = "idle") /\ subscription' # "streaming"
  BY <1>1, <1>2, RevokedFits
<1>. QED
  BY <1>2, <1>4, <1>5, <1>6, <1>7, <1>8, Admits

LEMMA StartKeeps ==
    ASSUME OwnedInv, NEW i \in CallIds, Start(i)
    PROVE  OwnedInv'
<1> DEFINE k == [NoCall EXCEPT !.kind = "start", !.phase = "scheduled", !.on = connectionIntent]
<1>1. TypeOK /\ SnapshotTyped /\ connectionIntent \in CallIds \cup {None}
  BY SnapshotIsTyped DEF OwnedInv, Base, TypeOK
<1>2. /\ k \in Call /\ k.kind = "start" /\ k.phase = "scheduled" /\ k.waits = {} /\ k.cleans = {}
      /\ k.kept = {} /\ k.cleanup = "none" /\ k.prior = {} /\ k.on = connectionIntent
  BY <1>1, NoCallTyped DEF Call, NoCall, Phases, Kinds
<1>3. calls' = [calls EXCEPT ![i] = k]
  BY DEF Start
<1>. HIDE DEF k
<1>4. /\ ~Closing /\ IsFresh(i) /\ connection = "connected" /\ subscriptionIntent' = i
      /\ stopPromise' = None /\ subscription' = "loading" /\ subscribed' = TRUE
      /\ revisions' = [revisions EXCEPT !.s = @ + 1] /\ AbortSubscription /\ conn' = conn
      /\ connectionIntent' = connectionIntent /\ disconnectPromise' = disconnectPromise
      /\ shutdown' = shutdown /\ connection' = connection /\ reservations' = reservations
      /\ cleanupFailed' = cleanupFailed /\ Show(shown.c, revisions'.s)
  BY DEF Start
<1>5. /\ Shrinks /\ \A j \in CallIds : conn[j] = "open" => conn'[j] = "open"
      /\ \A j \in CallIds : sub'[j] # "opening"
  BY <1>1, <1>4, AbortShrinks
<1>6. SnapshotTyped'
  <2>1. revisions' \in Revisions /\ shown.c \in Nat /\ revisions'.s \in Nat
    BY <1>1, <1>4 DEF SnapshotTyped, Revisions
  <2>2. connection' \in ConnectionStates /\ subscription' \in SubscriptionStates /\ subscribed' \in BOOLEAN
    BY <1>1, <1>4 DEF SnapshotTyped, SubscriptionStates
  <2>. QED
    BY <1>1, <1>4, <2>1, <2>2, ShowTyped
<1>7. disconnectPromise' \in CallIds \cup {None} /\ stopPromise' \in CallIds \cup {None}
  BY <1>1, <1>4 DEF TypeOK
<1>. QED
  BY <1>2, <1>3, <1>4, <1>5, <1>6, <1>7, Admits

LEMMA StopKeeps ==
    ASSUME OwnedInv, NEW i \in CallIds, Stop(i)
    PROVE  OwnedInv'
<1> DEFINE pending == PendingSetup("start")
<1> DEFINE k == [NoCall EXCEPT !.kind = "stop", !.phase = "scheduled",
                               !.reserved = revisions', !.pending = pending]
<1>1. TypeOK /\ SnapshotTyped /\ IdleFits /\ pending \in SUBSET CallIds
  BY SnapshotIsTyped DEF OwnedInv, Base, PendingSetup
<1>2. /\ ~Closing /\ IsFresh(i) /\ subscriptionIntent' = i
      /\ stopPromise' = i /\ subscription' = (IF subscribed THEN "stopping" ELSE "idle")
      /\ revisions' = [revisions EXCEPT !.s = @ + 2] /\ AbortSubscription /\ conn' = conn
      /\ connectionIntent' = connectionIntent /\ disconnectPromise' = disconnectPromise
      /\ shutdown' = shutdown /\ connection' = connection /\ reservations' = reservations
      /\ subscribed' = subscribed /\ cleanupFailed' = cleanupFailed /\ Show(shown.c, revisions.s + 1)
  BY DEF Stop
<1>3. revisions' \in Revisions /\ shown.c \in Nat /\ revisions.s + 1 \in Nat
  BY <1>1, <1>2 DEF SnapshotTyped, Revisions
<1>4. calls' = [calls EXCEPT ![i] = k]
  BY DEF Stop
<1>. HIDE DEF pending
<1>5. /\ k \in Call /\ k.kind = "stop" /\ k.phase = "scheduled" /\ k.waits = {} /\ k.cleans = {}
      /\ k.kept = {} /\ k.cleanup = "none" /\ k.prior = {}
  BY <1>1, <1>3, NoCallTyped DEF Call, NoCall, Phases, Kinds
<1>. HIDE DEF k
<1>6. /\ Shrinks /\ \A j \in CallIds : conn[j] = "open" => conn'[j] = "open"
      /\ \A j \in CallIds : sub'[j] # "opening"
  BY <1>1, <1>2, AbortShrinks
<1>7. SnapshotTyped'
  <2>1. connection' \in ConnectionStates /\ subscription' \in SubscriptionStates /\ subscribed' \in BOOLEAN
    BY <1>1, <1>2 DEF SnapshotTyped, SubscriptionStates
  <2>. QED
    BY <1>1, <1>2, <1>3, <2>1, ShowTyped
<1>8. (~subscribed' => subscription' = "idle") /\ subscription' # "streaming"
  BY <1>2
<1>9. disconnectPromise' \in CallIds \cup {None} /\ stopPromise' \in CallIds \cup {None}
  BY <1>1, <1>2 DEF TypeOK
<1>. QED
  BY <1>2, <1>4, <1>5, <1>6, <1>7, <1>8, <1>9, Admits

---------------------------------------------------------------------------
(* The invariant.                                                          *)

LEMMA OwnedInvInit ==
    ASSUME Init
    PROVE  OwnedInv
<1>1. /\ calls = [i \in CallIds |-> NoCall] /\ connectionIntent = None /\ subscriptionIntent = None
      /\ disconnectPromise = None /\ stopPromise = None /\ shutdown = "none"
      /\ connection = "disconnected" /\ subscription = "idle" /\ subscribed = FALSE
      /\ revisions = [c |-> 0, s |-> 0] /\ shown = revisions
      /\ viewed = [revision |-> revisions, connection |-> connection, subscription |-> subscription]
      /\ reservations = {} /\ cleanupFailed = FALSE
      /\ conn = [i \in CallIds |-> "none"] /\ sub = [i \in CallIds |-> "none"]
  BY DEF Init
<1>2. ~Closing /\ None \notin CallIds
  BY <1>1, CallIdsAreNumbers DEF Closing
<1>3. /\ NoCall \in Call /\ NoCall.kind = "none" /\ NoCall.phase = "unused" /\ NoCall.cleanup = "none"
      /\ NoCall.prior = {} /\ NoCall.kept = {} /\ NoCall.waits = {} /\ NoCall.cleans = {}
  BY NoCallTyped DEF NoCall
<1>4. \A i \in CallIds : calls[i] = NoCall /\ conn[i] = "none" /\ sub[i] = "none"
  BY <1>1
<1>5. TypeOK
  <2>1. /\ revisions \in Revisions /\ shown \in Revisions
        /\ connection \in ConnectionStates /\ subscription \in SubscriptionStates
    BY <1>1 DEF Revisions, ConnectionStates, SubscriptionStates
  <2>2. viewed \in [revision : Revisions, connection : ConnectionStates, subscription : SubscriptionStates]
    BY <1>1, <2>1
  <2>3. calls \in [CallIds -> Call] /\ conn \in [CallIds -> Resources] /\ sub \in [CallIds -> Resources]
    BY <1>1, <1>3 DEF Resources
  <2>. QED
    BY <1>1, <2>1, <2>2, <2>3 DEF TypeOK
<1>6. Base
  BY <1>1, <1>2, <1>3, <1>4, <1>5
  DEF Base, CallsFit, CallFits, InOrder, IntentsAreNewest, IsUsed, IsSetup, Scheduled
<1>7. EngineInv /\ ReleasesAreCovered
  BY <1>1, <1>3, <1>4
  DEF EngineInv, ResourcesFit, OpenIsCurrent, WaitsAreRetired, ReleasesAreCovered, ProfileStaysReserved, Live
<1>8. Owned = {} /\ OwnedSubscriptions = {}
  BY <1>4 DEF Owned, OwnedSubscriptions, InUse
<1>9. ConnectionIsKnown /\ SubscriptionIsKnown /\ IdleFits /\ StreamingFits /\ ShutdownIsComplete
  BY <1>1, <1>3, <1>4, <1>8
  DEF ConnectionIsKnown, SubscriptionIsKnown, IdleFits, StreamingFits, ShutdownIsComplete
<1>. QED
  BY <1>6, <1>7, <1>9 DEF OwnedInv

LEMMA OwnedInvStutters ==
    ASSUME OwnedInv, UNCHANGED vars
    PROVE  OwnedInv'
<1>. USE DEF vars, intentVars, snapshotVars, engineVars
<1>1. Owned' = Owned /\ OwnedSubscriptions' = OwnedSubscriptions /\ (Closing' <=> Closing) /\ Scheduled' = Scheduled
  BY DEF Owned, OwnedSubscriptions, Closing, Scheduled
<1>2. Base'
  BY <1>1 DEF OwnedInv, Base, TypeOK, CallsFit, CallFits, InOrder, IntentsAreNewest, IsUsed, IsSetup
<1>3. EngineInv' /\ ReleasesAreCovered'
  BY <1>1 DEF OwnedInv, EngineInv, ResourcesFit, OpenIsCurrent, WaitsAreRetired, IsRetired, HasOpened,
              ReleasesAreCovered, Covers, ProfileStaysReserved
<1>4. ConnectionIsKnown' /\ SubscriptionIsKnown'
  BY <1>1 DEF OwnedInv, ConnectionIsKnown, SubscriptionIsKnown
<1>5. IdleFits' /\ StreamingFits' /\ ShutdownIsComplete'
  BY <1>1 DEF OwnedInv, IdleFits, StreamingFits, ShutdownIsComplete, Busy
<1>. QED
  BY <1>2, <1>3, <1>4, <1>5 DEF OwnedInv

LEMMA OwnedInvContinues ==
    ASSUME OwnedInv, MicrotasksRun, NEW i \in CallIds,
           Continue(i) \/ EngineLoses(i) \/ SubscriptionFails(i)
    PROVE  OwnedInv'
<1>1. CASE Continue(i)
  <2>1. CASE \/ ProfileResolves(i) \/ ProfileFails(i)
             \/ EngineConnects(i) \/ EngineRefuses(i) \/ ConnectOpened(i)
             \/ EngineSubscribes(i) \/ StartRefused(i) \/ StartOpened(i)
             \/ StopFinishes(i) \/ DisconnectFinishes(i)
    BY <2>1, ProfileResolvesKeeps, RefusalsKeep, EngineConnectsKeeps, ConnectOpenedKeeps,
       EngineSubscribesKeeps, StartRefusedKeeps, StartOpenedKeeps, StopFinishesKeeps,
       DisconnectFinishesKeeps
  <2>2. ASSUME NEW failed \in BOOLEAN,
               \/ ConnectCleared(i, failed) \/ ConnectRecovers(i, failed)
               \/ StartCleared(i, failed) \/ StopCleared(i, failed)
               \/ DisconnectCleared(i, failed)
               \/ LossCleaned(i, failed) \/ SubscriptionCleaned(i, failed)
        PROVE  OwnedInv'
    BY <2>2, ConnectClearedKeeps, ConnectRecoversKeeps, StartClearedKeeps, StopClearedKeeps,
       DisconnectClearedKeeps, LossCleanedKeeps, SubscriptionCleanedKeeps
  <2>. QED
    BY <1>1, <2>1, <2>2 DEF Continue
<1>2. CASE EngineLoses(i)
  BY <1>2, EngineLosesKeeps
<1>3. CASE SubscriptionFails(i)
  BY <1>3, SubscriptionFailsKeeps
<1>. QED
  BY <1>1, <1>2, <1>3

LEMMA OwnedInvNext ==
    ASSUME OwnedInv, [Next]_vars
    PROVE  OwnedInv'
<1>1. ASSUME NEW i \in CallIds, Called(i) PROVE OwnedInv'
  BY <1>1, ConnectKeeps, DisconnectKeeps, StartKeeps, StopKeeps DEF Called
<1>2. CASE Shutdown
  BY <1>2, ShutdownKeeps
<1>3. CASE RunNext
  <2>1. ASSUME NEW i \in Scheduled, \A j \in Scheduled : i <= j,
               RunConnect(i) \/ RunStart(i) \/ RunStop(i) \/ RunDisconnect(i)
        PROVE  OwnedInv'
    <3>1. i \in CallIds
      BY DEF Scheduled
    <3>. QED
      BY <2>1, <3>1, RunConnectKeeps, RunStartAndStopKeep, RunDisconnectKeeps
  <2>2. CASE RunShutdown
    BY <2>2, RunShutdownKeeps
  <2>. QED
    BY <1>3, <2>1, <2>2 DEF RunNext
<1>4. ASSUME MicrotasksRun, NEW i \in CallIds, Continue(i) \/ EngineLoses(i) \/ SubscriptionFails(i)
      PROVE  OwnedInv'
  BY <1>4, OwnedInvContinues
<1>5. ASSUME NEW failed \in BOOLEAN, ShutdownFinishes(failed) PROVE OwnedInv'
  BY <1>5, ShutdownFinishesKeeps
<1>6. CASE UNCHANGED vars
  BY <1>6, OwnedInvStutters
<1>. QED
  BY <1>1, <1>2, <1>3, <1>4, <1>5, <1>6 DEF Next

\* The newest calls of the session know what the engine owns, whatever
\* superseded calls, failures and cleanups are still under way.
THEOREM OwnedInvariant == Spec => []OwnedInv
<1>1. Init => OwnedInv
  BY OwnedInvInit
<1>2. OwnedInv /\ [Next]_vars => OwnedInv'
  BY OwnedInvNext
<1>. QED
  BY <1>1, <1>2, PTL DEF Spec

\* What the snapshots show and a shutdown reports is what the engine owns.
THEOREM SnapshotsShowWhatIsOwned == Spec => []ShownIsOwned
<1>1. OwnedInv => ShownIsOwned
  <2> SUFFICES ASSUME OwnedInv PROVE ShownIsOwned
    OBVIOUS
  <2>1. /\ connectionIntent \in CallIds \cup {None} /\ subscriptionIntent \in CallIds \cup {None}
        /\ Live = InUse
    BY DEF OwnedInv, Base, TypeOK, Live, InUse
  <2>2. ConnectedIsExclusive
    BY <2>1 DEF OwnedInv, ConnectionIsKnown, ConnectedIsExclusive
  <2>3. StreamingIsExclusive
    <3> SUFFICES ASSUME ~Closing, subscription = "streaming" PROVE StreamingIsExclusive
      BY DEF StreamingIsExclusive
    <3>1. /\ subscriptionIntent # None /\ calls[subscriptionIntent].kind = "start"
          /\ sub[subscriptionIntent] = "open" /\ OwnedSubscriptions = {subscriptionIntent}
      BY DEF OwnedInv, StreamingFits
    <3>2. connection = "connected"
      BY <3>1 DEF OwnedInv, SubscriptionIsKnown
    <3>. QED
      BY <2>1, <3>1, <3>2 DEF StreamingIsExclusive, OwnedSubscriptions
  <2>4. DisconnectedIsClean
    BY <2>1 DEF OwnedInv, ConnectionIsKnown, DisconnectedIsClean, Owned
  <2>5. ShutdownIsComplete
    BY DEF OwnedInv
  <2>. QED
    BY <2>2, <2>3, <2>4, <2>5 DEF ShownIsOwned
<1>. QED
  BY <1>1, OwnedInvariant, PTL

---------------------------------------------------------------------------
(* Where the newest call has a subscription intent.                        *)

CleanupsStay == \A j \in CallIds : calls'[j].cleanup = "none" => calls[j].cleanup = "none"

LEMMA MovesAreClean ==
    ASSUME TypeOK, NEW i \in CallIds, NEW failed \in BOOLEAN,
           \/ ConnectCleared(i, failed) \/ ConnectRecovers(i, failed)
           \/ StartCleared(i, failed) \/ StopCleared(i, failed)
           \/ DisconnectCleared(i, failed)
           \/ LossCleaned(i, failed) \/ SubscriptionCleaned(i, failed)
    PROVE  CleanupsStay /\ UNCHANGED intentVars
<1>1. UNCHANGED intentVars
  BY DEF ConnectCleared, ConnectRecovers, StartCleared, StopCleared, DisconnectCleared,
         LossCleaned, SubscriptionCleaned
<1>2. ASSUME NEW p \in Phases, Goto(i, p) PROVE CleanupsStay
  BY <1>2, GotoMoves DEF Moves, Alone, KeepsCleanup, CleanupsStay
<1>3. ASSUME Settle(i) PROVE CleanupsStay
  BY <1>3, SettleMoves DEF Moves, Alone, KeepsCleanup, CleanupsStay
<1>4. CASE ConnectCleared(i, failed) \/ ConnectRecovers(i, failed) \/ StartCleared(i, failed)
           \/ StopCleared(i, failed) \/ DisconnectCleared(i, failed)
  <2>1. Settle(i) \/ \E p \in Phases : Goto(i, p)
    BY <1>4 DEF ConnectCleared, ConnectRecovers, StartCleared, StopCleared, DisconnectCleared,
                FailStart, Phases
  <2>. QED
    BY <1>1, <1>2, <1>3, <2>1
<1>5. CASE LossCleaned(i, failed) \/ SubscriptionCleaned(i, failed)
  <2>1. calls \in [CallIds -> Call] /\ calls[i].cleanup # "none"
    BY <1>5 DEF LossCleaned, SubscriptionCleaned, TypeOK
  <2>2. \A j \in CallIds \ {i} : calls'[j] = calls[j]
    BY <1>5, <2>1 DEF LossCleaned, SubscriptionCleaned
  <2>3. calls'[i].cleanup = "done"
    BY <1>5, <2>1, ZenonT(20) DEF LossCleaned, SubscriptionCleaned, Call
  <2>. QED
    BY <1>1, <2>1, <2>2, <2>3 DEF CleanupsStay
<1>. QED
  BY <1>4, <1>5

LEMMA AnswersAreClean ==
    ASSUME TypeOK, NEW i \in CallIds,
           \/ ProfileResolves(i) \/ ProfileFails(i)
           \/ EngineConnects(i) \/ EngineRefuses(i) \/ ConnectOpened(i)
           \/ EngineSubscribes(i) \/ StartRefused(i) \/ StartOpened(i)
           \/ StopFinishes(i) \/ DisconnectFinishes(i)
           \/ RunConnect(i) \/ RunStart(i) \/ RunStop(i) \/ RunDisconnect(i)
    PROVE  /\ CleanupsStay
           /\ UNCHANGED <<connectionIntent, subscriptionIntent, shutdown>>
<1>1. UNCHANGED <<connectionIntent, subscriptionIntent, shutdown>>
  BY DEF ProfileResolves, ProfileFails, EngineConnects, EngineRefuses, ConnectOpened,
         EngineSubscribes, StartRefused, StartOpened, StopFinishes, DisconnectFinishes,
         RunConnect, RunStart, RunStop, RunDisconnect, intentVars
<1>2. \/ Settle(i)
      \/ \E p \in Phases : Goto(i, p)
      \/ \E p \in Phases : GotoAndWait(i, p, Owned) \/ GotoAndWait(i, p, OwnedSubscriptions)
  BY DEF ProfileResolves, ProfileFails, EngineConnects, EngineRefuses, ConnectOpened,
         EngineSubscribes, StartRefused, StartOpened, StopFinishes, DisconnectFinishes,
         RunConnect, RunStart, RunStop, RunDisconnect, FailConnect, FailStart, Phases
<1>3. Owned \in SUBSET CallIds /\ OwnedSubscriptions \in SUBSET CallIds
  BY DEF Owned, OwnedSubscriptions
<1>4. Moves(i) /\ KeepsCleanup(i)
  BY <1>2, <1>3, SettleMoves, GotoMoves, WaitMoves
<1>. QED
  BY <1>1, <1>4 DEF Moves, Alone, KeepsCleanup, CleanupsStay

LEMMA SubscriptionStaysSet ==
    ASSUME OwnedInv, SubscriptionIsSet, [Next]_vars
    PROVE  SubscriptionIsSet'
<1>1. TypeOK /\ calls \in [CallIds -> Call] /\ connectionIntent \in CallIds \cup {None}
  BY DEF OwnedInv, Base, TypeOK
<1>2. ASSUME CleanupsStay, UNCHANGED <<connectionIntent, subscriptionIntent, shutdown>>
      PROVE  SubscriptionIsSet'
  BY <1>1, <1>2 DEF SubscriptionIsSet, CleanupsStay, Closing
<1>3. ASSUME UNCHANGED <<calls, connectionIntent, subscriptionIntent>>, Closing => Closing'
      PROVE  SubscriptionIsSet'
  BY <1>3 DEF SubscriptionIsSet
<1>4. ASSUME NEW i \in CallIds, Called(i) PROVE SubscriptionIsSet'
  <2>1. subscriptionIntent' = i /\ i # None
    BY <1>4, CallIdsAreNumbers DEF Called, Connect, Disconnect, Start, Stop
  <2>. QED
    BY <2>1 DEF SubscriptionIsSet
<1>5. CASE Shutdown
  BY <1>5 DEF Shutdown, SubscriptionIsSet, Closing
<1>6. CASE RunNext
  <2>1. ASSUME NEW i \in Scheduled, RunConnect(i) \/ RunStart(i) \/ RunStop(i) \/ RunDisconnect(i)
        PROVE  SubscriptionIsSet'
    <3>1. i \in CallIds
      BY DEF Scheduled
    <3>. QED
      BY <1>1, <1>2, <2>1, <3>1, AnswersAreClean
  <2>2. CASE RunShutdown
    BY <1>3, <2>2 DEF RunShutdown, Closing
  <2>. QED
    BY <1>6, <2>1, <2>2 DEF RunNext
<1>7. ASSUME NEW i \in CallIds, Continue(i) PROVE SubscriptionIsSet'
  <2>1. ASSUME NEW failed \in BOOLEAN,
               \/ ConnectCleared(i, failed) \/ ConnectRecovers(i, failed)
               \/ StartCleared(i, failed) \/ StopCleared(i, failed)
               \/ DisconnectCleared(i, failed)
               \/ LossCleaned(i, failed) \/ SubscriptionCleaned(i, failed)
        PROVE  SubscriptionIsSet'
    BY <1>1, <1>2, <2>1, MovesAreClean DEF intentVars
  <2>. QED
    BY <1>1, <1>2, <1>7, <2>1, AnswersAreClean DEF Continue
<1>8. ASSUME NEW i \in CallIds, EngineLoses(i) PROVE SubscriptionIsSet'
  <2>1. CASE OwnsConnection(i)
    <3>1. /\ connectionIntent = i /\ connectionIntent' = i
          /\ calls' = [calls EXCEPT ![i] = [@ EXCEPT !.cleanup = "pending", !.cleans = Owned,
                                                     !.kept = reservations]]
      BY <1>8, <2>1 DEF EngineLoses, OwnsConnection
    <3>2. calls'[connectionIntent'].cleanup = "pending"
      BY <1>1, <3>1 DEF Call
    <3>. QED
      BY <3>2 DEF SubscriptionIsSet
  <2>2. CASE ~OwnsConnection(i)
    BY <1>3, <1>8, <2>2 DEF EngineLoses, intentVars, Closing
  <2>. QED
    BY <2>1, <2>2
<1>9. ASSUME NEW i \in CallIds, SubscriptionFails(i) PROVE SubscriptionIsSet'
  <2>1. UNCHANGED intentVars
    BY <1>9 DEF SubscriptionFails
  <2>2. CASE UNCHANGED calls
    BY <1>3, <2>1, <2>2 DEF intentVars, Closing
  <2>3. CASE calls' = [calls EXCEPT ![i] = [@ EXCEPT !.cleanup = "pending", !.cleans = OwnedSubscriptions]]
    <3>1. calls'[i].cleanup = "pending" /\ \A j \in CallIds \ {i} : calls'[j] = calls[j]
      BY <1>1, <2>3 DEF Call
    <3>. QED
      BY <1>2, <2>1, <3>1 DEF CleanupsStay, intentVars
  <2>. QED
    BY <1>9, <2>2, <2>3 DEF SubscriptionFails
<1>10. ASSUME NEW failed \in BOOLEAN, ShutdownFinishes(failed) PROVE SubscriptionIsSet'
  BY <1>3, <1>10 DEF ShutdownFinishes, Closing
<1>11. CASE UNCHANGED vars
  BY <1>3, <1>11 DEF vars, intentVars, Closing
<1>. QED
  BY <1>4, <1>5, <1>6, <1>7, <1>8, <1>9, <1>10, <1>11 DEF Next

LEMMA SubscriptionAlwaysSet == Spec => []SubscriptionIsSet
<1>1. Init => SubscriptionIsSet
  BY DEF Init, SubscriptionIsSet
<1>2. OwnedInv /\ SubscriptionIsSet /\ [Next]_vars => SubscriptionIsSet'
  BY SubscriptionStaysSet
<1>. QED
  BY <1>1, <1>2, OwnedInvariant, PTL DEF Spec

\* What the engine may still use keeps its profile, and what it failed to
\* clean up keeps the session latched.
THEOREM CleanupStaysHeld == Spec => []CleanupIsHeld
<1>1. OwnedInv /\ SubscriptionIsSet => CleanupIsHeld
  <2> SUFFICES ASSUME OwnedInv, SubscriptionIsSet PROVE CleanupIsHeld
    OBVIOUS
  <2>1. ProfileStaysReserved
    BY DEF OwnedInv, ReleasesAreCovered
  <2>2. FailedCleanupIsLatched
    <3> SUFFICES ASSUME ~Closing, NEW j \in CallIds, "leaked" \in {conn[j], sub[j]},
                        \A i \in CallIds : ~(Busy(i) \/ calls[i].cleanup = "pending")
                 PROVE  cleanupFailed
      BY DEF FailedCleanupIsLatched
    <3>1. /\ connectionIntent \in CallIds \cup {None} /\ subscriptionIntent \in CallIds \cup {None}
          /\ TypeOK /\ Base
      BY DEF OwnedInv, Base, TypeOK
    <3>2. j \in Owned
      BY DEF Owned, InUse
    <3>3. connectionIntent # None
      BY <3>2 DEF OwnedInv, ConnectionIsKnown
    <3>4. /\ connectionIntent \in CallIds /\ IsUsed(connectionIntent)
          /\ calls[connectionIntent].phase = "settled" /\ calls[connectionIntent].cleanup # "pending"
      BY <3>1, <3>3 DEF Base, IntentsAreNewest, CallsFit, CallFits, Busy, IsUsed, IsSetup
    <3>5. CASE connection # "connected"
      BY <3>2, <3>3, <3>4, <3>5 DEF OwnedInv, ConnectionIsKnown
    <3>6. CASE connection = "connected"
      <4>1. conn[j] # "leaked" /\ sub[j] = "leaked" /\ j \in OwnedSubscriptions
        BY <3>6 DEF OwnedInv, ConnectionIsKnown, OwnedSubscriptions, InUse
      <4>2. calls[j].kind = "start" /\ IsUsed(j)
        BY <4>1 DEF OwnedInv, EngineInv, ResourcesFit, IsUsed
      <4>3. CASE subscriptionIntent = None
        <5>1. ~Closing /\ calls[connectionIntent].cleanup = "none"
          BY <3>6 DEF OwnedInv, ConnectionIsKnown
        <5>. QED
          BY <3>3, <4>3, <5>1 DEF SubscriptionIsSet
      <4>4. CASE subscriptionIntent # None
        <5>1. /\ subscriptionIntent \in CallIds /\ IsUsed(subscriptionIntent)
              /\ calls[subscriptionIntent].phase = "settled" /\ calls[subscriptionIntent].cleanup # "pending"
              /\ calls[subscriptionIntent].kind \in Kinds
          BY <3>1, <4>4 DEF Base, IntentsAreNewest, CallsFit, CallFits, Busy, IsUsed, TypeOK, Call
        <5>2. CASE calls[subscriptionIntent].kind = "start"
          BY <4>1, <4>4, <5>1, <5>2 DEF OwnedInv, SubscriptionIsKnown
        <5>3. CASE calls[subscriptionIntent].kind = "stop"
          BY <4>1, <4>4, <5>1, <5>3 DEF OwnedInv, SubscriptionIsKnown
        <5>4. CASE IsSetup(subscriptionIntent)
          <6>1. subscriptionIntent = connectionIntent
            BY <3>1, <5>1, <5>4, OwnerIsIntent
          <6>. QED
            BY <3>6, <4>1, <6>1 DEF OwnedInv, ConnectionIsKnown
        <5>. QED
          BY <5>1, <5>2, <5>3, <5>4 DEF Kinds, IsUsed, IsSetup
      <4>. QED
        BY <4>3, <4>4
    <3>. QED
      BY <3>5, <3>6
  <2>. QED
    BY <2>1, <2>2 DEF CleanupIsHeld
<1>. QED
  BY <1>1, OwnedInvariant, SubscriptionAlwaysSet, PTL


---------------------------------------------------------------------------
(* What a viewer holds.                                                    *)

\* No call becomes the pending end of something; one that was keeps its result.
EndStays(j) ==
    IsPendingEnd(j)' =>
        /\ IsPendingEnd(j)
        /\ calls'[j].reserved = calls[j].reserved /\ calls'[j].kind = calls[j].kind
EndsStay == \A j \in CallIds : EndStays(j)

LEMMA WorkKeepsEnds ==
    ASSUME TypeOK, NEW i \in CallIds, Moves(i), KeepsWork(i), calls[i].phase # "settled"
    PROVE  EndsStay
  BY DEF Moves, Alone, KeepsWork, EndsStay, EndStays, IsPendingEnd

LEMMA GotoKeepsEnds ==
    ASSUME TypeOK, NEW i \in CallIds, NEW p \in Phases, Goto(i, p), calls[i].phase # "settled"
    PROVE  EndsStay
  BY GotoMoves, WorkKeepsEnds

LEMMA WaitKeepsEnds ==
    ASSUME TypeOK, NEW i \in CallIds, NEW p \in Phases, NEW ids \in SUBSET CallIds,
           GotoAndWait(i, p, ids), calls[i].phase # "settled"
    PROVE  EndsStay
  BY WaitMoves, WorkKeepsEnds

LEMMA SettleKeepsEnds ==
    ASSUME TypeOK, NEW i \in CallIds, Settle(i)
    PROVE  EndsStay /\ ~IsPendingEnd(i)'
  BY SettleMoves DEF Moves, Alone, EndsStay, EndStays, IsPendingEnd

\* Another call than a stop or a disconnect is no end, whatever it does.
LEMMA OtherKeepsEnds ==
    ASSUME TypeOK, NEW i \in CallIds, Alone(i), calls'[i].kind \notin {"stop", "disconnect"}
    PROVE  EndsStay
  BY DEF Alone, EndsStay, EndStays, IsPendingEnd

\* The viewer takes what is shown when it is not older than what it holds.
LEMMA ViewerShows ==
    ASSUME TypeOK, ~Closing, NEW c \in Nat, NEW s \in Nat, Show(c, s),
           connection' \in ConnectionStates, subscription' \in SubscriptionStates
    PROVE  /\ shown'.c = c /\ shown'.s = s
           /\ viewed'.revision.c = IF c < viewed.revision.c THEN viewed.revision.c ELSE c
           /\ viewed'.revision.s = IF s < viewed.revision.s THEN viewed.revision.s ELSE s
           /\ viewed'.connection = IF c < viewed.revision.c THEN viewed.connection ELSE connection'
           /\ viewed'.subscription = IF s < viewed.revision.s THEN viewed.subscription ELSE subscription'
<1>1. SnapshotTyped
  BY SnapshotIsTyped
<1>2. /\ shown' = [c |-> c, s |-> s]
      /\ viewed' = Viewing(c, connection', s, subscription')
  BY DEF Show
<1>. QED
  BY <1>1, <1>2, ViewingTyped

\* How the order of the results survives a step: a part of the state stays as
\* it is, or it takes a revision newer than any and has no pending end.
SubscriptionPartStays ==
    /\ subscriptionIntent' = subscriptionIntent /\ viewed'.revision.s = viewed.revision.s
    /\ subscription' = subscription /\ subscribed' = subscribed
SubscriptionPartTurns(i) == i # subscriptionIntent' /\ revisions.s < viewed'.revision.s
ConnectionPartStays ==
    connectionIntent' = connectionIntent /\ viewed'.revision.c = viewed.revision.c
ConnectionPartTurns(i) == i # connectionIntent' /\ revisions.c < viewed'.revision.c

RevisionsGrow ==
    /\ revisions' \in Revisions
    /\ revisions.c <= revisions'.c /\ revisions.s <= revisions'.s

LEMMA ResultStaysOrdered ==
    ASSUME OwnedInv, ViewerInv, ~Closing, NEW i \in CallIds, EndStays(i), IsPendingEnd(i)',
           RevisionsGrow, viewed'.revision.c \in Nat, viewed'.revision.s \in Nat,
           \/ subscription' = Ended' \/ SubscriptionPartStays \/ SubscriptionPartTurns(i),
           \/ ConnectionPartStays \/ ConnectionPartTurns(i)
           \/ viewed.revision.c <= viewed'.revision.c /\ i # connectionIntent /\ i # connectionIntent'
           \/ calls'[i].kind = "stop"
    PROVE  IsOrdered(i)'
<1> DEFINE r == calls[i].reserved
<1>1. /\ IsPendingEnd(i) /\ calls'[i].reserved = r /\ calls'[i].kind = calls[i].kind /\ IsOrdered(i)
  BY DEF EndStays, ViewerInv
<1>2. /\ r.c \in Nat /\ r.s \in Nat /\ revisions.c \in Nat /\ revisions.s \in Nat
      /\ revisions'.c \in Nat /\ revisions'.s \in Nat /\ viewed.revision.c \in Nat
      /\ viewed.revision.s \in Nat
  BY NumbersOfSnapshots DEF OwnedInv, Base, RevisionsGrow, Revisions
<1>. HIDE DEF r
<1>3. /\ r.s <= revisions.s /\ r.c <= revisions.c
      /\ subscription # Ended =>
            IF i = subscriptionIntent THEN viewed.revision.s < r.s ELSE r.s < viewed.revision.s
      /\ calls[i].kind = "disconnect" =>
            IF i = connectionIntent THEN viewed.revision.c < r.c ELSE r.c < viewed.revision.c
  BY <1>1 DEF IsOrdered, r
<1>4. r.s <= revisions'.s /\ r.c <= revisions'.c
  BY <1>2, <1>3 DEF RevisionsGrow
<1>5. subscription' # Ended' =>
         IF i = subscriptionIntent' THEN viewed'.revision.s < r.s ELSE r.s < viewed'.revision.s
  <2>1. CASE SubscriptionPartStays
    BY <1>3, <2>1 DEF SubscriptionPartStays, Ended
  <2>2. CASE SubscriptionPartTurns(i)
    BY <1>2, <1>3, <2>2 DEF SubscriptionPartTurns
  <2>. QED
    BY <2>1, <2>2
<1>6. calls'[i].kind = "disconnect" =>
         IF i = connectionIntent' THEN viewed'.revision.c < r.c ELSE r.c < viewed'.revision.c
  <2>1. CASE ConnectionPartStays
    BY <1>1, <1>3, <2>1 DEF ConnectionPartStays
  <2>2. CASE ConnectionPartTurns(i)
    BY <1>2, <1>3, <2>2 DEF ConnectionPartTurns
  <2>3. CASE viewed.revision.c <= viewed'.revision.c /\ i # connectionIntent /\ i # connectionIntent'
    BY <1>1, <1>2, <1>3, <2>3
  <2>. QED
    BY <2>1, <2>2, <2>3
<1>. QED
  BY <1>1, <1>4, <1>5, <1>6 DEF IsOrdered

\* Nothing is shown.
LEMMA ViewerStays ==
    ASSUME OwnedInv, ViewerInv, EndsStay, UNCHANGED snapshotVars,
           UNCHANGED <<connectionIntent, subscriptionIntent>>, Closing => Closing'
    PROVE  ViewerInv'
<1> SUFFICES ASSUME ~Closing, ~Closing'
             PROVE  ViewerInv'
  BY DEF ViewerInv, ViewerConverges
<1>1. /\ ViewerConverges' /\ ViewedIsBetween'
  BY DEF ViewerInv, ViewerConverges, ViewedIsBetween, snapshotVars
<1>2. SubscriptionPartStays /\ ConnectionPartStays
  BY DEF snapshotVars, SubscriptionPartStays, ConnectionPartStays
<1>3. RevisionsGrow /\ viewed'.revision.c \in Nat /\ viewed'.revision.s \in Nat
  BY SnapshotIsTyped DEF OwnedInv, Base, RevisionsGrow, SnapshotTyped, Revisions, snapshotVars
<1>4. ASSUME NEW i \in CallIds, IsPendingEnd(i)' PROVE IsOrdered(i)'
  BY <1>2, <1>3, <1>4, ResultStaysOrdered DEF EndsStay
<1>. QED
  BY <1>1, <1>4 DEF ViewerInv

\* The newest connect or disconnect shows a state of the connection.
LEMMA ConnectionIsViewed ==
    ASSUME OwnedInv, ViewerInv, ~Closing, shutdown' = shutdown, EndsStay,
           UNCHANGED <<connectionIntent, subscriptionIntent>>,
           connectionIntent \in CallIds, ~IsPendingEnd(connectionIntent)',
           NEW state \in ConnectionStates, ChangeConnection(state)
    PROVE  ViewerInv'
<1>1. TypeOK /\ SnapshotTyped /\ ~Closing' /\ ViewerConverges /\ ViewedIsBetween
  BY SnapshotIsTyped DEF OwnedInv, Base, Closing, ViewerInv
<1>2. /\ SnapshotTyped' /\ connection' = state
      /\ subscription' = subscription /\ subscribed' = subscribed
      /\ revisions'.c = revisions.c + 1 /\ revisions'.s = revisions.s
      /\ Show(revisions.c + 1, shown.s)
  BY <1>1, ConnectionChanges
<1>3. /\ shown.s \in Nat /\ viewed.revision.c \in Nat /\ viewed.revision.s \in Nat
      /\ revisions.c \in Nat /\ revisions.s \in Nat /\ revisions.c + 1 \in Nat
  BY <1>1 DEF SnapshotTyped, Revisions
<1>4. /\ shown'.c = revisions.c + 1 /\ shown'.s = shown.s
      /\ viewed'.revision.c = IF revisions.c + 1 < viewed.revision.c THEN viewed.revision.c ELSE revisions.c + 1
      /\ viewed'.revision.s = IF shown.s < viewed.revision.s THEN viewed.revision.s ELSE shown.s
      /\ viewed'.connection = IF revisions.c + 1 < viewed.revision.c THEN viewed.connection ELSE connection'
      /\ viewed'.subscription = IF shown.s < viewed.revision.s THEN viewed.subscription ELSE subscription'
  <2>1. connection' \in ConnectionStates /\ subscription' \in SubscriptionStates
    BY <1>2 DEF SnapshotTyped
  <2>. QED
    BY <1>1, <1>2, <1>3, <2>1, ViewerShows
<1>5. /\ viewed'.revision.c = revisions.c + 1 /\ viewed'.revision.s = viewed.revision.s
      /\ viewed'.connection = connection' /\ viewed'.subscription = subscription'
  BY <1>1, <1>2, <1>3, <1>4 DEF ViewedIsBetween, ViewerConverges
<1>6. ViewerConverges' /\ ViewedIsBetween'
  BY <1>1, <1>2, <1>3, <1>4, <1>5 DEF ViewerConverges, ViewedIsBetween
<1>7. ASSUME NEW i \in CallIds, IsPendingEnd(i)' PROVE IsOrdered(i)'
  <2>1. EndStays(i)
    BY DEF EndsStay
  <2>2. SubscriptionPartStays
    BY <1>2, <1>5 DEF SubscriptionPartStays
  <2>3. ConnectionPartTurns(i)
    BY <1>3, <1>5, <1>7 DEF ConnectionPartTurns
  <2>4. RevisionsGrow
    BY <1>2, <1>3 DEF RevisionsGrow, SnapshotTyped
  <2>. QED
    BY <1>3, <1>5, <1>7, <2>1, <2>2, <2>3, <2>4, ResultStaysOrdered
<1>. QED
  BY <1>6, <1>7 DEF ViewerInv

\* The newest call shows a state of the subscription.
LEMMA SubscriptionIsViewed ==
    ASSUME OwnedInv, ViewerInv, ~Closing, shutdown' = shutdown, EndsStay,
           UNCHANGED <<connectionIntent, subscriptionIntent>>,
           NEW state \in SubscriptionStates, ChangeSubscription(state),
           state = Ended \/ (subscriptionIntent \in CallIds /\ ~IsPendingEnd(subscriptionIntent)')
    PROVE  ViewerInv'
<1>1. TypeOK /\ SnapshotTyped /\ ~Closing' /\ ViewerConverges /\ ViewedIsBetween
  BY SnapshotIsTyped DEF OwnedInv, Base, Closing, ViewerInv
<1>2. /\ SnapshotTyped' /\ subscription' = state
      /\ connection' = connection /\ subscribed' = subscribed
      /\ revisions'.s = revisions.s + 1 /\ revisions'.c = revisions.c
      /\ Show(shown.c, revisions.s + 1)
  BY <1>1, SubscriptionChanges
<1>3. /\ shown.c \in Nat /\ viewed.revision.c \in Nat /\ viewed.revision.s \in Nat
      /\ revisions.c \in Nat /\ revisions.s \in Nat /\ revisions.s + 1 \in Nat
  BY <1>1 DEF SnapshotTyped, Revisions
<1>4. /\ shown'.c = shown.c /\ shown'.s = revisions.s + 1
      /\ viewed'.revision.c = IF shown.c < viewed.revision.c THEN viewed.revision.c ELSE shown.c
      /\ viewed'.revision.s = IF revisions.s + 1 < viewed.revision.s THEN viewed.revision.s ELSE revisions.s + 1
      /\ viewed'.connection = IF shown.c < viewed.revision.c THEN viewed.connection ELSE connection'
      /\ viewed'.subscription = IF revisions.s + 1 < viewed.revision.s THEN viewed.subscription ELSE subscription'
  <2>1. connection' \in ConnectionStates /\ subscription' \in SubscriptionStates
    BY <1>2 DEF SnapshotTyped
  <2>. QED
    BY <1>1, <1>2, <1>3, <2>1, ViewerShows
<1>5. /\ viewed'.revision.c = viewed.revision.c /\ viewed'.revision.s = revisions.s + 1
      /\ viewed'.connection = connection' /\ viewed'.subscription = subscription'
  BY <1>1, <1>2, <1>3, <1>4 DEF ViewedIsBetween, ViewerConverges
<1>6. ViewerConverges' /\ ViewedIsBetween'
  BY <1>1, <1>2, <1>3, <1>4, <1>5 DEF ViewerConverges, ViewedIsBetween
<1>7. ASSUME NEW i \in CallIds, IsPendingEnd(i)' PROVE IsOrdered(i)'
  <2>1. EndStays(i)
    BY DEF EndsStay
  <2>2. subscription' = Ended' \/ SubscriptionPartTurns(i)
    BY <1>2, <1>3, <1>5, <1>7 DEF SubscriptionPartTurns, Ended
  <2>3. ConnectionPartStays
    BY <1>5 DEF ConnectionPartStays
  <2>4. RevisionsGrow
    BY <1>2, <1>3 DEF RevisionsGrow, SnapshotTyped
  <2>. QED
    BY <1>3, <1>5, <1>7, <2>1, <2>2, <2>3, <2>4, ResultStaysOrdered
<1>. QED
  BY <1>6, <1>7 DEF ViewerInv

\* What a connect or a start shows when it moves on.
LEMMA SetupIsViewed ==
    ASSUME OwnedInv, ViewerInv, NEW i \in CallIds, calls[i].kind \in {"connect", "start"},
           Alone(i), calls'[i].kind = calls[i].kind,
           UNCHANGED <<connectionIntent, subscriptionIntent, shutdown>>,
           \/ UNCHANGED snapshotVars
           \/ i = connectionIntent /\ \E state \in ConnectionStates : ChangeConnection(state)
           \/ i = subscriptionIntent /\ \E state \in SubscriptionStates : ChangeSubscription(state)
           \/ ~Closing /\ subscription = "stopping" /\ ChangeSubscription("stopped")
    PROVE  ViewerInv'
<1>1. Base /\ TypeOK /\ IdleFits
  BY DEF OwnedInv, Base
<1>2. EndsStay /\ ~IsPendingEnd(i)'
  BY <1>1, OtherKeepsEnds DEF IsPendingEnd
<1>3. CASE UNCHANGED snapshotVars
  BY <1>2, <1>3, ViewerStays DEF Closing
<1>4. CASE i = connectionIntent /\ \E state \in ConnectionStates : ChangeConnection(state)
  <2>1. ~Closing /\ ~IsPendingEnd(connectionIntent)'
    BY <1>1, <1>2, <1>4, OwnerIsIntent DEF IsPendingEnd
  <2>. QED
    BY <1>2, <1>4, <2>1, ConnectionIsViewed
<1>5. CASE i = subscriptionIntent /\ \E state \in SubscriptionStates : ChangeSubscription(state)
  <2>1. ~Closing /\ ~IsPendingEnd(subscriptionIntent)'
    BY <1>1, <1>2, <1>5, OwnerIsIntent DEF IsPendingEnd
  <2>. QED
    BY <1>2, <1>5, <2>1, SubscriptionIsViewed
<1>6. CASE ~Closing /\ subscription = "stopping" /\ ChangeSubscription("stopped")
  <2>1. Ended = "stopped"
    BY <1>1, <1>6 DEF IdleFits, Ended
  <2>2. PICK state \in SubscriptionStates : state = "stopped"
    BY DEF SubscriptionStates
  <2>3. ChangeSubscription(state) /\ ~Closing
    BY <1>6, <2>2
  <2>4. state = Ended \/ (subscriptionIntent \in CallIds /\ ~IsPendingEnd(subscriptionIntent)')
    BY <2>1, <2>2
  <2>5. shutdown' = shutdown /\ UNCHANGED <<connectionIntent, subscriptionIntent>> /\ EndsStay
    BY <1>2
  <2>. QED
    BY <2>3, <2>4, <2>5, SubscriptionIsViewed
<1>. QED
  BY <1>3, <1>4, <1>5, <1>6

LEMMA FailConnectIsViewed ==
    ASSUME OwnedInv, ViewerInv, NEW i \in CallIds, calls[i].kind = "connect", FailConnect(i),
           UNCHANGED intentVars
    PROVE  ViewerInv'
<1>1. Base /\ TypeOK /\ Owned \in SUBSET CallIds
  BY DEF OwnedInv, Base, Owned
<1>2. CASE OwnsConnection(i)
  <2>1. /\ ChangeConnection("failed") /\ GotoAndWait(i, "recovering", Owned)
        /\ i = connectionIntent
    BY <1>2 DEF FailConnect, OwnsConnection
  <2>2. \E p \in Phases : p = "recovering" /\ GotoAndWait(i, p, Owned)
    BY <2>1 DEF Phases
  <2>3. Alone(i) /\ calls'[i].kind = calls[i].kind
    BY <1>1, <2>2, WaitMoves DEF Moves
  <2>4. \E state \in ConnectionStates : ChangeConnection(state)
    BY <2>1 DEF ConnectionStates
  <2>. QED
    BY <2>1, <2>3, <2>4, SetupIsViewed DEF intentVars
<1>3. CASE ~OwnsConnection(i)
  BY <1>1, <1>3, SettleMoves, SetupIsViewed DEF FailConnect, intentVars, Moves
<1>. QED
  BY <1>2, <1>3

LEMMA ConnectIsViewed ==
    ASSUME OwnedInv, ViewerInv, NEW i \in CallIds,
           \/ RunConnect(i) \/ ProfileResolves(i) \/ ProfileFails(i)
           \/ EngineConnects(i) \/ EngineRefuses(i) \/ ConnectOpened(i)
    PROVE  ViewerInv'
<1>1. Base /\ TypeOK /\ Owned \in SUBSET CallIds
  BY DEF OwnedInv, Base, Owned
<1>2. calls[i].kind = "connect" /\ UNCHANGED intentVars
  BY DEF RunConnect, ProfileResolves, ProfileFails, EngineConnects, EngineRefuses, ConnectOpened
<1>3. CASE FailConnect(i)
  BY <1>2, <1>3, FailConnectIsViewed
<1>4. CASE ~FailConnect(i)
  <2>1. Settle(i) \/ \E p \in Phases : Goto(i, p) \/ GotoAndWait(i, p, Owned)
    BY <1>4 DEF RunConnect, ProfileResolves, ProfileFails, EngineConnects, EngineRefuses,
                ConnectOpened, Phases
  <2>2. Alone(i) /\ calls'[i].kind = calls[i].kind
    BY <1>1, <2>1, SettleMoves, GotoMoves, WaitMoves DEF Moves
  <2>3. \/ UNCHANGED snapshotVars
        \/ i = connectionIntent /\ \E state \in ConnectionStates : ChangeConnection(state)
    BY <1>4 DEF RunConnect, ProfileResolves, ProfileFails, EngineConnects, EngineRefuses,
                ConnectOpened, OwnsConnection, ConnectionStates, snapshotVars
  <2>. QED
    BY <1>2, <2>2, <2>3, SetupIsViewed DEF intentVars
<1>. QED
  BY <1>3, <1>4

LEMMA ConnectAnswersAreViewed ==
    ASSUME OwnedInv, ViewerInv, NEW i \in CallIds, NEW failed \in BOOLEAN,
           ConnectCleared(i, failed) \/ ConnectRecovers(i, failed) \/ LossCleaned(i, failed)
    PROVE  ViewerInv'
<1>1. Base /\ TypeOK /\ CallFits(i) /\ calls \in [CallIds -> Call]
  BY DEF OwnedInv, Base, CallsFit, TypeOK
<1>2. calls[i].kind = "connect" /\ UNCHANGED intentVars
  BY <1>1 DEF ConnectCleared, ConnectRecovers, LossCleaned, CallFits
<1>3. Alone(i) /\ calls'[i].kind = calls[i].kind
  <2>1. CASE LossCleaned(i, failed)
    BY <1>1, <2>1 DEF LossCleaned, Alone, Call
  <2>2. CASE ConnectCleared(i, failed) \/ ConnectRecovers(i, failed)
    <3>1. Settle(i) \/ \E p \in Phases : Goto(i, p)
      BY <2>2 DEF ConnectCleared, ConnectRecovers, Phases
    <3>. QED
      BY <1>1, <3>1, SettleMoves, GotoMoves DEF Moves
  <2>. QED
    BY <2>1, <2>2
<1>4. \/ UNCHANGED snapshotVars
      \/ i = connectionIntent /\ \E state \in ConnectionStates : ChangeConnection(state)
      \/ ~Closing /\ subscription = "stopping" /\ ChangeSubscription("stopped")
  BY DEF ConnectCleared, ConnectRecovers, LossCleaned, OwnsConnection, ConnectionStates
<1>. QED
  BY <1>2, <1>3, <1>4, SetupIsViewed DEF intentVars

LEMMA StartIsViewed ==
    ASSUME OwnedInv, ViewerInv, NEW i \in CallIds,
           \/ RunStart(i) \/ EngineSubscribes(i) \/ StartRefused(i) \/ StartOpened(i)
           \/ \E failed \in BOOLEAN : StartCleared(i, failed)
    PROVE  ViewerInv'
<1>1. Base /\ TypeOK /\ OwnedSubscriptions \in SUBSET CallIds
  BY DEF OwnedInv, Base, OwnedSubscriptions
<1>2. calls[i].kind = "start" /\ UNCHANGED intentVars
  BY DEF RunStart, EngineSubscribes, StartRefused, StartOpened, StartCleared
<1>3. Settle(i) \/ \E p \in Phases : Goto(i, p) \/ GotoAndWait(i, p, OwnedSubscriptions)
  BY DEF RunStart, EngineSubscribes, StartRefused, StartOpened, StartCleared, FailStart, Phases
<1>4. Alone(i) /\ calls'[i].kind = calls[i].kind
  BY <1>1, <1>3, SettleMoves, GotoMoves, WaitMoves DEF Moves
<1>5. \/ UNCHANGED snapshotVars
      \/ i = subscriptionIntent /\ \E state \in SubscriptionStates : ChangeSubscription(state)
  BY DEF RunStart, EngineSubscribes, StartRefused, StartOpened, StartCleared, FailStart,
         OwnsSubscription, SubscriptionStates
<1>. QED
  BY <1>2, <1>4, <1>5, SetupIsViewed DEF intentVars

LEMMA FailureIsViewed ==
    ASSUME OwnedInv, ViewerInv, NEW i \in CallIds,
           SubscriptionFails(i) \/ \E failed \in BOOLEAN : SubscriptionCleaned(i, failed)
    PROVE  ViewerInv'
<1>1. Base /\ TypeOK /\ EngineInv /\ calls \in [CallIds -> Call]
  BY DEF OwnedInv, Base, TypeOK
<1>2. calls[i].kind = "start" /\ UNCHANGED intentVars
  BY <1>1 DEF SubscriptionFails, SubscriptionCleaned, EngineInv, ResourcesFit
<1>3. Alone(i) /\ calls'[i].kind = calls[i].kind
  BY <1>1, ZenonT(30) DEF SubscriptionFails, SubscriptionCleaned, Alone, Call
<1>4. \/ UNCHANGED snapshotVars
      \/ i = subscriptionIntent /\ \E state \in SubscriptionStates : ChangeSubscription(state)
  BY DEF SubscriptionFails, SubscriptionCleaned, OwnsSubscription, SubscriptionStates
<1>. QED
  BY <1>2, <1>3, <1>4, SetupIsViewed DEF intentVars

---------------------------------------------------------------------------
\* A viewer that is not shown an older state with a newer revision converges.
LEMMA ShownIsViewed ==
    ASSUME OwnedInv, ViewerInv, ~Closing, NEW c \in Nat, NEW s \in Nat, Show(c, s),
           SnapshotTyped', RevisionsGrow, c <= revisions'.c, s <= revisions'.s,
           c < viewed.revision.c => connection' = connection,
           s < viewed.revision.s => subscription' = subscription
    PROVE  /\ ViewerConverges' /\ ViewedIsBetween'
           /\ viewed'.revision.c = IF c < viewed.revision.c THEN viewed.revision.c ELSE c
           /\ viewed'.revision.s = IF s < viewed.revision.s THEN viewed.revision.s ELSE s
           /\ viewed'.revision.c \in Nat /\ viewed'.revision.s \in Nat
<1>1. TypeOK /\ SnapshotTyped /\ ViewerConverges /\ ViewedIsBetween
  BY SnapshotIsTyped DEF OwnedInv, Base, ViewerInv
<1>2. /\ viewed.revision.c \in Nat /\ viewed.revision.s \in Nat
      /\ revisions.c \in Nat /\ revisions.s \in Nat /\ revisions'.c \in Nat /\ revisions'.s \in Nat
      /\ connection' \in ConnectionStates /\ subscription' \in SubscriptionStates
  BY <1>1 DEF SnapshotTyped, Revisions
<1>3. /\ shown'.c = c /\ shown'.s = s
      /\ viewed'.revision.c = IF c < viewed.revision.c THEN viewed.revision.c ELSE c
      /\ viewed'.revision.s = IF s < viewed.revision.s THEN viewed.revision.s ELSE s
      /\ viewed'.connection = IF c < viewed.revision.c THEN viewed.connection ELSE connection'
      /\ viewed'.subscription = IF s < viewed.revision.s THEN viewed.subscription ELSE subscription'
  BY <1>1, <1>2, ViewerShows
<1>4. ViewerConverges'
  BY <1>1, <1>3 DEF ViewerConverges
<1>5. ViewedIsBetween'
  BY <1>1, <1>2, <1>3 DEF ViewedIsBetween, RevisionsGrow
<1>. QED
  BY <1>2, <1>3, <1>4, <1>5

\* A subscription that a call revokes turns, or it had ended before.
LEMMA RevokedIsViewed ==
    ASSUME TypeOK, IdleFits, subscription' = Revoked, subscribed' = subscribed
    PROVE  /\ RevokedRevision \in Nat /\ revisions.s <= RevokedRevision
           /\ RevokedShown \in Nat
           /\ \/ RevokedShown = revisions.s + 1 /\ RevokedRevision = revisions.s + 1
              \/ /\ RevokedShown = shown.s /\ RevokedRevision = revisions.s
                 /\ subscription' = subscription /\ subscription' = Ended'
<1>1. revisions.s \in Nat /\ shown.s \in Nat
  BY DEF TypeOK, Revisions
<1>2. CASE IsRevocable
  BY <1>1, <1>2 DEF RevokedRevision, RevokedShown
<1>3. CASE ~IsRevocable
  BY <1>1, <1>3 DEF IsRevocable, IdleFits, Revoked, RevokedRevision, RevokedShown, Ended
<1>. QED
  BY <1>2, <1>3

\* A call that is admitted shows what it turns, and reserves what it returns.
LEMMA CallIsViewed ==
    ASSUME OwnedInv, ViewerInv, ~Closing, NEW i \in CallIds, NEW k \in Call,
           calls' = [calls EXCEPT ![i] = k], subscriptionIntent' = i,
           NEW c \in Nat, NEW s \in Nat, Show(c, s), SnapshotTyped', RevisionsGrow,
           \/ revisions.s < s
           \/ s = shown.s /\ subscription' = subscription /\ subscription' = Ended',
           \/ c = shown.c /\ connection' = connection /\ connectionIntent' = connectionIntent
           \/ revisions.c < c /\ connectionIntent' = i,
           c <= revisions'.c, s <= revisions'.s,
           k.kind \in {"stop", "disconnect"} =>
              k.reserved = revisions' /\ s < revisions'.s /\ revisions.s < revisions'.s,
           k.kind = "disconnect" => connectionIntent' = i /\ c < revisions'.c /\ revisions.c < revisions'.c
    PROVE  ViewerInv'
<1>1. TypeOK /\ SnapshotTyped /\ ViewedIsBetween /\ calls \in [CallIds -> Call]
  BY SnapshotIsTyped DEF OwnedInv, Base, ViewerInv, TypeOK
<1>2. /\ viewed.revision.c \in Nat /\ viewed.revision.s \in Nat /\ shown.c \in Nat /\ shown.s \in Nat
      /\ revisions.c \in Nat /\ revisions.s \in Nat /\ revisions'.c \in Nat /\ revisions'.s \in Nat
  BY <1>1 DEF SnapshotTyped, Revisions
<1>3. /\ c < viewed.revision.c => connection' = connection
      /\ s < viewed.revision.s => subscription' = subscription
  BY <1>1, <1>2 DEF ViewedIsBetween
<1>4. /\ ViewerConverges' /\ ViewedIsBetween'
      /\ viewed'.revision.c = IF c < viewed.revision.c THEN viewed.revision.c ELSE c
      /\ viewed'.revision.s = IF s < viewed.revision.s THEN viewed.revision.s ELSE s
      /\ viewed'.revision.c \in Nat /\ viewed'.revision.s \in Nat
  BY <1>3, ShownIsViewed
<1>5. ASSUME NEW j \in CallIds \ {i}, IsPendingEnd(j)' PROVE IsOrdered(j)'
  <2>1. EndStays(j)
    BY <1>1 DEF EndStays, IsPendingEnd
  <2>2. subscription' = Ended' \/ SubscriptionPartTurns(j)
    BY <1>1, <1>2, <1>4 DEF SubscriptionPartTurns, ViewedIsBetween
  <2>3. ConnectionPartStays \/ ConnectionPartTurns(j)
    BY <1>1, <1>2, <1>4 DEF ConnectionPartStays, ConnectionPartTurns, ViewedIsBetween
  <2>. QED
    BY <1>4, <1>5, <2>1, <2>2, <2>3, ResultStaysOrdered
<1>6. IsPendingEnd(i)' => IsOrdered(i)'
  <2> SUFFICES ASSUME k.kind \in {"stop", "disconnect"} PROVE IsOrdered(i)'
    BY <1>1 DEF IsPendingEnd
  <2>1. calls'[i].reserved = revisions' /\ calls'[i].kind = k.kind
    BY <1>1
  <2>2. viewed'.revision.s < revisions'.s
    BY <1>1, <1>2, <1>4 DEF ViewedIsBetween
  <2>3. k.kind = "disconnect" => i = connectionIntent' /\ viewed'.revision.c < revisions'.c
    BY <1>1, <1>2, <1>4 DEF ViewedIsBetween
  <2>. QED
    BY <1>2, <2>1, <2>2, <2>3 DEF IsOrdered
<1>. QED
  BY <1>4, <1>5, <1>6 DEF ViewerInv

LEMMA ConnectViewed ==
    ASSUME OwnedInv, ViewerInv, NEW i \in CallIds, Connect(i)
    PROVE  ViewerInv'
<1> DEFINE k == [NoCall EXCEPT !.kind = "connect", !.phase = "scheduled", !.prior = reservations]
<1>1. TypeOK /\ IdleFits /\ SnapshotTyped /\ reservations \in SUBSET CallIds
  BY SnapshotIsTyped DEF OwnedInv, Base, TypeOK
<1>2. /\ ~Closing /\ connectionIntent' = i /\ subscriptionIntent' = i
      /\ connection' = "connecting" /\ subscription' = Revoked /\ subscribed' = subscribed
      /\ revisions' = [c |-> revisions.c + 1, s |-> RevokedRevision]
      /\ Show(revisions.c + 1, RevokedShown) /\ calls' = [calls EXCEPT ![i] = k]
  BY DEF Connect
<1>3. k \in Call /\ k.kind = "connect"
  BY <1>1, NoCallTyped DEF Call, NoCall, Phases, Kinds
<1>. HIDE DEF k
<1>4. /\ RevokedRevision \in Nat /\ revisions.s <= RevokedRevision /\ RevokedShown \in Nat
      /\ \/ RevokedShown = revisions.s + 1 /\ RevokedRevision = revisions.s + 1
         \/ /\ RevokedShown = shown.s /\ RevokedRevision = revisions.s
            /\ subscription' = subscription /\ subscription' = Ended'
  BY <1>1, <1>2, RevokedIsViewed
<1>5. /\ revisions.c \in Nat /\ revisions.s \in Nat /\ shown.s \in Nat /\ shown.s <= revisions.s
      /\ revisions.c + 1 \in Nat
  BY <1>1, <1>2 DEF SnapshotTyped, Revisions, ViewerInv, ViewedIsBetween
<1>6. /\ RevisionsGrow /\ revisions'.c = revisions.c + 1 /\ revisions'.s = RevokedRevision
  BY <1>2, <1>4, <1>5 DEF RevisionsGrow, Revisions
<1>7. SnapshotTyped'
  <2>1. connection' \in ConnectionStates /\ subscription' \in SubscriptionStates /\ subscribed' \in BOOLEAN
    BY <1>1, <1>2 DEF SnapshotTyped, Revoked, ConnectionStates, SubscriptionStates
  <2>. QED
    BY <1>1, <1>2, <1>4, <1>5, <1>6, <2>1, ShowTyped DEF RevisionsGrow
<1>8. \/ revisions.s < RevokedShown
      \/ RevokedShown = shown.s /\ subscription' = subscription /\ subscription' = Ended'
  BY <1>4, <1>5
<1>9. revisions.c < revisions.c + 1 /\ revisions.c + 1 <= revisions'.c /\ RevokedShown <= revisions'.s
  BY <1>4, <1>5, <1>6
<1>. QED
  BY <1>2, <1>3, <1>4, <1>5, <1>6, <1>7, <1>8, <1>9, CallIsViewed

LEMMA DisconnectViewed ==
    ASSUME OwnedInv, ViewerInv, NEW i \in CallIds, Disconnect(i)
    PROVE  ViewerInv'
<1> DEFINE pending == PendingSetup("connect") \cup PendingSetup("start")
<1> DEFINE k == [NoCall EXCEPT !.kind = "disconnect", !.phase = "scheduled", !.prior = reservations,
                               !.reserved = revisions', !.pending = pending]
<1>1. TypeOK /\ IdleFits /\ SnapshotTyped /\ reservations \in SUBSET CallIds /\ pending \in SUBSET CallIds
  BY SnapshotIsTyped DEF OwnedInv, Base, TypeOK, PendingSetup
<1>2. /\ ~Closing /\ connectionIntent' = i /\ subscriptionIntent' = i
      /\ connection' = "disconnecting" /\ subscription' = Revoked /\ subscribed' = subscribed
      /\ revisions' = [c |-> revisions.c + 2, s |-> RevokedRevision + 1]
      /\ Show(revisions.c + 1, RevokedShown)
  BY DEF Disconnect
<1>3. calls' = [calls EXCEPT ![i] = k]
  BY DEF Disconnect
<1>. HIDE DEF pending
<1>4. /\ RevokedRevision \in Nat /\ revisions.s <= RevokedRevision /\ RevokedShown \in Nat
      /\ \/ RevokedShown = revisions.s + 1 /\ RevokedRevision = revisions.s + 1
         \/ /\ RevokedShown = shown.s /\ RevokedRevision = revisions.s
            /\ subscription' = subscription /\ subscription' = Ended'
  BY <1>1, <1>2, RevokedIsViewed
<1>5. /\ revisions.c \in Nat /\ revisions.s \in Nat /\ shown.s \in Nat /\ shown.s <= revisions.s
      /\ revisions.c + 1 \in Nat
  BY <1>1, <1>2 DEF SnapshotTyped, Revisions, ViewerInv, ViewedIsBetween
<1>6. /\ RevisionsGrow /\ revisions'.c = revisions.c + 2 /\ revisions'.s = RevokedRevision + 1
  BY <1>2, <1>4, <1>5 DEF RevisionsGrow, Revisions
<1>7. k \in Call /\ k.kind = "disconnect" /\ k.reserved = revisions'
  BY <1>1, <1>6, NoCallTyped DEF Call, NoCall, Phases, Kinds, RevisionsGrow
<1>. HIDE DEF k
<1>8. SnapshotTyped'
  <2>1. connection' \in ConnectionStates /\ subscription' \in SubscriptionStates /\ subscribed' \in BOOLEAN
    BY <1>1, <1>2 DEF SnapshotTyped, Revoked, ConnectionStates, SubscriptionStates
  <2>. QED
    BY <1>1, <1>2, <1>4, <1>5, <1>6, <2>1, ShowTyped DEF RevisionsGrow
<1>9. \/ revisions.s < RevokedShown
      \/ RevokedShown = shown.s /\ subscription' = subscription /\ subscription' = Ended'
  BY <1>4, <1>5
<1>10. /\ revisions.c < revisions.c + 1 /\ revisions.c + 1 < revisions'.c /\ revisions.c < revisions'.c
       /\ revisions.c + 1 <= revisions'.c /\ RevokedShown <= revisions'.s
       /\ RevokedShown < revisions'.s /\ revisions.s < revisions'.s
  BY <1>4, <1>5, <1>6
<1>. QED
  BY <1>2, <1>3, <1>4, <1>5, <1>6, <1>7, <1>8, <1>9, <1>10, CallIsViewed

LEMMA StartViewed ==
    ASSUME OwnedInv, ViewerInv, NEW i \in CallIds, Start(i)
    PROVE  ViewerInv'
<1> DEFINE k == [NoCall EXCEPT !.kind = "start", !.phase = "scheduled", !.on = connectionIntent]
<1>1. TypeOK /\ SnapshotTyped /\ connectionIntent \in CallIds \cup {None}
  BY SnapshotIsTyped DEF OwnedInv, Base, TypeOK
<1>2. /\ ~Closing /\ connectionIntent' = connectionIntent /\ subscriptionIntent' = i
      /\ connection' = connection /\ subscription' = "loading" /\ subscribed' = TRUE
      /\ revisions' = [revisions EXCEPT !.s = @ + 1]
      /\ Show(shown.c, revisions'.s) /\ calls' = [calls EXCEPT ![i] = k]
  BY DEF Start
<1>3. k \in Call /\ k.kind = "start"
  BY <1>1, NoCallTyped DEF Call, NoCall, Phases, Kinds
<1>. HIDE DEF k
<1>4. /\ revisions.c \in Nat /\ revisions.s \in Nat /\ shown.c \in Nat /\ shown.c <= revisions.c
  BY <1>1, <1>2 DEF SnapshotTyped, Revisions, ViewerInv, ViewedIsBetween
<1>5. RevisionsGrow /\ revisions'.c = revisions.c /\ revisions'.s = revisions.s + 1 /\ revisions'.s \in Nat
  BY <1>1, <1>2, <1>4 DEF RevisionsGrow, SnapshotTyped, Revisions
<1>6. SnapshotTyped'
  <2>1. connection' \in ConnectionStates /\ subscription' \in SubscriptionStates /\ subscribed' \in BOOLEAN
    BY <1>1, <1>2 DEF SnapshotTyped, SubscriptionStates
  <2>. QED
    BY <1>1, <1>2, <1>4, <1>5, <2>1, ShowTyped DEF RevisionsGrow
<1>7. revisions.s < revisions'.s /\ revisions'.s <= revisions'.s /\ shown.c <= revisions'.c
  BY <1>4, <1>5
<1>. QED
  BY <1>2, <1>3, <1>4, <1>5, <1>6, <1>7, CallIsViewed

LEMMA StopViewed ==
    ASSUME OwnedInv, ViewerInv, NEW i \in CallIds, Stop(i)
    PROVE  ViewerInv'
<1> DEFINE pending == PendingSetup("start")
<1> DEFINE k == [NoCall EXCEPT !.kind = "stop", !.phase = "scheduled",
                               !.reserved = revisions', !.pending = pending]
<1>1. TypeOK /\ SnapshotTyped /\ pending \in SUBSET CallIds
  BY SnapshotIsTyped DEF OwnedInv, Base, TypeOK, PendingSetup
<1>2. /\ ~Closing /\ connectionIntent' = connectionIntent /\ subscriptionIntent' = i
      /\ connection' = connection /\ subscription' = (IF subscribed THEN "stopping" ELSE "idle")
      /\ subscribed' = subscribed /\ revisions' = [revisions EXCEPT !.s = @ + 2]
      /\ Show(shown.c, revisions.s + 1)
  BY DEF Stop
<1>3. calls' = [calls EXCEPT ![i] = k]
  BY DEF Stop
<1>. HIDE DEF pending
<1>4. /\ revisions.c \in Nat /\ revisions.s \in Nat /\ shown.c \in Nat /\ shown.c <= revisions.c
      /\ revisions.s + 1 \in Nat
  BY <1>1, <1>2 DEF SnapshotTyped, Revisions, ViewerInv, ViewedIsBetween
<1>5. RevisionsGrow /\ revisions'.c = revisions.c /\ revisions'.s = revisions.s + 2
  BY <1>1, <1>2, <1>4 DEF RevisionsGrow, SnapshotTyped, Revisions
<1>6. k \in Call /\ k.kind = "stop" /\ k.reserved = revisions'
  BY <1>1, <1>5, NoCallTyped DEF Call, NoCall, Phases, Kinds, RevisionsGrow
<1>. HIDE DEF k
<1>7. SnapshotTyped'
  <2>1. connection' \in ConnectionStates /\ subscription' \in SubscriptionStates /\ subscribed' \in BOOLEAN
    BY <1>1, <1>2 DEF SnapshotTyped, SubscriptionStates
  <2>. QED
    BY <1>1, <1>2, <1>4, <1>5, <2>1, ShowTyped DEF RevisionsGrow
<1>8. /\ revisions.s < revisions.s + 1 /\ revisions.s + 1 <= revisions'.s /\ revisions.s + 1 < revisions'.s
      /\ revisions.s < revisions'.s /\ shown.c <= revisions'.c
  BY <1>4, <1>5
<1>. QED
  BY <1>2, <1>3, <1>4, <1>5, <1>6, <1>7, <1>8, CallIsViewed

---------------------------------------------------------------------------
\* A lost connection revokes the subscription, and no stop or disconnect is current.
LEMMA LossIsViewed ==
    ASSUME OwnedInv, ViewerInv, NEW i \in CallIds, EngineLoses(i)
    PROVE  ViewerInv'
<1>1. /\ Base /\ TypeOK /\ IdleFits /\ SnapshotTyped /\ calls \in [CallIds -> Call]
      /\ calls[i].kind = "connect"
  BY SnapshotIsTyped DEF OwnedInv, Base, EngineInv, ResourcesFit, EngineLoses, TypeOK
<1>2. CASE ~OwnsConnection(i)
  BY <1>1, <1>2, SetupIsViewed DEF EngineLoses, intentVars, Alone
<1>3. CASE OwnsConnection(i)
  <2>1. /\ ~Closing /\ ~Closing' /\ connectionIntent = i /\ connectionIntent' = i
        /\ subscriptionIntent' = None /\ connection' = "failed" /\ subscribed' = subscribed
        /\ subscription' = (IF IsRevocable THEN "failed" ELSE subscription)
        /\ revisions' = [c |-> revisions.c + 1, s |-> IF IsRevocable THEN revisions.s + 2 ELSE revisions.s]
        /\ Show(revisions.c + 1, IF IsRevocable THEN revisions.s + 2 ELSE shown.s)
        /\ calls' = [calls EXCEPT ![i] = [@ EXCEPT !.cleanup = "pending", !.cleans = Owned,
                                                   !.kept = reservations]]
    BY <1>3 DEF EngineLoses, OwnsConnection, Closing
  <2>2. EndsStay /\ ~IsPendingEnd(i)'
    <3>1. Alone(i) /\ calls'[i].kind = "connect"
      BY <1>1, <2>1 DEF Alone, Call
    <3>. QED
      BY <1>1, <3>1, OtherKeepsEnds DEF IsPendingEnd
  <2> DEFINE s == IF IsRevocable THEN revisions.s + 2 ELSE shown.s
  <2>3. /\ revisions.c \in Nat /\ revisions.s \in Nat /\ shown.s \in Nat /\ revisions.c + 1 \in Nat
        /\ viewed.revision.c \in Nat /\ viewed.revision.s \in Nat /\ ViewedIsBetween
    BY <1>1, <2>1 DEF SnapshotTyped, Revisions, ViewerInv
  <2>4. s \in Nat /\ RevisionsGrow /\ s <= revisions'.s /\ revisions.c + 1 <= revisions'.c
    BY <2>1, <2>3 DEF RevisionsGrow, Revisions, ViewedIsBetween
  <2>5. \/ revisions.s < s
        \/ s = shown.s /\ subscription' = subscription /\ subscription' = Ended'
    <3>1. CASE IsRevocable
      BY <2>3, <3>1
    <3>2. CASE ~IsRevocable
      BY <1>1, <2>1, <3>2 DEF IsRevocable, IdleFits, Ended
    <3>. QED
      BY <3>1, <3>2
  <2>6. Show(revisions.c + 1, s)
    BY <2>1
  <2>. HIDE DEF s
  <2>7. SnapshotTyped'
    <3>1. connection' \in ConnectionStates /\ subscription' \in SubscriptionStates /\ subscribed' \in BOOLEAN
      BY <1>1, <2>1 DEF SnapshotTyped, ConnectionStates, SubscriptionStates
    <3>. QED
      BY <1>1, <2>3, <2>4, <2>6, <3>1, ShowTyped DEF RevisionsGrow
  <2>8. /\ revisions.c + 1 < viewed.revision.c => connection' = connection
        /\ s < viewed.revision.s => subscription' = subscription
    BY <2>3, <2>4, <2>5 DEF ViewedIsBetween
  <2>9. /\ ViewerConverges' /\ ViewedIsBetween'
        /\ viewed'.revision.c = IF revisions.c + 1 < viewed.revision.c THEN viewed.revision.c ELSE revisions.c + 1
        /\ viewed'.revision.s = IF s < viewed.revision.s THEN viewed.revision.s ELSE s
        /\ viewed'.revision.c \in Nat /\ viewed'.revision.s \in Nat
    BY <2>1, <2>3, <2>4, <2>6, <2>7, <2>8, ShownIsViewed
  <2>10. ASSUME NEW j \in CallIds, IsPendingEnd(j)' PROVE IsOrdered(j)'
    <3>1. EndStays(j) /\ j # i /\ j # None
      BY <2>2, <2>10, CallIdsAreNumbers DEF EndsStay
    <3>2. subscription' = Ended' \/ SubscriptionPartTurns(j)
      BY <2>1, <2>3, <2>4, <2>5, <2>9, <3>1 DEF SubscriptionPartTurns, ViewedIsBetween
    <3>3. ConnectionPartTurns(j)
      BY <2>1, <2>3, <2>9, <3>1 DEF ConnectionPartTurns, ViewedIsBetween
    <3>. QED
      BY <2>1, <2>4, <2>9, <2>10, <3>1, <3>2, <3>3, ResultStaysOrdered
  <2>. QED
    BY <2>9, <2>10 DEF ViewerInv
<1>. QED
  BY <1>2, <1>3

---------------------------------------------------------------------------
\* A stop and a disconnect.

LEMMA EndRunsViewed ==
    ASSUME OwnedInv, ViewerInv, NEW i \in CallIds, RunStop(i) \/ RunDisconnect(i)
    PROVE  ViewerInv'
<1>1. TypeOK /\ Owned \in SUBSET CallIds /\ OwnedSubscriptions \in SUBSET CallIds
  BY DEF OwnedInv, Base, Owned, OwnedSubscriptions
<1>2. \E p \in Phases : GotoAndWait(i, p, Owned) \/ GotoAndWait(i, p, OwnedSubscriptions)
  BY DEF RunStop, RunDisconnect, Phases
<1>3. calls[i].phase # "settled" /\ UNCHANGED intentVars /\ UNCHANGED snapshotVars
  BY DEF RunStop, RunDisconnect
<1>4. EndsStay
  BY <1>1, <1>2, <1>3, WaitKeepsEnds
<1>. QED
  BY <1>3, <1>4, ViewerStays DEF intentVars, Closing

LEMMA EndClearedViewed ==
    ASSUME OwnedInv, ViewerInv, NEW i \in CallIds, NEW failed \in BOOLEAN,
           StopCleared(i, failed) \/ DisconnectCleared(i, failed)
    PROVE  ViewerInv'
<1>1. Base /\ TypeOK
  BY DEF OwnedInv, Base
<1>2. calls[i].phase # "settled" /\ UNCHANGED intentVars
  BY DEF StopCleared, DisconnectCleared
<1>3. IF failed THEN Settle(i) ELSE \E p \in Phases : Goto(i, p)
  BY DEF StopCleared, DisconnectCleared, Phases
<1>4. EndsStay
  BY <1>1, <1>2, <1>3, GotoKeepsEnds, SettleKeepsEnds
<1>5. CASE UNCHANGED snapshotVars
  BY <1>2, <1>4, <1>5, ViewerStays DEF intentVars, Closing
<1>6. CASE failed /\ i = subscriptionIntent /\ ChangeSubscription("failed")
  <2>1. ~IsPendingEnd(i)' /\ ~Closing
    BY <1>1, <1>3, <1>6, SettleKeepsEnds, OwnerIsIntent
  <2>2. ~IsPendingEnd(subscriptionIntent)'
    BY <1>2, <1>6, <2>1 DEF IsPendingEnd, intentVars
  <2>3. PICK state \in SubscriptionStates : state = "failed"
    BY DEF SubscriptionStates
  <2>. QED
    BY <1>2, <1>4, <1>6, <2>1, <2>2, <2>3, SubscriptionIsViewed DEF intentVars
<1>7. CASE failed /\ i = connectionIntent /\ ChangeConnection("failed")
  <2>1. ~IsPendingEnd(i)' /\ ~Closing
    BY <1>1, <1>3, <1>7, SettleKeepsEnds, OwnerIsIntent
  <2>2. ~IsPendingEnd(connectionIntent)'
    BY <1>2, <1>7, <2>1 DEF IsPendingEnd, intentVars
  <2>3. PICK state \in ConnectionStates : state = "failed"
    BY DEF ConnectionStates
  <2>. QED
    BY <1>2, <1>4, <1>7, <2>1, <2>2, <2>3, ConnectionIsViewed DEF intentVars
<1>. QED
  BY <1>5, <1>6, <1>7 DEF StopCleared, DisconnectCleared, OwnsConnection

\* The result of a call that was superseded is dropped, or shows nothing new.
LEMMA LateResultIsViewed ==
    ASSUME OwnedInv, ViewerInv, ~Closing, shutdown' = shutdown, NEW i \in CallIds, IsPendingEnd(i), Settle(i),
           UNCHANGED <<connectionIntent, subscriptionIntent>>, subscriptionIntent # i,
           NEW c \in Nat, NEW cs \in ConnectionStates,
           c < viewed.revision.c \/ (c = viewed.revision.c /\ cs = viewed.connection),
           viewed' = Viewing(c, cs, calls[i].reserved.s, Ended),
           UNCHANGED <<connection, subscription, subscribed, revisions, shown>>
    PROVE  ViewerInv'
<1> DEFINE s == calls[i].reserved.s
<1>1. TypeOK /\ SnapshotTyped /\ ~Closing' /\ ViewerConverges /\ ViewedIsBetween /\ IsOrdered(i)
  BY SnapshotIsTyped DEF OwnedInv, Base, Closing, ViewerInv
<1>2. /\ s \in Nat /\ shown.c \in Nat /\ shown.s \in Nat /\ viewed.revision.c \in Nat
      /\ viewed.revision.s \in Nat /\ Ended \in SubscriptionStates
      /\ revisions.c \in Nat /\ revisions.s \in Nat
  BY <1>1, NumbersOfSnapshots
<1>. HIDE DEF s
<1>3. viewed' = Viewing(c, cs, s, Ended)
  BY DEF s
<1>4. /\ viewed'.revision.c = IF c < viewed.revision.c THEN viewed.revision.c ELSE c
      /\ viewed'.revision.s = IF s < viewed.revision.s THEN viewed.revision.s ELSE s
      /\ viewed'.connection = IF c < viewed.revision.c THEN viewed.connection ELSE cs
      /\ viewed'.subscription = IF s < viewed.revision.s THEN viewed.subscription ELSE Ended
  BY <1>1, <1>2, <1>3, ViewingTyped
<1>5. s <= revisions.s /\ (subscription # Ended => s < viewed.revision.s)
  BY <1>1 DEF IsOrdered, s
<1>6. ViewerConverges' /\ ViewedIsBetween'
  BY <1>1, <1>2, <1>4, <1>5 DEF ViewerConverges, ViewedIsBetween
<1>7. EndsStay
  BY <1>1, SettleKeepsEnds
<1>8. subscription' = Ended' \/ SubscriptionPartStays
  BY <1>2, <1>4, <1>5 DEF SubscriptionPartStays, Ended
<1>9. ConnectionPartStays
  BY <1>2, <1>4 DEF ConnectionPartStays
<1>10. RevisionsGrow /\ viewed'.revision.c \in Nat /\ viewed'.revision.s \in Nat
  BY <1>1, <1>2, <1>4 DEF RevisionsGrow, SnapshotTyped
<1>11. ASSUME NEW j \in CallIds, IsPendingEnd(j)' PROVE IsOrdered(j)'
  BY <1>7, <1>8, <1>9, <1>10, <1>11, ResultStaysOrdered DEF EndsStay
<1>. QED
  BY <1>6, <1>11 DEF ViewerInv

LEMMA StopFinishesViewed ==
    ASSUME OwnedInv, ViewerInv, NEW i \in CallIds, StopFinishes(i)
    PROVE  ViewerInv'
<1>1. /\ Base /\ TypeOK /\ SnapshotTyped /\ IsPendingEnd(i) /\ Settle(i) /\ UNCHANGED intentVars
      /\ calls[i].kind = "stop"
  BY SnapshotIsTyped DEF OwnedInv, Base, StopFinishes, IsPendingEnd
<1>2. CASE Closing
  BY <1>1, <1>2 DEF ViewerInv, ViewerConverges, Closing, intentVars
<1>3. CASE ~Closing /\ subscriptionIntent # i
  <2>1. /\ viewed' = Viewing(viewed.revision.c, viewed.connection, calls[i].reserved.s, Ended)
        /\ UNCHANGED <<connection, subscription, subscribed, revisions, shown>>
    BY <1>3 DEF StopFinishes
  <2>2. viewed.revision.c \in Nat /\ viewed.connection \in ConnectionStates
    BY <1>1 DEF SnapshotTyped, Revisions
  <2>. QED
    BY <1>1, <1>3, <2>1, <2>2, LateResultIsViewed DEF intentVars
<1>4. CASE ~Closing /\ subscriptionIntent = i
  <2> DEFINE s == calls[i].reserved.s
  <2>1. /\ s \in Nat /\ shown.c \in Nat /\ viewed.revision.c \in Nat /\ viewed.revision.s \in Nat
        /\ Ended \in SubscriptionStates /\ revisions.c \in Nat /\ revisions.s \in Nat
    BY <1>1, NumbersOfSnapshots
  <2>2. s <= revisions.s /\ (subscription # Ended => viewed.revision.s < s)
    BY <1>1, <1>4 DEF ViewerInv, IsOrdered
  <2>3. /\ subscription' = Ended /\ connection' = connection /\ subscribed' = subscribed
        /\ revisions' = revisions /\ Show(shown.c, s)
    BY <1>4 DEF StopFinishes
  <2>. HIDE DEF s
  <2>4. SnapshotTyped' /\ RevisionsGrow
    BY <1>1, <2>1, <2>3, ShowIsTyped DEF SnapshotTyped, RevisionsGrow
  <2>5. shown.c <= revisions.c /\ (s < viewed.revision.s => subscription' = subscription)
    BY <1>4, <2>1, <2>2, <2>3 DEF ViewerInv, ViewedIsBetween
  <2>6. /\ ViewerConverges' /\ ViewedIsBetween'
        /\ viewed'.revision.c = IF shown.c < viewed.revision.c THEN viewed.revision.c ELSE shown.c
        /\ viewed'.revision.c \in Nat /\ viewed'.revision.s \in Nat
    BY <1>4, <2>1, <2>2, <2>3, <2>4, <2>5, ShownIsViewed
  <2>7. EndsStay
    BY <1>1, SettleKeepsEnds
  <2>8. subscription' = Ended'
    BY <2>3 DEF Ended
  <2>9. ConnectionPartStays
    BY <1>1, <1>4, <2>1, <2>6 DEF ConnectionPartStays, intentVars, ViewerInv, ViewedIsBetween
  <2>10. ASSUME NEW j \in CallIds, IsPendingEnd(j)' PROVE IsOrdered(j)'
    BY <1>4, <2>4, <2>6, <2>7, <2>8, <2>9, <2>10, ResultStaysOrdered DEF EndsStay
  <2>. QED
    BY <2>6, <2>10 DEF ViewerInv
<1>. QED
  BY <1>2, <1>3, <1>4

LEMMA DisconnectFinishesViewed ==
    ASSUME OwnedInv, ViewerInv, NEW i \in CallIds, DisconnectFinishes(i)
    PROVE  ViewerInv'
<1> DEFINE c == calls[i].reserved.c
<1> DEFINE s == calls[i].reserved.s
<1>1. /\ Base /\ TypeOK /\ SnapshotTyped /\ IsPendingEnd(i) /\ Settle(i)
      /\ calls[i].kind = "disconnect" /\ IsSetup(i)
      /\ connectionIntent' = connectionIntent /\ subscriptionIntent' = subscriptionIntent
      /\ shutdown' = shutdown
  BY SnapshotIsTyped DEF OwnedInv, Base, DisconnectFinishes, IsPendingEnd, IsSetup
<1>2. CASE Closing
  BY <1>1, <1>2 DEF ViewerInv, ViewerConverges, Closing
<1>3. ASSUME ~Closing
      PROVE  /\ c \in Nat /\ s \in Nat /\ shown.c \in Nat /\ shown.s \in Nat
             /\ viewed.revision.c \in Nat /\ viewed.revision.s \in Nat
             /\ Ended \in SubscriptionStates /\ revisions.c \in Nat /\ revisions.s \in Nat
             /\ ViewerConverges /\ ViewedIsBetween
             /\ c <= revisions.c /\ s <= revisions.s
             /\ IF i = connectionIntent THEN viewed.revision.c < c ELSE c < viewed.revision.c
             /\ subscription # Ended =>
                   IF i = subscriptionIntent THEN viewed.revision.s < s ELSE s < viewed.revision.s
  <2>1. IsOrdered(i)
    BY <1>1, <1>3 DEF ViewerInv
  <2>. QED
    BY <1>1, <1>3, <2>1, NumbersOfSnapshots DEF IsOrdered, ViewerInv
<1>4. CASE ~Closing /\ connectionIntent # i
  <2>1. viewed' = Viewing(c, "disconnected", s, Ended)
        /\ UNCHANGED <<connection, subscription, subscribed, revisions, shown>>
    BY <1>4 DEF DisconnectFinishes, OwnsConnection
  <2>2. subscriptionIntent # i
    BY <1>1, <1>4, OwnerIsIntent
  <2>3. PICK cs \in ConnectionStates : cs = "disconnected"
    BY DEF ConnectionStates
  <2>4. c \in Nat /\ c < viewed.revision.c
    BY <1>3, <1>4
  <2>5. viewed' = Viewing(c, cs, calls[i].reserved.s, Ended)
    BY <2>1, <2>3
  <2>. HIDE DEF c
  <2>. QED
    BY <1>1, <1>4, <2>1, <2>2, <2>4, <2>5, LateResultIsViewed
<1>5. CASE ~Closing /\ connectionIntent = i
  <2>1. /\ connection' = "disconnected" /\ subscribed' = subscribed /\ revisions' = revisions
        /\ \/ subscriptionIntent = i /\ subscription' = Ended /\ Show(c, s)
           \/ subscriptionIntent # i /\ subscription' = subscription /\ Show(c, shown.s)
    BY <1>5 DEF DisconnectFinishes, OwnsConnection
  <2>2. PICK t \in Nat : /\ t = (IF subscriptionIntent = i THEN s ELSE shown.s) /\ Show(c, t)
    BY <1>3, <1>5, <2>1
  <2>. HIDE DEF c, s
  <2>3. /\ c \in Nat /\ viewed.revision.c < c /\ c <= revisions.c /\ t <= revisions.s
        /\ t < viewed.revision.s => subscription' = subscription
        /\ \/ subscription' = Ended'
           \/ subscription' = subscription /\ t = shown.s
    BY <1>3, <1>5, <2>1, <2>2 DEF ViewedIsBetween, Ended
  <2>4. SnapshotTyped' /\ RevisionsGrow
    <3>1. connection' \in ConnectionStates /\ subscription' \in SubscriptionStates
      BY <1>1, <1>3, <1>5, <2>1 DEF ConnectionStates, SnapshotTyped
    <3>. QED
      BY <1>1, <1>3, <1>5, <2>1, <2>2, <2>3, <3>1, ShowIsTyped DEF SnapshotTyped, RevisionsGrow
  <2>5. ~(c < viewed.revision.c) /\ c <= revisions'.c /\ t <= revisions'.s
    BY <1>3, <1>5, <2>1, <2>3
  <2>6. /\ ViewerConverges' /\ ViewedIsBetween'
        /\ viewed'.revision.c = IF c < viewed.revision.c THEN viewed.revision.c ELSE c
        /\ viewed'.revision.s = IF t < viewed.revision.s THEN viewed.revision.s ELSE t
        /\ viewed'.revision.c \in Nat /\ viewed'.revision.s \in Nat
    BY <1>5, <2>2, <2>3, <2>4, <2>5, ShownIsViewed
  <2>7. EndsStay /\ ~IsPendingEnd(i)'
    BY <1>1, SettleKeepsEnds
  <2>8. ASSUME NEW j \in CallIds, IsPendingEnd(j)' PROVE IsOrdered(j)'
    <3>1. EndStays(j) /\ j # i
      BY <2>7, <2>8 DEF EndsStay
    <3>2. subscription' = Ended' \/ SubscriptionPartStays
      BY <1>1, <1>3, <1>5, <2>1, <2>3, <2>6 DEF SubscriptionPartStays, ViewedIsBetween
    <3>3. viewed.revision.c <= viewed'.revision.c /\ j # connectionIntent /\ j # connectionIntent'
      BY <1>1, <1>3, <1>5, <2>3, <2>6, <3>1
    <3>. QED
      BY <1>5, <2>4, <2>6, <2>8, <3>1, <3>2, <3>3, ResultStaysOrdered
  <2>. QED
    BY <2>6, <2>8 DEF ViewerInv
<1>. QED
  BY <1>2, <1>4, <1>5

---------------------------------------------------------------------------
LEMMA ViewerInvNext ==
    ASSUME OwnedInv, ViewerInv, [Next]_vars
    PROVE  ViewerInv'
<1>1. ASSUME NEW i \in CallIds, Called(i) PROVE ViewerInv'
  BY <1>1, ConnectViewed, DisconnectViewed, StartViewed, StopViewed DEF Called
<1>2. CASE Shutdown
  BY <1>2 DEF Shutdown, ViewerInv, ViewerConverges, Closing
<1>3. CASE RunNext
  <2>1. ASSUME NEW i \in Scheduled, RunConnect(i) \/ RunStart(i) \/ RunStop(i) \/ RunDisconnect(i)
        PROVE  ViewerInv'
    <3>1. i \in CallIds
      BY DEF Scheduled
    <3>. QED
      BY <2>1, <3>1, ConnectIsViewed, StartIsViewed, EndRunsViewed
  <2>2. CASE RunShutdown
    BY <2>2 DEF RunShutdown, ViewerInv, ViewerConverges, Closing
  <2>. QED
    BY <1>3, <2>1, <2>2 DEF RunNext
<1>4. ASSUME NEW i \in CallIds, Continue(i) PROVE ViewerInv'
  <2>1. ASSUME NEW failed \in BOOLEAN,
               \/ ConnectCleared(i, failed) \/ ConnectRecovers(i, failed)
               \/ StartCleared(i, failed) \/ StopCleared(i, failed)
               \/ DisconnectCleared(i, failed)
               \/ LossCleaned(i, failed) \/ SubscriptionCleaned(i, failed)
        PROVE  ViewerInv'
    BY <2>1, ConnectAnswersAreViewed, StartIsViewed, FailureIsViewed, EndClearedViewed
  <2>. QED
    BY <1>4, <2>1, ConnectIsViewed, StartIsViewed, StopFinishesViewed, DisconnectFinishesViewed
    DEF Continue
<1>5. ASSUME NEW i \in CallIds, EngineLoses(i) \/ SubscriptionFails(i) PROVE ViewerInv'
  BY <1>5, LossIsViewed, FailureIsViewed
<1>6. ASSUME NEW failed \in BOOLEAN, ShutdownFinishes(failed) PROVE ViewerInv'
  BY <1>6 DEF ShutdownFinishes, ViewerInv, ViewerConverges, Closing
<1>7. CASE UNCHANGED vars
  <2>1. EndsStay
    BY <1>7 DEF vars, EndsStay, EndStays, IsPendingEnd
  <2>2. UNCHANGED snapshotVars /\ UNCHANGED <<connectionIntent, subscriptionIntent, shutdown>>
    BY <1>7 DEF vars, intentVars
  <2>. QED
    BY <2>1, <2>2, ViewerStays DEF Closing
<1>. QED
  BY <1>1, <1>2, <1>3, <1>4, <1>5, <1>6, <1>7 DEF Next

\* A viewer that drops older snapshots holds what the session shows, whichever
\* calls were superseded and whenever their results arrive.
THEOREM ViewersConverge == Spec => []ViewerConverges
<1>1. Init => ViewerInv
  <2> SUFFICES ASSUME Init PROVE ViewerInv
    OBVIOUS
  <2>1. /\ calls = [i \in CallIds |-> NoCall] /\ revisions = [c |-> 0, s |-> 0] /\ shown = revisions
        /\ viewed = [revision |-> revisions, connection |-> connection, subscription |-> subscription]
    BY DEF Init
  <2>2. \A i \in CallIds : ~IsPendingEnd(i)
    BY <2>1 DEF IsPendingEnd, NoCall
  <2>. QED
    BY <2>1, <2>2 DEF ViewerInv, ViewerConverges, ViewedIsBetween
<1>2. OwnedInv /\ ViewerInv /\ [Next]_vars => ViewerInv'
  BY ViewerInvNext
<1>3. ViewerInv => ViewerConverges
  BY DEF ViewerInv
<1>. QED
  BY <1>1, <1>2, <1>3, OwnedInvariant, PTL DEF Spec
=============================================================================
