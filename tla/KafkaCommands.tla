--------------------------- MODULE KafkaCommands ---------------------------
(***************************************************************************)
(* KafkaCommands: the commands of the Kafka facade, from their admission   *)
(* to their answer. Commands run side by side; what keeps them apart is    *)
(*   intents     a newer connection or read command supersedes older ones  *)
(*   protection  preferences change only while nothing remote runs         *)
(*   lifetimes   a connection command ends what the one before it began    *)
(*   admission   a closing facade waits for the commands it admitted       *)
(*                                                                         *)
(* The phase of a command is the await it is in:                           *)
(*   checking    the preferences are being loaded                          *)
(*   managed     is the profile a plugin's?                                *)
(*   resolving   the profile, and the plugin's validation of it            *)
(*   idling      the record ranges of the old connection are closing       *)
(*   connecting  session.connect                                           *)
(*   marking     the profile store, before the profile becomes active      *)
(*   closing     session.disconnect and the record ranges                  *)
(*   verifying   does a plugin have pending work?                          *)
(*   preparing   the record ranges are closing, before a change is saved   *)
(*   saving      the change of the preferences                             *)
(*   running     a remote operation                                        *)
(*   stopping    the stop of a read                                        *)
(*   joining     a stop that was called after shutdown, and waits for it   *)
(* The session (KafkaSession), a read and a range job are seen from here:  *)
(* they settle as they like, but a superseded connect never succeeds.      *)
(***************************************************************************)
EXTENDS Integers, Sequences, FiniteSets

CONSTANTS
    MaxCommands,  \* bound: commands in a behavior
    Profiles,     \* the saved profiles
    Managed,      \* those that belong to the plugin
    None,
    Bounds        \* bound: the kinds of each command, and is there a shutdown

ASSUME CommandsAssumption ==
    /\ MaxCommands \in Nat
    /\ Managed \subseteq Profiles
    /\ None \notin Profiles /\ None \notin Nat

ConnectionKinds == {"connect", "profile", "disconnect"}
ReadKinds == {"start", "stop", "recovery"}
LocalKinds == {"disconnect", "stop", "recovery"}
ChangeKinds == {"protection", "codecs"}
RemoteKinds == {"connect", "profile", "read", "write", "export", "start"}
Kinds == LocalKinds \cup ChangeKinds \cup RemoteKinds

ASSUME BoundsAssumption ==
    Bounds \subseteq [kinds : [1 .. MaxCommands -> SUBSET Kinds], shutdown : BOOLEAN]

VARIABLES
    commands,   \* every command, in the order of admission
    session,    \* the session's state, and the newest operation called on it
    latest,     \* connectionIntent: the newest connection command dispatched
    lifetime,   \* connectionLifetime: the command whose work is not aborted
    waiting,    \* the connection commands that wait for the ranges, in turn
    active,     \* the active profile
    reading,    \* the start whose read the facade presents, and its connection once it has one
    ranges,     \* the range job: its state, preferences and connection
    prefs,      \* the preferences: how often saved, read-only, store ready
    host,       \* open, closing, draining (idle) or closed
    plugins,    \* open or closed
    bounds

vars == <<commands, session, latest, lifetime, waiting, active, reading, ranges, prefs,
          host, plugins, bounds>>
intents == <<latest, lifetime, waiting>>
work == <<reading, ranges>>
hostVars == <<host, plugins, bounds>>

Ids == 1 .. MaxCommands
Host == MaxCommands + 1  \* shutdown, as the owner of a lifetime and a session operation

NoCommand ==
    [kind |-> "none", phase |-> "unused", internal |-> FALSE, profile |-> None, prefs |-> 0,
     dispatched |-> FALSE, session |-> "none", answer |-> "none"]
NoRead == [start |-> None, conn |-> None]
NoJob == [state |-> "idle", prefs |-> None, conn |-> None]

Init ==
    /\ commands = [c \in Ids |-> NoCommand]
    /\ session = [state |-> "disconnected", op |-> None]
    /\ latest = None /\ lifetime = None /\ waiting = <<>>
    /\ active = None
    /\ reading = NoRead
    /\ ranges = NoJob
    /\ prefs \in [saves : {0}, readOnly : BOOLEAN, ready : BOOLEAN]
    /\ host = "open" /\ plugins = "open"
    /\ bounds \in Bounds

---------------------------------------------------------------------------
IsOfKind(c, kinds) == commands[c].kind \in kinds
InPhase(c, phases) == commands[c].phase \in phases
Pending(c) == ~InPhase(c, {"unused", "done"})
IsNext(c) ==
    /\ InPhase(c, {"unused"})
    /\ \A d \in 1 .. c - 1 : ~InPhase(d, {"unused"})
After(c) == c + 1 .. MaxCommands

\* connectionChanges > 0
ConnectionChanges == \E c \in Ids : IsOfKind(c, ConnectionKinds) /\ Pending(c)

\* Mutant: a stop that waits for the shutdown is tracked.
JoiningIsTracked(c) == Pending(c)
\* Mutant: the commands of the plugin are not.
TrackedExternally(c) == Pending(c) /\ ~InPhase(c, {"joining"}) /\ ~commands[c].internal
\* What a shutdown waits for. A stop that waits for the shutdown is not tracked.
Tracked(c) == Pending(c) /\ ~InPhase(c, {"joining"})

\* this.changing, and the commands that remoteOperations counts
Changing == \E c \in Ids : InPhase(c, {"verifying", "preparing", "saving"})
\* Mutant: a command counts when it is dispatched.
CountedAtDispatch(c) == Pending(c) /\ ~InPhase(c, {"checking", "managed"})
Counted(c) == Pending(c) /\ ~InPhase(c, {"checking"})
RemoteOperations == {c \in Ids : IsOfKind(c, RemoteKinds) /\ Counted(c)}

\* A command of the plugin is admitted as long as the facade is there.
Accepts(internal) == internal \/ host = "open"

\* Mutant: reads do not supersede reads.
IsStaleConnection(c) == \E d \in After(c) : IsOfKind(d, ConnectionKinds)
\* authorizationIntent and consumptionIntent: both count at admission.
IsStale(c) ==
    \/ \E d \in After(c) : IsOfKind(d, ConnectionKinds)
    \/ IsOfKind(c, {"start"}) /\ \E d \in After(c) : IsOfKind(d, ReadKinds)

Goes(c, phase) == commands' = [commands EXCEPT ![c].phase = phase]
Dispatched(c, phase) ==
    commands' = [commands EXCEPT ![c].phase = phase, ![c].dispatched = TRUE,
        ![c].prefs = IF InPhase(c, {"managed"}) THEN @ ELSE prefs.saves]
Answers(c, answer) ==
    commands' = [commands EXCEPT ![c].phase = "done", ![c].session = "none", ![c].answer = answer]

\* Invalidation revokes what runs; a cleanup that failed is tried again.
Revoked == [ranges EXCEPT !.state = "revoked"]
RangesIdle == ranges.state \in {"idle", "dirty"}
IsConnected == session.state = "connected"
ServedBy(conn) == session = [state |-> "connected", op |-> conn]

---------------------------------------------------------------------------
(* Admission. *)

New(kind, profile, internal, phase) ==
    [NoCommand EXCEPT !.kind = kind, !.profile = profile, !.internal = internal,
                      !.phase = phase, !.dispatched = kind \in LocalKinds]

\* facade.disconnect, up to its first await: local, so dispatched at admission.
Disconnects(c) ==
    /\ commands' = [commands EXCEPT ![c] = New("disconnect", None, FALSE, "closing")]
    /\ latest' = c /\ lifetime' = c
    /\ reading' = NoRead /\ ranges' = Revoked
    /\ session' = [state |-> "disconnecting", op |-> c]
    /\ UNCHANGED <<waiting, active>>

\* messages.stop, and stopStream, which the delivery calls to recover.
Stops(c, kind) ==
    /\ commands' = [commands EXCEPT ![c] = New(kind, None, FALSE, "stopping")]
    /\ reading' = NoRead
    /\ UNCHANGED <<session, intents, active, ranges>>

JoinsShutdown(c) ==
    /\ host # "open"
    /\ commands' = [commands EXCEPT ![c] = New("recovery", None, FALSE, "joining")]
    /\ UNCHANGED <<session, intents, active, work>>

\* Mutant: an export is admitted whatever goes on.
NeverRefused(kind) == FALSE
\* An export waits for no connection change: it is refused while there is one.
Refused(kind) == kind = "export" /\ ConnectionChanges
Checks(c, kind, profile, internal) ==
    /\ commands' = [commands EXCEPT ![c] =
           IF Refused(kind)
           THEN [New(kind, profile, internal, "done") EXCEPT !.answer = "failed"]
           ELSE New(kind, profile, internal, "checking")]
    /\ UNCHANGED <<session, intents, active, work>>

Submit(c, kind) ==
    /\ IsNext(c) /\ kind \in bounds.kinds[c]
    /\ \/ /\ host = "open"
          /\ \/ kind = "disconnect" /\ Disconnects(c)
             \/ kind \in {"stop", "recovery"} /\ Stops(c, kind)
             \/ kind = "profile" /\ \E p \in Profiles : Checks(c, kind, p, FALSE)
             \/ kind \notin LocalKinds \cup {"profile"} /\ Checks(c, kind, None, FALSE)
       \/ kind = "recovery" /\ JoinsShutdown(c)
    /\ UNCHANGED <<prefs, hostVars>>

\* The plugin's own commands: its cleanup still admits them.
PluginSubmits(c) ==
    /\ IsNext(c) /\ "read" \in bounds.kinds[c]
    /\ host = "closing" /\ plugins = "open"
    /\ Checks(c, "read", None, TRUE)
    /\ UNCHANGED <<prefs, hostVars>>

---------------------------------------------------------------------------
(* Dispatch: the second check of the intents, then the command's own code. *)

FailsAtOnce(c) == Answers(c, "failed") /\ UNCHANGED <<session, intents, active, work>>

\* connect: its intent is counted before its trust is resolved, which may fail.
DispatchConnect(c) ==
    /\ latest' = c
    /\ \/ /\ Answers(c, "failed")
          /\ UNCHANGED <<lifetime, waiting, work>>
       \/ /\ Dispatched(c, "idling")
          /\ lifetime' = c /\ waiting' = Append(waiting, c)
          /\ reading' = NoRead /\ ranges' = Revoked
    /\ UNCHANGED <<session, active>>

DispatchProfile(c) ==
    /\ latest' = c
    /\ Dispatched(c, "resolving")
    /\ UNCHANGED <<session, lifetime, waiting, active, work>>

\* A new read takes the place of the presented one even if it fails to start. Which
\* connection it reads is not known yet: stopConsumption and liveRules.prepare come first.
DispatchStart(c) ==
    /\ Dispatched(c, "running")
    /\ reading' = [start |-> c, conn |-> None]
    /\ UNCHANGED <<session, intents, active, ranges>>

\* The job outlives the command, which answers at once.
DispatchExport(c) ==
    IF IsConnected /\ ranges.state = "idle"
    THEN /\ Answers(c, "ok")
         /\ ranges' = [state |-> "running", prefs |-> prefs.saves, conn |-> session.op]
         /\ UNCHANGED <<session, intents, active, reading>>
    ELSE FailsAtOnce(c)

DispatchChange(c) ==
    /\ Dispatched(c, "preparing")
    /\ ranges' = Revoked
    /\ UNCHANGED <<session, intents, active, reading>>

Dispatch(c) ==
    IF ~Accepts(commands[c].internal) \/ IsStale(c) THEN FailsAtOnce(c) ELSE
    \/ IsOfKind(c, {"connect"}) /\ DispatchConnect(c)
    \/ IsOfKind(c, {"profile"}) /\ DispatchProfile(c)
    \/ IsOfKind(c, {"start"}) /\ DispatchStart(c)
    \/ IsOfKind(c, {"export"}) /\ DispatchExport(c)
    \/ IsOfKind(c, ChangeKinds) /\ DispatchChange(c)
    \/ /\ IsOfKind(c, {"read", "write"})
       /\ Dispatched(c, "running")
       /\ UNCHANGED <<session, intents, active, work>>

\* The preferences are there, in the order they were asked for.
Check(c) ==
    /\ InPhase(c, {"checking"})
    /\ \A d \in 1 .. c - 1 : ~InPhase(d, {"checking"})
    /\ IF \/ Changing
          \/ IsOfKind(c, ChangeKinds)
             /\ (session.state \notin {"disconnected", "failed"} \/ RemoteOperations # {})
          \/ IsOfKind(c, RemoteKinds)
             /\ (~prefs.ready \/ (prefs.readOnly /\ IsOfKind(c, {"write"})))
       THEN FailsAtOnce(c)
       ELSE IF IsOfKind(c, {"protection"})
       THEN Goes(c, "verifying") /\ UNCHANGED <<session, intents, active, work>>
       ELSE IF prefs.readOnly /\ IsOfKind(c, {"profile"})
       THEN /\ commands' = [commands EXCEPT ![c].phase = "managed", ![c].prefs = prefs.saves]
            /\ UNCHANGED <<session, intents, active, work>>
       ELSE Dispatch(c)
    /\ UNCHANGED <<prefs, hostVars>>

\* Read-only: a plugin's profile is not connected.
ManagedAnswered(c, fails) ==
    /\ InPhase(c, {"managed"})
    /\ IF fails \/ commands[c].profile \in Managed THEN FailsAtOnce(c) ELSE Dispatch(c)
    /\ UNCHANGED <<prefs, hostVars>>

PluginWorkVerified(c, pending) ==
    /\ InPhase(c, {"verifying"})
    /\ IF pending THEN FailsAtOnce(c) ELSE Dispatch(c)
    /\ UNCHANGED <<prefs, hostVars>>

---------------------------------------------------------------------------
(* Connecting and disconnecting. *)

\* resolveConnection, and the plugin's validation of its profile.
ProfileResolved(c, fails) ==
    /\ InPhase(c, {"resolving"})
    /\ IF fails \/ latest # c
       THEN FailsAtOnce(c)
       ELSE /\ Goes(c, "idling")
            /\ lifetime' = c /\ waiting' = Append(waiting, c)
            /\ reading' = NoRead /\ ranges' = Revoked
            /\ UNCHANGED <<session, latest, active>>
    /\ UNCHANGED <<prefs, hostVars>>

\* The lifetime alone is also what a mutant asks: a later intent is not seen.
HoldsLifetime(c) == lifetime = c
IsCurrentCommand(c) == latest = c /\ HoldsLifetime(c)

\* The ranges are closed: the old profile is left before the intent is checked.
Idled(c) ==
    /\ waiting # <<>> /\ Head(waiting) = c
    /\ RangesIdle
    /\ waiting' = Tail(waiting)
    /\ active' = IF ranges.state = "dirty" THEN active ELSE None
    /\ IF ranges.state = "idle" /\ IsCurrentCommand(c)
       THEN Goes(c, "connecting") /\ session' = [state |-> "connecting", op |-> c]
       ELSE Answers(c, "failed") /\ UNCHANGED session
    /\ UNCHANGED <<latest, lifetime, work, prefs, hostVars>>

\* session.connect settles. A superseded attempt, or one whose lifetime is
\* over, never succeeds.
ConnectSettles(c, fails) ==
    /\ InPhase(c, {"connecting"}) /\ commands[c].session = "none"
    /\ \/ /\ ~fails /\ session.op = c /\ HoldsLifetime(c)
          /\ session' = [session EXCEPT !.state = "connected"]
          /\ commands' = [commands EXCEPT ![c].session = "ok"]
       \/ /\ fails
          /\ session' = IF session.op = c THEN [session EXCEPT !.state = "failed"] ELSE session
          /\ Answers(c, "failed")
    /\ UNCHANGED <<intents, active, work, prefs, hostVars>>

\* The caller of session.connect goes on.
Connected(c) ==
    /\ InPhase(c, {"connecting"}) /\ commands[c].session = "ok"
    /\ IF HoldsLifetime(c) /\ IsOfKind(c, {"profile"})
       THEN Goes(c, "marking")
       ELSE Answers(c, IF HoldsLifetime(c) THEN "ok" ELSE "failed")
    /\ UNCHANGED <<session, intents, active, work, prefs, hostVars>>

\* Mutant: the profile is marked whatever happened since.
MarkedAnyway(c, fails) ==
    /\ InPhase(c, {"marking"})
    /\ IF fails
       THEN Answers(c, "failed") /\ UNCHANGED active
       ELSE Answers(c, "ok") /\ active' = commands[c].profile
    /\ UNCHANGED <<session, intents, work, prefs, hostVars>>

\* profiles.markActive, which checks the lifetime last.
Marked(c, fails) ==
    /\ InPhase(c, {"marking"})
    /\ IF fails \/ ~HoldsLifetime(c)
       THEN Answers(c, "failed") /\ UNCHANGED active
       ELSE Answers(c, "ok") /\ active' = commands[c].profile
    /\ UNCHANGED <<session, intents, work, prefs, hostVars>>

\* session.disconnect settles; a newer operation keeps its own state.
EndSettles(c, fails) ==
    /\ InPhase(c, {"closing"}) /\ commands[c].session = "none"
    /\ commands' = [commands EXCEPT ![c].session = IF fails THEN "failed" ELSE "ok"]
    /\ session' = IF session.op = c
                  THEN [session EXCEPT !.state = IF fails THEN "failed" ELSE "disconnected"]
                  ELSE session
    /\ UNCHANGED <<intents, active, work, prefs, hostVars>>

Closed(c) ==
    /\ InPhase(c, {"closing"}) /\ commands[c].session # "none" /\ RangesIdle
    /\ IF commands[c].session = "ok" /\ ranges.state = "idle" /\ HoldsLifetime(c)
       THEN Answers(c, "ok") /\ active' = None
       ELSE Answers(c, "failed") /\ UNCHANGED active
    /\ UNCHANGED <<session, intents, work, prefs, hostVars>>

---------------------------------------------------------------------------
(* Reads, ranges, changes and other remote operations. *)

\* session.startConsumption takes the connection that serves now; without one it fails.
StreamStarts(c) ==
    /\ IsOfKind(c, {"start"}) /\ InPhase(c, {"running"})
    /\ reading = [start |-> c, conn |-> None] /\ IsConnected
    /\ reading' = [reading EXCEPT !.conn = session.op]
    /\ UNCHANGED <<commands, session, intents, active, ranges, prefs, hostVars>>

\* session.startConsumption settles: it never opens on another connection.
StartSettles(c, fails) ==
    /\ IsOfKind(c, {"start"}) /\ InPhase(c, {"running"})
    /\ \/ /\ ~fails /\ reading.start = c /\ ServedBy(reading.conn)
          /\ Answers(c, "ok") /\ UNCHANGED reading
       \/ /\ fails
          /\ Answers(c, "failed")
          /\ reading' = IF reading.start = c THEN NoRead ELSE reading
    /\ UNCHANGED <<session, intents, active, ranges, prefs, hostVars>>

\* The read ends or fails. The session tells that of a current read only.
ReadEnds ==
    /\ reading # NoRead /\ commands[reading.start].answer = "ok" /\ ServedBy(reading.conn)
    /\ reading' = NoRead
    /\ UNCHANGED <<commands, session, intents, active, ranges, prefs, hostVars>>

StopSettles(c) ==
    /\ InPhase(c, {"stopping"})
    /\ Answers(c, "ok")
    /\ UNCHANGED <<session, intents, active, work, prefs, hostVars>>

RangeEnds(fails) ==
    /\ ranges.state \in {"running", "revoked"}
    /\ ranges' = [NoJob EXCEPT !.state = IF fails THEN "dirty" ELSE "idle"]
    /\ UNCHANGED <<commands, session, intents, active, reading, prefs, hostVars>>

OperationEnds(c) ==
    /\ IsOfKind(c, {"read", "write"}) /\ InPhase(c, {"running"})
    /\ Answers(c, "ok")
    /\ UNCHANGED <<session, intents, active, work, prefs, hostVars>>

\* recordRanges.preparePreferences, before anything is saved.
ChangePrepared(c) ==
    /\ InPhase(c, {"preparing"}) /\ RangesIdle
    /\ IF ranges.state = "dirty" THEN Answers(c, "failed") ELSE Goes(c, "saving")
    /\ UNCHANGED <<session, intents, active, work, prefs, hostVars>>

\* An update needs a store that could be read; a reset makes it ready, and
\* read-only if it was not.
ChangeSaved(c, fails) ==
    /\ InPhase(c, {"saving"})
    /\ \/ /\ fails
          /\ Answers(c, "failed") /\ UNCHANGED prefs
       \/ /\ ~fails /\ (IsOfKind(c, {"codecs"}) => prefs.ready)
          /\ Answers(c, "ok")
          /\ prefs' \in [saves : {prefs.saves + 1}, ready : {TRUE},
                         readOnly : IF ~prefs.ready THEN {TRUE}
                                    ELSE IF IsOfKind(c, {"codecs"}) THEN {prefs.readOnly}
                                    ELSE BOOLEAN]
    /\ UNCHANGED <<session, intents, active, work, hostVars>>

---------------------------------------------------------------------------
(* Shutdown. *)

Shutdown ==
    /\ host = "open" /\ bounds.shutdown
    /\ host' = "closing"
    /\ latest' = Host /\ lifetime' = Host
    /\ reading' = NoRead /\ ranges' = Revoked
    /\ session' = [state |-> "disconnecting", op |-> Host]
    /\ UNCHANGED <<commands, waiting, active, prefs, plugins, bounds>>

SessionShutDown(fails) ==
    /\ session = [state |-> "disconnecting", op |-> Host]
    /\ session' = [session EXCEPT !.state = IF fails THEN "failed" ELSE "disconnected"]
    /\ UNCHANGED <<commands, intents, active, work, prefs, hostVars>>

PluginsClose ==
    /\ host = "closing" /\ plugins = "open"
    /\ plugins' = "closed"
    /\ UNCHANGED <<commands, session, intents, active, work, prefs, host, bounds>>

\* lifecycle.shutdown: every participant is drained.
Drained ==
    /\ host = "closing" /\ plugins = "closed" /\ RangesIdle /\ session.state # "disconnecting"
    /\ host' = "draining"
    /\ UNCHANGED <<commands, session, intents, active, work, prefs, plugins, bounds>>

\* commandAdmission.idle
AdmissionIdle ==
    /\ host = "draining" /\ \A c \in Ids : ~Tracked(c)
    /\ host' = "closed"
    /\ UNCHANGED <<commands, session, intents, active, work, prefs, plugins, bounds>>

Joined(c) ==
    /\ InPhase(c, {"joining"}) /\ host = "closed"
    /\ Answers(c, "ok")
    /\ UNCHANGED <<session, intents, active, work, prefs, hostVars>>

---------------------------------------------------------------------------
\* What goes on by itself, once nothing new is asked of the facade.
Progress ==
    \/ \E c \in Ids :
        \/ Check(c) \/ Idled(c) \/ Connected(c) \/ Closed(c)
        \/ ChangePrepared(c) \/ OperationEnds(c) \/ StreamStarts(c) \/ StopSettles(c) \/ Joined(c)
        \/ \E fails \in BOOLEAN :
            \/ ManagedAnswered(c, fails) \/ PluginWorkVerified(c, fails)
            \/ ProfileResolved(c, fails) \/ ConnectSettles(c, fails) \/ Marked(c, fails)
            \/ EndSettles(c, fails) \/ StartSettles(c, fails) \/ ChangeSaved(c, fails)
    \/ \E fails \in BOOLEAN : RangeEnds(fails) \/ SessionShutDown(fails)
    \/ PluginsClose \/ Drained \/ AdmissionIdle

Next ==
    \/ Progress
    \/ ReadEnds
    \/ Shutdown
    \/ \E c \in Ids : PluginSubmits(c) \/ \E kind \in bounds.kinds[c] : Submit(c, kind)

Spec == Init /\ [][Next]_vars
FairSpec == Spec /\ WF_vars(Progress)
============================================================================
