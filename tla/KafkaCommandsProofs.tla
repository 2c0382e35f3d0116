------------------------ MODULE KafkaCommandsProofs ------------------------
(***************************************************************************)
(* What keeps commands apart that run side by side, proved for any number  *)
(* of commands of any kind, with and without a shutdown.                   *)
(***************************************************************************)
EXTENDS KafkaCommandsProperties, TLAPS

Phases ==
    {"unused", "checking", "managed", "resolving", "idling", "connecting", "marking", "closing",
     "verifying", "preparing", "saving", "running", "stopping", "joining", "done"}
Answered == {"none", "ok", "failed"}
Command ==
    [kind : Kinds \cup {"none"}, phase : Phases, internal : BOOLEAN,
     profile : Profiles \cup {None}, prefs : Nat, dispatched : BOOLEAN,
     session : Answered, answer : Answered]
Owners == Ids \cup {None, Host}

CommandsTyped ==
    /\ commands \in [Ids -> Command]
    /\ session \in [state : {"disconnected", "connecting", "connected", "disconnecting", "failed"},
                    op : Owners]
    /\ latest \in Owners /\ lifetime \in Owners
    /\ waiting \in Seq(Ids)
    /\ active \in Profiles \cup {None}
    /\ reading \in [start : Ids \cup {None}, conn : Ids \cup {None}]
    /\ ranges \in [state : {"idle", "running", "revoked", "dirty"}, prefs : Nat \cup {None},
                   conn : Ids \cup {None}]
    /\ prefs \in [saves : Nat, readOnly : BOOLEAN, ready : BOOLEAN]
    /\ host \in {"open", "closing", "draining", "closed"}
    /\ plugins \in {"open", "closed"}
    /\ bounds \in Bounds

---------------------------------------------------------------------------
(* The inductive invariant. *)

\* What a command of each phase is.
KindFits(k) ==
    /\ k.phase = "unused" => k = NoCommand
    /\ k.phase # "unused" => k.kind \in Kinds
    /\ k.phase \in {"checking", "managed", "resolving", "verifying", "preparing", "saving",
                    "idling", "connecting", "marking", "running"} => k.kind \notin LocalKinds
    /\ k.phase \in {"managed", "resolving", "marking"} => k.kind = "profile"
    /\ k.phase \in {"idling", "connecting"} => k.kind \in {"connect", "profile"}
    /\ k.phase = "closing" => k.kind = "disconnect"
    /\ k.phase \in {"verifying", "preparing", "saving"} => k.kind \in ChangeKinds
    /\ k.phase = "running" => k.kind \in {"start", "read", "write"}
    /\ k.phase = "stopping" => k.kind \in {"stop", "recovery"}
    /\ k.phase = "joining" => k.kind = "recovery"
    /\ k.internal => k.kind = "read"
    /\ k.session # "none" => k.phase \in {"connecting", "marking", "closing"}
CommandsFit == \A c \in Ids : KindFits(commands[c])

\* The commands are admitted one after the other.
AdmittedInOrder ==
    \A c, d \in Ids : c < d /\ InPhase(c, {"unused"}) => InPhase(d, {"unused"})

\* The session has connected for the command, or never will.
Attempted(k) == k.phase \in {"marking", "done"} \/ (k.phase = "connecting" /\ k.session = "ok")

\* The session is connecting for the command.
Connects(k) == k.phase = "connecting" /\ k.session = "none"

\* The session connects and is connected for one command; while it connects
\* there is no active profile.
SessionFits ==
    /\ session.state = "connecting" =>
        /\ session.op \in Ids /\ active = None
        /\ Connects(commands[session.op])
    /\ session.state = "connected" => session.op \in Ids /\ Attempted(commands[session.op])
    /\ session.op \in Ids /\ Connects(commands[session.op]) => session.state = "connecting"

\* The command that waits for the session holds it as long as nothing newer began.
LifetimeFits ==
    \A c \in Ids :
        lifetime = c /\ InPhase(c, {"connecting", "marking"}) /\ Attempted(commands[c]) =>
            ServedBy(c)

\* Each command waits in the queue once.
QueueFits ==
    /\ \A i \in 1 .. Len(waiting) : InPhase(waiting[i], {"idling"})
    /\ \A i, j \in 1 .. Len(waiting) : waiting[i] = waiting[j] => i = j

\* No connection command after the newest one is dispatched.
LatestFits ==
    latest \in Ids =>
        \A d \in After(latest) : IsOfKind(d, ConnectionKinds) => ~commands[d].dispatched

\* A change of the preferences runs alone, and what it may touch is idle.
ChangesRunAlone ==
    /\ Changing => RemoteOperations = {} /\ session.state \notin {"connecting", "connected"}
    /\ (\E c \in Ids : InPhase(c, {"saving"})) => ranges.prefs = None

\* A presented read was started by a command, and runs on a connection that was once
\* made, if it has got that far.
ReadFits ==
    reading # NoRead =>
        /\ reading.start \in Ids /\ InPhase(reading.start, {"running", "done"})
        /\ reading.conn # None => reading.conn \in Ids /\ Attempted(commands[reading.conn])

RangesFit == RangesIdle => ranges.prefs = None

\* An export was admitted while no connection command was pending.
ExportsFit ==
    \A c, d \in Ids :
        IsOfKind(c, {"export"}) /\ InPhase(c, {"checking"}) /\ d < c /\ IsOfKind(d, ConnectionKinds)
            => ~Pending(d)

\* From the shutdown on no command supersedes it and nothing new begins.
HostFits ==
    /\ host # "open" =>
        /\ latest = Host /\ lifetime = Host /\ session.op = Host
        /\ session.state \in {"disconnecting", "disconnected", "failed"}
        /\ reading = NoRead /\ ranges.state # "running"
    /\ host \in {"draining", "closed"} => RangesIdle /\ session.state # "disconnecting"

CommandsInv ==
    /\ CommandsTyped /\ CommandsFit /\ AdmittedInOrder
    /\ SessionFits /\ LifetimeFits /\ QueueFits /\ LatestFits
    /\ ChangesRunAlone /\ ReadFits /\ RangesFit /\ ExportsFit /\ HostFits
    /\ ProtectionIsInForce /\ ConnectionIsShared /\ NewestReadPrevails /\ ClosedIsQuiet

---------------------------------------------------------------------------
(* One command changes at a time.                                          *)

Alone(c) == \A d \in Ids \ {c} : commands'[d] = commands[d]

LEMMA Distinct == None \notin Ids /\ Host \notin Ids /\ Host # None /\ Ids \subseteq Nat
  BY CommandsAssumption DEF Ids, Host

\* Each command is a record that fits its kind.
LEMMA CommandFits ==
  ASSUME CommandsInv, NEW c \in Ids
  PROVE  commands[c] \in Command /\ KindFits(commands[c])
BY Zenon DEF CommandsInv, CommandsTyped, CommandsFit

\* A record that fits its phase takes the place of the one before it.
LEMMA OneCommand ==
  ASSUME CommandsInv, NEW c \in Ids, NEW k \in Command, KindFits(k), k.phase # "unused",
         IsNext(c) \/ ~InPhase(c, {"unused"}),
         commands' = [commands EXCEPT ![c] = k]
  PROVE  /\ commands' \in [Ids -> Command] /\ CommandsFit' /\ AdmittedInOrder'
         /\ Alone(c) /\ commands'[c] = k
<1>1. commands \in [Ids -> Command] BY DEF CommandsInv, CommandsTyped
<1>2. commands' \in [Ids -> Command] /\ Alone(c) /\ commands'[c] = k BY <1>1 DEF Alone
<1>3. CommandsFit' BY <1>2 DEF CommandsInv, CommandsFit, Alone
<1>4. AdmittedInOrder'
  <2> SUFFICES ASSUME NEW a \in Ids, NEW b \in Ids, a < b, commands'[a].phase = "unused"
               PROVE  commands'[b].phase = "unused"
    BY DEF AdmittedInOrder, InPhase
  <2>1. a # c BY <1>2
  <2>2. commands[a].phase = "unused" BY <2>1, <1>2 DEF Alone
  <2>3. commands[b].phase = "unused" BY <2>2 DEF CommandsInv, AdmittedInOrder, InPhase
  <2>4. b # c
    <3>1. ASSUME b = c PROVE FALSE
      <4>1. IsNext(c) BY <3>1, <2>3 DEF InPhase
      <4>2. a \in 1 .. c - 1 BY <3>1 DEF Ids
      <4> QED BY <4>1, <4>2, <2>2 DEF IsNext, InPhase
    <3> QED BY <3>1
  <2> QED BY <2>3, <2>4, <1>2 DEF Alone
<1> QED BY <1>2, <1>3, <1>4

\* What each way of changing a command leaves.
LEMMA AnswerIs ==
  ASSUME CommandsInv, NEW c \in Ids, ~InPhase(c, {"unused"}), NEW a \in Answered, Answers(c, a)
  PROVE  /\ commands' \in [Ids -> Command] /\ CommandsFit' /\ AdmittedInOrder' /\ Alone(c)
         /\ commands'[c] = [commands[c] EXCEPT !.phase = "done", !.session = "none", !.answer = a]
<1> DEFINE k == [commands[c] EXCEPT !.phase = "done", !.session = "none", !.answer = a]
<1>1. commands[c] \in Command BY DEF CommandsInv, CommandsTyped
<1>2. k \in Command BY <1>1 DEF Command, Phases, Answered
<1>3. KindFits(k) /\ k.phase # "unused"
  BY <1>1 DEF CommandsInv, CommandsFit, KindFits, InPhase, Command
<1>4. commands' = [commands EXCEPT ![c] = k] BY <1>1 DEF Answers, Command, CommandsInv, CommandsTyped
<1> HIDE DEF k
<1>5. commands'[c] = k BY <1>2, <1>3, <1>4, OneCommand
<1> QED BY <1>2, <1>3, <1>4, <1>5, OneCommand DEF k

LEMMA GoesIs ==
  ASSUME CommandsInv, NEW c \in Ids, NEW phase \in Phases \ {"unused"}, ~InPhase(c, {"unused"}),
         KindFits([commands[c] EXCEPT !.phase = phase]), Goes(c, phase)
  PROVE  /\ commands' \in [Ids -> Command] /\ CommandsFit' /\ AdmittedInOrder' /\ Alone(c)
         /\ commands'[c] = [commands[c] EXCEPT !.phase = phase]
<1> DEFINE k == [commands[c] EXCEPT !.phase = phase]
<1>1. commands[c] \in Command BY DEF CommandsInv, CommandsTyped
<1>2. k \in Command /\ k.phase # "unused" BY <1>1 DEF Command, Phases
<1>3. KindFits(k) OBVIOUS
<1>4. commands' = [commands EXCEPT ![c] = k] BY <1>1 DEF Goes, Command, CommandsInv, CommandsTyped
<1> HIDE DEF k
<1>5. commands'[c] = k BY <1>2, <1>3, <1>4, OneCommand
<1> QED BY <1>2, <1>3, <1>4, <1>5, OneCommand DEF k

LEMMA DispatchedIs ==
  ASSUME CommandsInv, NEW c \in Ids, NEW phase \in Phases \ {"unused"}, ~InPhase(c, {"unused"}),
         commands[c].session = "none",
         KindFits([commands[c] EXCEPT !.phase = phase]), Dispatched(c, phase)
  PROVE  /\ commands' \in [Ids -> Command] /\ CommandsFit' /\ AdmittedInOrder' /\ Alone(c)
         /\ commands'[c] = [commands[c] EXCEPT !.phase = phase, !.dispatched = TRUE,
                !.prefs = IF InPhase(c, {"managed"}) THEN commands[c].prefs ELSE prefs.saves]
<1> DEFINE p == IF InPhase(c, {"managed"}) THEN commands[c].prefs ELSE prefs.saves
           k == [commands[c] EXCEPT !.phase = phase, !.dispatched = TRUE, !.prefs = p]
<1>1. commands[c] \in Command BY DEF CommandsInv, CommandsTyped
<1>2. p \in Nat BY <1>1 DEF CommandsInv, CommandsTyped, Command
<1>3. commands' = [commands EXCEPT ![c] = k]
  BY <1>1 DEF Dispatched, Command, CommandsInv, CommandsTyped
<1> HIDE DEF p
<1>4. k \in Command /\ k.phase # "unused" BY <1>1, <1>2 DEF Command, Phases
<1>5. KindFits(k) BY <1>1 DEF KindFits, Command, NoCommand
<1> HIDE DEF k
<1>6. commands'[c] = k BY <1>3, <1>4, <1>5, OneCommand
<1> QED BY <1>3, <1>4, <1>5, <1>6, OneCommand DEF k, p

LEMMA NewIs ==
  ASSUME CommandsInv, NEW c \in Ids, IsNext(c), NEW k \in Command, KindFits(k),
         k.phase # "unused", commands' = [commands EXCEPT ![c] = k]
  PROVE  /\ commands' \in [Ids -> Command] /\ CommandsFit' /\ AdmittedInOrder'
         /\ Alone(c) /\ commands'[c] = k /\ commands[c] = NoCommand
         /\ \A d \in After(c) : commands'[d] = NoCommand
<1>1. /\ commands' \in [Ids -> Command] /\ CommandsFit' /\ AdmittedInOrder'
      /\ Alone(c) /\ commands'[c] = k
  BY OneCommand
<1>2. commands[c] = NoCommand BY DEF CommandsInv, CommandsFit, KindFits, IsNext, InPhase
<1>3. ASSUME NEW d \in After(c) PROVE commands'[d] = NoCommand
  <2>1. d \in Ids /\ d # c /\ c < d BY <1>3 DEF After, Ids
  <2>2. commands[d].phase = "unused"
    BY <2>1 DEF CommandsInv, AdmittedInOrder, IsNext, InPhase
  <2> QED BY <2>1, <2>2, <1>1 DEF CommandsInv, CommandsFit, KindFits, Alone
<1> QED BY <1>1, <1>2, <1>3

---------------------------------------------------------------------------
(* What one changed command cannot disturb, part by part of the invariant. *)

Changes == {"verifying", "preparing", "saving"}
Remote(k) == k.kind \in RemoteKinds /\ k.phase \notin {"unused", "checking", "done"}

LEMMA ConnectionKept ==
  ASSUME CommandsInv, NEW c \in Ids, Alone(c), commands' \in [Ids -> Command],
         UNCHANGED <<session, lifetime, waiting, active>>,
         commands[c].phase # "idling",
         session.state = "connecting" => session.op # c,
         Attempted(commands[c]) =>
            Attempted(commands'[c]) /\ commands'[c].profile = commands[c].profile,
         InPhase(c, {"connecting", "marking"})' /\ Attempted(commands'[c]) =>
            InPhase(c, {"connecting", "marking"}) /\ Attempted(commands[c]),
         Connects(commands'[c]) => Connects(commands[c])
  PROVE  SessionFits' /\ LifetimeFits' /\ QueueFits' /\ ActiveProfileIsConnected'
<1>1. SessionFits' BY DEF CommandsInv, SessionFits, Connects, InPhase, Alone
<1>2. LifetimeFits' BY DEF CommandsInv, LifetimeFits, InPhase, Alone, ServedBy
<1>3. QueueFits'
  <2>1. waiting \in Seq(Ids) BY DEF CommandsInv, CommandsTyped
  <2>2. \A i \in 1 .. Len(waiting) : waiting[i] \in Ids /\ waiting[i] # c
    BY <2>1 DEF CommandsInv, QueueFits, InPhase
  <2> QED BY <2>2 DEF CommandsInv, QueueFits, InPhase, Alone
<1>4. ActiveProfileIsConnected'
  BY DEF CommandsInv, SessionFits, ConnectionIsShared, ActiveProfileIsConnected, IsConnected, Alone
<1> QED BY <1>1, <1>2, <1>3, <1>4

LEMMA LatestKept ==
  ASSUME CommandsInv, NEW c \in Ids, Alone(c), UNCHANGED latest,
         IsOfKind(c, ConnectionKinds)' /\ commands'[c].dispatched =>
            IsOfKind(c, ConnectionKinds) /\ commands[c].dispatched
  PROVE  LatestFits'
BY DEF CommandsInv, LatestFits, Alone, After, IsOfKind, Ids

LEMMA ChangesKept ==
  ASSUME CommandsInv, NEW c \in Ids, Alone(c), commands' \in [Ids -> Command],
         UNCHANGED session, ranges'.prefs = ranges.prefs,
         InPhase(c, Changes)' => Changing \/ (/\ RemoteOperations = {}
                                              /\ session.state \notin {"connecting", "connected"}),
         InPhase(c, {"saving"})' => ranges.prefs = None,
         Remote(commands'[c]) => ~Changing /\ ~InPhase(c, Changes)'
  PROVE  ChangesRunAlone'
<1>1. ASSUME Changing' PROVE RemoteOperations' = {} /\ session.state \notin {"connecting", "connected"}
  <2>1. Changing \/ InPhase(c, Changes)' BY <1>1 DEF Changing, InPhase, Alone, Changes
  <2>2. RemoteOperations = {} /\ session.state \notin {"connecting", "connected"}
    BY <2>1 DEF CommandsInv, ChangesRunAlone
  <2>3. ~Remote(commands'[c]) BY <2>1
  <2>4. ASSUME NEW d \in Ids PROVE ~Remote(commands'[d])
    BY <2>2, <2>3 DEF Alone, Remote, RemoteOperations, Counted, Pending, InPhase, IsOfKind
  <2> QED BY <2>2, <2>4 DEF RemoteOperations, Counted, Pending, InPhase, IsOfKind, Remote
<1>2. ASSUME NEW d \in Ids, InPhase(d, {"saving"})' PROVE ranges.prefs = None
  BY <1>2 DEF CommandsInv, ChangesRunAlone, InPhase, Alone
<1> QED BY <1>1, <1>2 DEF ChangesRunAlone

LEMMA OperationsKept ==
  ASSUME CommandsInv, NEW c \in Ids, Alone(c), UNCHANGED prefs,
         Remote(commands'[c]) => commands'[c].prefs = prefs.saves
  PROVE  OperationsInForce'
BY DEF CommandsInv, ProtectionIsInForce, OperationsInForce, RemoteOperations, Counted, Pending,
       InPhase, IsOfKind, Alone, Remote

LEMMA ConnectionInForceKept ==
  ASSUME CommandsInv, NEW c \in Ids, Alone(c), UNCHANGED <<session, prefs>>,
         session.state \in {"connecting", "connected"} /\ session.op = c =>
            commands'[c].prefs = commands[c].prefs
  PROVE  ConnectionInForce'
BY DEF CommandsInv, SessionFits, ProtectionIsInForce, ConnectionInForce, Alone

LEMMA ReadKept ==
  ASSUME CommandsInv, NEW c \in Ids, Alone(c), UNCHANGED <<reading, session, prefs>>,
         InPhase(c, {"running", "done"}) =>
            InPhase(c, {"running", "done"})' /\ commands'[c].prefs = commands[c].prefs,
         Attempted(commands[c]) => Attempted(commands'[c]),
         reading # NoRead /\ IsOfKind(c, ReadKinds)' /\ commands'[c].dispatched =>
            IsOfKind(c, ReadKinds) /\ commands[c].dispatched
  PROVE  ReadFits' /\ ReadInForce' /\ NewestReadPrevails'
<1>1. ReadFits' BY DEF CommandsInv, ReadFits, Alone, InPhase, NoRead
<1>2. ReadInForce'
  BY DEF CommandsInv, ReadFits, ProtectionIsInForce, ReadInForce, Alone, InPhase, ServedBy, NoRead
<1>3. NewestReadPrevails'
  BY DEF CommandsInv, ReadFits, NewestReadPrevails, Alone, After, IsOfKind, Ids, NoRead
<1> QED BY <1>1, <1>2, <1>3

LEMMA NoReadIsQuiet ==
  ASSUME reading' = NoRead
  PROVE  ReadFits' /\ ReadInForce' /\ NewestReadPrevails'
BY DEF ReadFits, ReadInForce, NewestReadPrevails, NoRead

\* The phases of a connection command that is changing the connection.
Switches == {"idling", "connecting", "marking", "closing"}

LEMMA RangesKept ==
  ASSUME CommandsInv, NEW c \in Ids, Alone(c), UNCHANGED <<ranges, session, prefs>>,
         InPhase(c, Switches)' => InPhase(c, Switches)
  PROVE  RangesFit' /\ RangesInForce' /\ RangeHasItsConnection'
BY DEF CommandsInv, RangesFit, RangesInForce, ProtectionIsInForce, ConnectionIsShared,
       RangeHasItsConnection, RangesIdle, ServedBy, InPhase, Alone, Switches

LEMMA RevokedIsQuiet ==
  ASSUME CommandsInv, ranges' = Revoked, UNCHANGED prefs
  PROVE  /\ RangesFit' /\ RangesInForce' /\ RangeHasItsConnection'
         /\ ranges'.prefs = ranges.prefs /\ ranges'.state = "revoked"
<1>1. ranges \in [state : {"idle", "running", "revoked", "dirty"}, prefs : Nat \cup {None},
                  conn : Ids \cup {None}]
  BY DEF CommandsInv, CommandsTyped
<1>2. ranges'.prefs = ranges.prefs /\ ranges'.state = "revoked" BY <1>1 DEF Revoked
<1> QED BY <1>2 DEF CommandsInv, RangesFit, RangesInForce, ProtectionIsInForce,
                    RangeHasItsConnection, RangesIdle

LEMMA ExportsKept ==
  ASSUME CommandsInv, NEW c \in Ids, Alone(c),
         ~InPhase(c, {"unused"}) => ~InPhase(c, {"done"}) /\ commands'[c].kind = commands[c].kind,
         InPhase(c, {"checking"})' /\ IsOfKind(c, {"export"})' =>
            InPhase(c, {"unused"}) /\ ~ConnectionChanges
  PROVE  ExportsFit'
<1> SUFFICES ASSUME NEW a \in Ids, NEW b \in Ids, b < a,
                    commands'[a].kind = "export", commands'[a].phase = "checking",
                    commands'[b].kind \in ConnectionKinds
             PROVE  commands'[b].phase \in {"unused", "done"}
  BY DEF ExportsFit, IsOfKind, InPhase, Pending
<1>1. CASE a = c
  <2>1. b # c /\ commands'[b] = commands[b] BY <1>1 DEF Ids, Alone
  <2>2. ~ConnectionChanges BY <1>1 DEF InPhase, IsOfKind
  <2> QED BY <2>1, <2>2 DEF ConnectionChanges, IsOfKind, Pending, InPhase
<1>2. CASE a # c
  <2>1. commands'[a] = commands[a] BY <1>2 DEF Alone
  <2>2. CASE b = c
    <3>1. commands[c].phase # "unused"
      BY <2>1, <2>2 DEF CommandsInv, AdmittedInOrder, InPhase
    <3>2. commands[c].kind \in ConnectionKinds /\ commands[c].phase # "done"
      BY <3>1, <2>2 DEF InPhase
    <3>3. ~Pending(c) BY <3>2, <2>1, <2>2 DEF CommandsInv, ExportsFit, IsOfKind, InPhase
    <3> QED BY <3>1, <3>2, <3>3 DEF Pending, InPhase
  <2>3. CASE b # c
    BY <2>1, <2>3 DEF CommandsInv, ExportsFit, IsOfKind, InPhase, Pending, Alone
  <2> QED BY <2>2, <2>3
<1> QED BY <1>1, <1>2

LEMMA HostKept ==
  ASSUME CommandsInv, NEW c \in Ids, Alone(c),
         UNCHANGED <<host, latest, lifetime, session, ranges>>, reading' \in {reading, NoRead},
         host = "closed" /\ ~InPhase(c, {"unused", "done"})' => IsOfKind(c, {"recovery"})'
  PROVE  HostFits' /\ ClosedIsQuiet'
BY DEF CommandsInv, HostFits, ClosedIsQuiet, RangesIdle, Pending, InPhase, IsOfKind, Alone

LEMMA OpenIsFree ==
  ASSUME host' = "open"
  PROVE  HostFits' /\ ClosedIsQuiet'
BY DEF HostFits, ClosedIsQuiet

---------------------------------------------------------------------------
(* Answers and moves that change nothing but the command.                  *)

LEMMA AnswerKept ==
  ASSUME CommandsInv, NEW c \in Ids, NEW a \in Answered,
         ~InPhase(c, {"unused", "idling", "done"}),
         session.state = "connecting" => session.op # c,
         Answers(c, a), reading' \in {reading, NoRead},
         UNCHANGED <<session, intents, active, ranges, prefs, hostVars>>
  PROVE  CommandsInv'
<1>1. /\ commands' \in [Ids -> Command] /\ CommandsFit' /\ AdmittedInOrder' /\ Alone(c)
      /\ commands'[c] = [commands[c] EXCEPT !.phase = "done", !.session = "none", !.answer = a]
  BY AnswerIs DEF InPhase
<1>2. commands[c] \in Command BY DEF CommandsInv, CommandsTyped
<1>3. /\ commands'[c].phase = "done" /\ commands'[c].kind = commands[c].kind
      /\ commands'[c].prefs = commands[c].prefs /\ commands'[c].profile = commands[c].profile
      /\ commands'[c].dispatched = commands[c].dispatched
  BY <1>1, <1>2 DEF Command
<1> HIDE DEF Alone
<1>4. CommandsTyped' BY <1>1 DEF CommandsInv, CommandsTyped, NoRead, intents, hostVars
<1>5. SessionFits' /\ LifetimeFits' /\ QueueFits' /\ ActiveProfileIsConnected'
  BY <1>1, <1>3, ConnectionKept DEF Connects, InPhase, Attempted, intents
<1>6. LatestFits' BY <1>1, <1>3, LatestKept DEF IsOfKind, intents
<1>7. ChangesRunAlone' BY <1>1, <1>3, ChangesKept DEF InPhase, Changes, Remote
<1>8. OperationsInForce' /\ ConnectionInForce'
  BY <1>1, <1>3, OperationsKept, ConnectionInForceKept DEF Remote
<1>9. ReadFits' /\ ReadInForce' /\ NewestReadPrevails'
  <2>1. CASE reading' = reading
    BY <1>1, <1>3, <2>1, ReadKept DEF InPhase, Attempted, IsOfKind
  <2>2. CASE reading' = NoRead BY <2>2, NoReadIsQuiet
  <2> QED BY <2>1, <2>2
<1>10. RangesFit' /\ RangesInForce' /\ RangeHasItsConnection'
  BY <1>1, <1>3, RangesKept DEF InPhase, Switches
<1>11. ExportsFit' BY <1>1, <1>3, ExportsKept DEF InPhase
<1>12. HostFits' /\ ClosedIsQuiet' BY <1>1, <1>3, HostKept DEF InPhase, intents, hostVars
<1> QED
  BY <1>1, <1>4, <1>5, <1>6, <1>7, <1>8, <1>9, <1>10, <1>11, <1>12
     DEF CommandsInv, ProtectionIsInForce, ConnectionIsShared

\* The command goes on to a phase in which it does not wait for the session.
LEMMA MoveKept ==
  ASSUME CommandsInv, NEW c \in Ids, commands' \in [Ids -> Command], CommandsFit', AdmittedInOrder',
         Alone(c), UNCHANGED <<session, intents, active, work, prefs, hostVars>>,
         InPhase(c, {"checking", "managed", "verifying", "preparing"}),
         InPhase(c, {"managed", "verifying", "saving", "running"})',
         commands'[c].kind = commands[c].kind,
         IsOfKind(c, ConnectionKinds \cup ReadKinds) =>
            commands'[c].dispatched = commands[c].dispatched,
         InPhase(c, Changes)' => Changing \/ (/\ RemoteOperations = {}
                                              /\ session.state \notin {"connecting", "connected"}),
         InPhase(c, {"saving"})' => ranges.prefs = None,
         IsOfKind(c, RemoteKinds) =>
            ~Changing /\ ~InPhase(c, Changes)' /\ commands'[c].prefs = prefs.saves
  PROVE  CommandsInv'
<1> USE DEF InPhase
<1>1. CommandsTyped' BY DEF CommandsInv, CommandsTyped, intents, work, hostVars
<1>2. ~Attempted(commands[c]) /\ (session.state \in {"connecting", "connected"} => session.op # c)
  BY DEF CommandsInv, SessionFits, Connects, Attempted
<1>3. SessionFits' /\ LifetimeFits' /\ QueueFits' /\ ActiveProfileIsConnected'
  BY <1>2, ConnectionKept DEF Connects, Attempted, intents
<1>4. LatestFits' BY LatestKept DEF IsOfKind, intents
<1>5. ChangesRunAlone' BY ChangesKept DEF IsOfKind, Remote, work
<1>6. OperationsInForce' /\ ConnectionInForce'
  BY <1>2, OperationsKept, ConnectionInForceKept DEF Remote, IsOfKind
<1>7. ReadFits' /\ ReadInForce' /\ NewestReadPrevails'
  BY <1>2, ReadKept DEF IsOfKind, work
<1>8. RangesFit' /\ RangesInForce' /\ RangeHasItsConnection' BY RangesKept DEF Switches, work
<1>9. ExportsFit' BY ExportsKept
<1>10. HostFits' /\ ClosedIsQuiet'
  BY HostKept DEF CommandsInv, ClosedIsQuiet, Pending, intents, work, hostVars, IsOfKind
<1> QED
  BY <1>1, <1>3, <1>4, <1>5, <1>6, <1>7, <1>8, <1>9, <1>10
     DEF CommandsInv, ProtectionIsInForce, ConnectionIsShared

---------------------------------------------------------------------------
(* Dispatch.                                                               *)

\* What the check of a command establishes before its dispatch.
MayDispatch(c) ==
    /\ InPhase(c, {"checking", "managed", "verifying"})
    /\ Accepts(commands[c].internal) /\ ~IsStale(c)
    /\ IsOfKind(c, RemoteKinds) => ~Changing
    /\ IsOfKind(c, ChangeKinds) =>
        RemoteOperations = {} /\ session.state \notin {"connecting", "connected"}

\* A command before its dispatch does not own the session, and only the
\* plugin's reads are dispatched after the shutdown began.
LEMMA BeforeDispatch ==
  ASSUME CommandsInv, NEW c \in Ids, InPhase(c, {"checking", "managed", "verifying", "resolving"})
  PROVE  /\ commands[c] \in Command /\ KindFits(commands[c])
         /\ commands[c].session = "none" /\ ~Attempted(commands[c]) /\ ~InPhase(c, {"unused"})
         /\ session.state \in {"connecting", "connected"} => session.op # c
         /\ Accepts(commands[c].internal) /\ ~IsOfKind(c, {"read"}) => host = "open"
<1>1. commands[c] \in Command /\ KindFits(commands[c])
  BY CommandFits, Zenon
<1>2. ~Attempted(commands[c]) /\ ~InPhase(c, {"unused"}) BY DEF InPhase, Attempted
<1>3. session.state \in {"connecting", "connected"} => session.op # c
  BY DEF CommandsInv, SessionFits, Connects, InPhase, Attempted
<1>4. commands[c].session = "none" BY <1>1 DEF KindFits, InPhase, Command
<1>5. Accepts(commands[c].internal) /\ ~IsOfKind(c, {"read"}) => host = "open"
  BY <1>1 DEF KindFits, Accepts, IsOfKind
<1> QED BY <1>1, <1>2, <1>3, <1>4, <1>5

\* The command that is newest: no later one is of its kind.
LEMMA NewestLatest ==
  ASSUME CommandsInv, NEW c \in Ids, Alone(c), ~IsStale(c), latest' = c
  PROVE  LatestFits'
BY DEF LatestFits, IsStale, IsOfKind, Alone, After, Ids

\* A connection command begins: it waits for the ranges of the old connection.
LEMMA BeginsKept ==
  ASSUME CommandsInv, NEW c \in Ids, commands' \in [Ids -> Command], CommandsFit', AdmittedInOrder',
         Alone(c), InPhase(c, {"checking", "managed", "resolving"}), InPhase(c, {"idling"})',
         IsOfKind(c, {"connect", "profile"}), commands'[c].kind = commands[c].kind,
         commands'[c].prefs = prefs.saves, ~Changing, host = "open",
         lifetime' = c, waiting' = Append(waiting, c), reading' = NoRead, ranges' = Revoked,
         UNCHANGED <<session, active, prefs, hostVars>>, latest' \in Owners, LatestFits'
  PROVE  CommandsInv'
<1>1. /\ ~Attempted(commands[c]) /\ ~InPhase(c, {"unused"})
      /\ session.state \in {"connecting", "connected"} => session.op # c
  BY BeforeDispatch DEF InPhase
<1>2. RangesFit' /\ RangesInForce' /\ RangeHasItsConnection' /\ ranges'.prefs = ranges.prefs
  BY RevokedIsQuiet
<1>3. CommandsTyped'
  <2>1. waiting' \in Seq(Ids) BY DEF CommandsInv, CommandsTyped
  <2>2. ranges' \in [state : {"idle", "running", "revoked", "dirty"}, prefs : Nat \cup {None},
                     conn : Ids \cup {None}]
    BY DEF CommandsInv, CommandsTyped, Revoked
  <2>3. reading' \in [start : Ids \cup {None}, conn : Ids \cup {None}] BY DEF NoRead
  <2> QED BY <2>1, <2>2, <2>3 DEF CommandsInv, CommandsTyped, hostVars, Owners
<1>4. SessionFits' BY <1>1 DEF CommandsInv, SessionFits, Connects, InPhase, Alone
<1>5. LifetimeFits' BY DEF LifetimeFits, InPhase
<1>6. QueueFits'
  <2>1. waiting \in Seq(Ids) /\ waiting' = Append(waiting, c) BY DEF CommandsInv, CommandsTyped
  <2>2. Len(waiting') = Len(waiting) + 1 /\ Len(waiting) \in Nat BY <2>1
  <2>3. \A i \in 1 .. Len(waiting) : waiting'[i] = waiting[i] /\ waiting[i] \in Ids BY <2>1
  <2>4. waiting'[Len(waiting) + 1] = c BY <2>1
  <2>5. \A i \in 1 .. Len(waiting) : waiting[i] # c /\ InPhase(waiting[i], {"idling"})
    BY DEF CommandsInv, QueueFits, InPhase
  <2>6. \A i \in 1 .. Len(waiting') : i \in 1 .. Len(waiting) \/ i = Len(waiting) + 1 BY <2>2
  <2>7. \A i \in 1 .. Len(waiting') : commands'[waiting'[i]].phase = "idling"
    BY <2>3, <2>4, <2>5, <2>6 DEF InPhase, Alone
  <2>8. ASSUME NEW i \in 1 .. Len(waiting'), NEW j \in 1 .. Len(waiting'), waiting'[i] = waiting'[j]
        PROVE  i = j
    BY <2>8, <2>3, <2>4, <2>5, <2>6 DEF CommandsInv, QueueFits
  <2> QED BY <2>7, <2>8 DEF QueueFits, InPhase
<1>7. ActiveProfileIsConnected'
  BY <1>1 DEF CommandsInv, SessionFits, ConnectionIsShared, ActiveProfileIsConnected, IsConnected,
              Alone
<1>8. ChangesRunAlone' BY <1>2, ChangesKept DEF InPhase, Changes
<1>9. OperationsInForce' /\ ConnectionInForce'
  BY <1>1, OperationsKept, ConnectionInForceKept
<1>10. ReadFits' /\ ReadInForce' /\ NewestReadPrevails' BY NoReadIsQuiet
<1>11. ExportsFit' BY ExportsKept DEF InPhase
<1>12. HostFits' /\ ClosedIsQuiet' BY OpenIsFree DEF hostVars
<1> QED
  BY <1>2, <1>3, <1>4, <1>5, <1>6, <1>7, <1>8, <1>9, <1>10, <1>11, <1>12
     DEF CommandsInv, ProtectionIsInForce, ConnectionIsShared

LEMMA DispatchConnectKept ==
  ASSUME CommandsInv, NEW c \in Ids, MayDispatch(c), IsOfKind(c, {"connect"}), DispatchConnect(c),
         UNCHANGED <<prefs, hostVars>>
  PROVE  CommandsInv'
<1>1. /\ commands[c] \in Command /\ KindFits(commands[c]) /\ commands[c].session = "none"
      /\ ~Attempted(commands[c]) /\ ~InPhase(c, {"unused"})
      /\ session.state \in {"connecting", "connected"} => session.op # c
      /\ host = "open" /\ ~Changing /\ ~IsStale(c) /\ InPhase(c, {"checking"})
  BY BeforeDispatch DEF MayDispatch, IsOfKind, InPhase, RemoteKinds, KindFits, ChangeKinds
<1>2. CASE Answers(c, "failed") /\ UNCHANGED <<lifetime, waiting, work>>
  <2>1. /\ commands' \in [Ids -> Command] /\ CommandsFit' /\ AdmittedInOrder' /\ Alone(c)
        /\ commands'[c] = [commands[c] EXCEPT !.phase = "done", !.session = "none",
                                              !.answer = "failed"]
    BY <1>1, <1>2, AnswerIs DEF Answered
  <2>2. commands'[c].phase = "done" /\ commands'[c].kind = commands[c].kind
    BY <2>1, <1>1 DEF Command
  <2> HIDE DEF Alone
  <2>3. CommandsTyped' BY <2>1, <1>2
    DEF DispatchConnect, CommandsInv, CommandsTyped, work, hostVars, Owners
  <2>4. SessionFits' /\ LifetimeFits' /\ QueueFits' /\ ActiveProfileIsConnected'
    BY <1>1, <1>2, <2>1, <2>2, ConnectionKept DEF Connects, DispatchConnect, InPhase
  <2>5. LatestFits' BY <1>1, <2>1, NewestLatest DEF DispatchConnect
  <2>6. ChangesRunAlone'
    BY <1>2, <2>1, <2>2, ChangesKept DEF DispatchConnect, work, InPhase, Changes, Remote
  <2>7. OperationsInForce' /\ ConnectionInForce'
    BY <1>1, <2>1, <2>2, OperationsKept, ConnectionInForceKept DEF DispatchConnect, Remote
  <2>8. ReadFits' /\ ReadInForce' /\ NewestReadPrevails'
    BY <1>1, <1>2, <2>1, <2>2, ReadKept DEF DispatchConnect, work, InPhase, IsOfKind, ReadKinds
  <2>9. RangesFit' /\ RangesInForce' /\ RangeHasItsConnection'
    BY <1>2, <2>1, <2>2, RangesKept DEF DispatchConnect, work, InPhase, Switches
  <2>10. ExportsFit' BY <1>1, <2>1, <2>2, ExportsKept DEF InPhase
  <2>11. HostFits' /\ ClosedIsQuiet' BY <1>1, OpenIsFree DEF hostVars
  <2> QED
    BY <2>1, <2>3, <2>4, <2>5, <2>6, <2>7, <2>8, <2>9, <2>10, <2>11
       DEF CommandsInv, ProtectionIsInForce, ConnectionIsShared
<1>3. CASE /\ Dispatched(c, "idling")
           /\ lifetime' = c /\ waiting' = Append(waiting, c)
           /\ reading' = NoRead /\ ranges' = Revoked
  <2>1. KindFits([commands[c] EXCEPT !.phase = "idling"])
    BY <1>1 DEF KindFits, IsOfKind, Command, LocalKinds
  <2>2. /\ commands' \in [Ids -> Command] /\ CommandsFit' /\ AdmittedInOrder' /\ Alone(c)
        /\ commands'[c] = [commands[c] EXCEPT !.phase = "idling", !.dispatched = TRUE,
               !.prefs = IF InPhase(c, {"managed"}) THEN commands[c].prefs ELSE prefs.saves]
    BY <1>1, <1>3, <2>1, DispatchedIs DEF Phases
  <2>3. /\ commands'[c].phase = "idling" /\ commands'[c].kind = commands[c].kind
        /\ commands'[c].prefs = prefs.saves
    BY <2>2, <1>1 DEF Command, InPhase
  <2>4. LatestFits' BY <1>1, <2>2, NewestLatest DEF DispatchConnect
  <2> HIDE DEF Alone
  <2> QED
    BY <1>1, <1>3, <2>2, <2>3, <2>4, BeginsKept DEF DispatchConnect, InPhase, Owners, IsOfKind
<1> QED BY <1>2, <1>3 DEF DispatchConnect

\* What Dispatched leaves of a command.
LEMMA DispatchedTo ==
  ASSUME CommandsInv, NEW c \in Ids, MayDispatch(c),
         NEW phase \in {"resolving", "running", "preparing"},
         KindFits([commands[c] EXCEPT !.phase = phase]), Dispatched(c, phase)
  PROVE  /\ commands' \in [Ids -> Command] /\ CommandsFit' /\ AdmittedInOrder' /\ Alone(c)
         /\ commands'[c].phase = phase /\ commands'[c].kind = commands[c].kind
         /\ commands'[c].profile = commands[c].profile
         /\ IsOfKind(c, RemoteKinds) => commands'[c].prefs = prefs.saves
<1>1. /\ commands[c] \in Command /\ commands[c].session = "none" /\ ~InPhase(c, {"unused"})
      /\ KindFits(commands[c])
  BY BeforeDispatch DEF MayDispatch, InPhase
<1>2. /\ commands' \in [Ids -> Command] /\ CommandsFit' /\ AdmittedInOrder' /\ Alone(c)
      /\ commands'[c] = [commands[c] EXCEPT !.phase = phase, !.dispatched = TRUE,
             !.prefs = IF InPhase(c, {"managed"}) THEN commands[c].prefs ELSE prefs.saves]
  BY <1>1, DispatchedIs DEF Phases
<1>3. InPhase(c, {"managed"}) /\ IsOfKind(c, RemoteKinds) => commands[c].prefs = prefs.saves
  BY <1>1 DEF CommandsInv, ProtectionIsInForce, OperationsInForce, RemoteOperations, Counted,
              Pending, InPhase
<1> QED BY <1>1, <1>2, <1>3 DEF Command

LEMMA DispatchProfileKept ==
  ASSUME CommandsInv, NEW c \in Ids, MayDispatch(c), IsOfKind(c, {"profile"}), DispatchProfile(c),
         UNCHANGED <<prefs, hostVars>>
  PROVE  CommandsInv'
<1>1. /\ commands[c] \in Command /\ KindFits(commands[c])
      /\ ~Attempted(commands[c]) /\ ~InPhase(c, {"unused"})
      /\ session.state \in {"connecting", "connected"} => session.op # c
      /\ host = "open" /\ ~Changing /\ ~IsStale(c) /\ InPhase(c, {"checking", "managed"})
  BY BeforeDispatch DEF MayDispatch, IsOfKind, InPhase, RemoteKinds, KindFits, ChangeKinds
<1>2. KindFits([commands[c] EXCEPT !.phase = "resolving"])
  BY <1>1 DEF KindFits, IsOfKind, InPhase, Command, LocalKinds
<1>3. /\ commands' \in [Ids -> Command] /\ CommandsFit' /\ AdmittedInOrder' /\ Alone(c)
      /\ commands'[c].phase = "resolving" /\ commands'[c].kind = commands[c].kind
      /\ commands'[c].prefs = prefs.saves
  BY <1>2, DispatchedTo DEF DispatchProfile, IsOfKind, RemoteKinds
<1> HIDE DEF Alone
<1>4. CommandsTyped' BY <1>3
  DEF DispatchProfile, CommandsInv, CommandsTyped, work, hostVars, Owners
<1>5. SessionFits' /\ LifetimeFits' /\ QueueFits' /\ ActiveProfileIsConnected'
  BY <1>1, <1>3, ConnectionKept DEF Connects, DispatchProfile, InPhase
<1>6. LatestFits' BY <1>1, <1>3, NewestLatest DEF DispatchProfile
<1>7. ChangesRunAlone'
  BY <1>1, <1>3, ChangesKept DEF DispatchProfile, work, InPhase, Changes
<1>8. OperationsInForce' /\ ConnectionInForce'
  BY <1>1, <1>3, OperationsKept, ConnectionInForceKept DEF DispatchProfile
<1>9. ReadFits' /\ ReadInForce' /\ NewestReadPrevails'
  BY <1>1, <1>3, ReadKept DEF DispatchProfile, work, InPhase, IsOfKind, ReadKinds
<1>10. RangesFit' /\ RangesInForce' /\ RangeHasItsConnection'
  BY <1>3, RangesKept DEF DispatchProfile, work, InPhase, Switches
<1>11. ExportsFit' BY <1>1, <1>3, ExportsKept DEF InPhase
<1>12. HostFits' /\ ClosedIsQuiet' BY <1>1, OpenIsFree DEF hostVars
<1> QED
  BY <1>3, <1>4, <1>5, <1>6, <1>7, <1>8, <1>9, <1>10, <1>11, <1>12
     DEF CommandsInv, ProtectionIsInForce, ConnectionIsShared

LEMMA DispatchStartKept ==
  ASSUME CommandsInv, NEW c \in Ids, MayDispatch(c), IsOfKind(c, {"start"}), DispatchStart(c),
         UNCHANGED <<prefs, hostVars>>
  PROVE  CommandsInv'
<1>1. /\ commands[c] \in Command /\ KindFits(commands[c])
      /\ ~Attempted(commands[c]) /\ ~InPhase(c, {"unused"})
      /\ session.state \in {"connecting", "connected"} => session.op # c
      /\ host = "open" /\ ~Changing /\ ~IsStale(c) /\ InPhase(c, {"checking"})
  BY BeforeDispatch DEF MayDispatch, IsOfKind, InPhase, RemoteKinds, KindFits, ChangeKinds
<1>2. /\ commands' \in [Ids -> Command] /\ CommandsFit' /\ AdmittedInOrder' /\ Alone(c)
      /\ InPhase(c, {"running"})' /\ commands'[c].kind = commands[c].kind
      /\ commands'[c].prefs = prefs.saves
  <2>1. KindFits([commands[c] EXCEPT !.phase = "running"])
    BY <1>1 DEF KindFits, IsOfKind, InPhase, Command, LocalKinds
  <2> QED BY <1>1, <2>1, DispatchedTo DEF DispatchStart, IsOfKind, RemoteKinds, InPhase
<1> HIDE DEF Alone
<1>3. ReadFits' /\ ReadInForce' /\ NewestReadPrevails'
  <2>1. reading' = [start |-> c, conn |-> None] BY DEF DispatchStart
  <2>2. ReadFits' BY <1>2, <2>1 DEF ReadFits, InPhase
  <2>3. ReadInForce' BY <1>2, <2>1 DEF ReadInForce
  <2>4. NewestReadPrevails'
    BY <1>1, <1>2, <2>1 DEF NewestReadPrevails, IsStale, IsOfKind, Alone, After, Ids
  <2> QED BY <2>2, <2>3, <2>4
<1>4. CommandsTyped'
  <2>1. reading' \in [start : Ids \cup {None}, conn : Ids \cup {None}]
    BY DEF DispatchStart
  <2> QED BY <1>2, <2>1 DEF DispatchStart, CommandsInv, CommandsTyped, intents, hostVars
<1>5. SessionFits' /\ LifetimeFits' /\ QueueFits' /\ ActiveProfileIsConnected'
  BY <1>1, <1>2, ConnectionKept DEF Connects, DispatchStart, InPhase, intents
<1>6. LatestFits'
  BY <1>2, LatestKept DEF DispatchStart, intents, IsOfKind, ConnectionKinds
<1>7. ChangesRunAlone' BY <1>1, <1>2, ChangesKept DEF DispatchStart, InPhase, Changes
<1>8. OperationsInForce' /\ ConnectionInForce'
  BY <1>1, <1>2, OperationsKept, ConnectionInForceKept DEF DispatchStart, Remote, InPhase
<1>9. RangesFit' /\ RangesInForce' /\ RangeHasItsConnection'
  BY <1>2, RangesKept DEF DispatchStart, InPhase, Switches
<1>10. ExportsFit' BY <1>1, <1>2, ExportsKept DEF InPhase
<1>11. HostFits' /\ ClosedIsQuiet' BY <1>1, OpenIsFree DEF hostVars
<1> QED
  BY <1>2, <1>3, <1>4, <1>5, <1>6, <1>7, <1>8, <1>9, <1>10, <1>11
     DEF CommandsInv, ProtectionIsInForce, ConnectionIsShared

\* No connection command is pending when an export is dispatched: none was when
\* it was admitted, and it is stale if one came since.
LEMMA ExportIsUndisturbed ==
  ASSUME CommandsInv, NEW c \in Ids, IsOfKind(c, {"export"}), InPhase(c, {"checking"}), ~IsStale(c)
  PROVE  \A d \in Ids : ~InPhase(d, Switches)
<1> SUFFICES ASSUME NEW d \in Ids, InPhase(d, Switches) PROVE FALSE
  OBVIOUS
<1>1. IsOfKind(d, ConnectionKinds) /\ Pending(d)
  BY DEF CommandsInv, CommandsFit, KindFits, InPhase, Switches, IsOfKind, ConnectionKinds, Pending
<1>2. d # c BY <1>1 DEF IsOfKind, ConnectionKinds
<1>3. ~(c < d) BY <1>1 DEF IsStale, After, Ids
<1>4. d < c BY <1>2, <1>3 DEF Ids
<1> QED BY <1>1, <1>4 DEF CommandsInv, ExportsFit

LEMMA DispatchExportKept ==
  ASSUME CommandsInv, NEW c \in Ids, MayDispatch(c), IsOfKind(c, {"export"}), DispatchExport(c),
         UNCHANGED <<prefs, hostVars>>
  PROVE  CommandsInv'
<1>1. /\ commands[c] \in Command /\ KindFits(commands[c])
      /\ ~Attempted(commands[c]) /\ ~InPhase(c, {"unused"})
      /\ session.state \in {"connecting", "connected"} => session.op # c
      /\ host = "open" /\ ~Changing /\ ~IsStale(c) /\ InPhase(c, {"checking"})
  BY BeforeDispatch DEF MayDispatch, IsOfKind, InPhase, RemoteKinds, KindFits, ChangeKinds
<1>2. CASE ~(IsConnected /\ ranges.state = "idle")
  BY <1>1, <1>2, AnswerKept DEF DispatchExport, FailsAtOnce, InPhase, Answered, intents, work
<1>3. CASE IsConnected /\ ranges.state = "idle"
  <2>1. /\ Answers(c, "ok") /\ UNCHANGED <<session, intents, active, reading>>
        /\ ranges' = [state |-> "running", prefs |-> prefs.saves, conn |-> session.op]
    BY <1>3 DEF DispatchExport
  <2>2. /\ commands' \in [Ids -> Command] /\ CommandsFit' /\ AdmittedInOrder' /\ Alone(c)
        /\ commands'[c] = [commands[c] EXCEPT !.phase = "done", !.session = "none",
                                              !.answer = "ok"]
    BY <1>1, <2>1, AnswerIs DEF Answered
  <2>3. /\ commands'[c].phase = "done" /\ commands'[c].kind = commands[c].kind
        /\ commands'[c].prefs = commands[c].prefs
    BY <2>2, <1>1 DEF Command
  <2> HIDE DEF Alone
  <2>4. session.op \in Ids /\ session = [state |-> "connected", op |-> session.op]
    BY <1>3 DEF CommandsInv, SessionFits, CommandsTyped, IsConnected
  <2>5. CommandsTyped'
    BY <2>1, <2>2, <2>4 DEF CommandsInv, CommandsTyped, intents, hostVars
  <2>6. SessionFits' /\ LifetimeFits' /\ QueueFits' /\ ActiveProfileIsConnected'
    BY <1>1, <2>1, <2>2, <2>3, ConnectionKept DEF Connects, InPhase, intents
  <2>7. LatestFits'
    BY <2>1, <2>2, <2>3, LatestKept DEF intents, IsOfKind, ConnectionKinds
  <2>8. ChangesRunAlone'
    BY <1>1, <2>2, <2>3 DEF ChangesRunAlone, Changing, InPhase, Alone
  <2>9. OperationsInForce' /\ ConnectionInForce'
    BY <1>1, <2>1, <2>2, <2>3, OperationsKept, ConnectionInForceKept DEF Remote
  <2>10. ReadFits' /\ ReadInForce' /\ NewestReadPrevails'
    BY <1>1, <2>1, <2>2, <2>3, ReadKept DEF InPhase, IsOfKind, ReadKinds
  <2>11. RangesFit' /\ RangesInForce' BY <2>1 DEF RangesFit, RangesInForce, RangesIdle
  <2>12. RangeHasItsConnection'
    BY <1>1, <2>1, <2>2, <2>3, <2>4, ExportIsUndisturbed
       DEF RangeHasItsConnection, ServedBy, InPhase, Alone, Switches
  <2>13. ExportsFit' BY <1>1, <2>2, <2>3, ExportsKept DEF InPhase
  <2>14. HostFits' /\ ClosedIsQuiet' BY <1>1, OpenIsFree DEF hostVars
  <2> QED
    BY <2>2, <2>5, <2>6, <2>7, <2>8, <2>9, <2>10, <2>11, <2>12, <2>13, <2>14
       DEF CommandsInv, ProtectionIsInForce, ConnectionIsShared
<1> QED BY <1>2, <1>3

LEMMA DispatchChangeKept ==
  ASSUME CommandsInv, NEW c \in Ids, MayDispatch(c), IsOfKind(c, ChangeKinds), DispatchChange(c),
         UNCHANGED <<prefs, hostVars>>
  PROVE  CommandsInv'
<1>1. /\ commands[c] \in Command /\ KindFits(commands[c])
      /\ ~Attempted(commands[c]) /\ ~InPhase(c, {"unused"})
      /\ session.state \in {"connecting", "connected"} => session.op # c
      /\ host = "open" /\ InPhase(c, {"checking", "verifying"})
      /\ RemoteOperations = {} /\ session.state \notin {"connecting", "connected"}
  BY BeforeDispatch DEF MayDispatch, IsOfKind, InPhase, KindFits, ChangeKinds
<1>2. KindFits([commands[c] EXCEPT !.phase = "preparing"])
  BY <1>1 DEF KindFits, IsOfKind, InPhase, Command, LocalKinds, ChangeKinds
<1>3. /\ commands' \in [Ids -> Command] /\ CommandsFit' /\ AdmittedInOrder' /\ Alone(c)
      /\ commands'[c].phase = "preparing" /\ commands'[c].kind = commands[c].kind
  BY <1>2, DispatchedTo DEF DispatchChange
<1> HIDE DEF Alone
<1>4. RangesFit' /\ RangesInForce' /\ RangeHasItsConnection' /\ ranges'.prefs = ranges.prefs
  BY RevokedIsQuiet DEF DispatchChange
<1>5. CommandsTyped'
  <2>1. ranges' \in [state : {"idle", "running", "revoked", "dirty"}, prefs : Nat \cup {None},
                     conn : Ids \cup {None}]
    BY DEF DispatchChange, CommandsInv, CommandsTyped, Revoked
  <2> QED BY <1>3, <2>1 DEF DispatchChange, CommandsInv, CommandsTyped, intents, hostVars
<1>6. SessionFits' /\ LifetimeFits' /\ QueueFits' /\ ActiveProfileIsConnected'
  BY <1>1, <1>3, ConnectionKept DEF Connects, DispatchChange, InPhase, intents
<1>7. LatestFits'
  BY <1>3, LatestKept DEF DispatchChange, intents, IsOfKind, ConnectionKinds, ChangeKinds
<1>8. ChangesRunAlone'
  BY <1>1, <1>3, <1>4, ChangesKept
     DEF DispatchChange, InPhase, Changes, Remote, IsOfKind, ChangeKinds, RemoteKinds
<1>9. OperationsInForce' /\ ConnectionInForce'
  BY <1>1, <1>3, OperationsKept, ConnectionInForceKept
     DEF DispatchChange, Remote, IsOfKind, ChangeKinds, RemoteKinds
<1>10. ReadFits' /\ ReadInForce' /\ NewestReadPrevails'
  BY <1>1, <1>3, ReadKept DEF DispatchChange, InPhase, IsOfKind, ReadKinds, ChangeKinds
<1>11. ExportsFit' BY <1>1, <1>3, ExportsKept DEF InPhase
<1>12. HostFits' /\ ClosedIsQuiet' BY <1>1, OpenIsFree DEF hostVars
<1> QED
  BY <1>3, <1>4, <1>5, <1>6, <1>7, <1>8, <1>9, <1>10, <1>11, <1>12
     DEF CommandsInv, ProtectionIsInForce, ConnectionIsShared

\* A command that fails at its dispatch.
LEMMA FailsKept ==
  ASSUME CommandsInv, NEW c \in Ids, InPhase(c, {"checking", "managed", "verifying", "resolving"}),
         FailsAtOnce(c), UNCHANGED <<prefs, hostVars>>
  PROVE  CommandsInv'
<1>1. session.state = "connecting" => session.op # c BY BeforeDispatch
<1> QED BY <1>1, AnswerKept DEF FailsAtOnce, InPhase, Answered, intents, work, hostVars

LEMMA DispatchKept ==
  ASSUME CommandsInv, NEW c \in Ids, InPhase(c, {"checking", "managed", "verifying"}), Dispatch(c),
         IsOfKind(c, RemoteKinds) => ~Changing,
         IsOfKind(c, ChangeKinds) =>
            RemoteOperations = {} /\ session.state \notin {"connecting", "connected"},
         UNCHANGED <<prefs, hostVars>>
  PROVE  CommandsInv'
<1>1. CASE ~Accepts(commands[c].internal) \/ IsStale(c)
  BY <1>1, FailsKept DEF Dispatch, InPhase
<1>2. CASE ~(~Accepts(commands[c].internal) \/ IsStale(c))
  <2>1. MayDispatch(c) BY <1>2 DEF MayDispatch
  <2>2. CASE IsOfKind(c, {"read", "write"}) /\ Dispatched(c, "running")
             /\ UNCHANGED <<session, intents, active, work>>
    <3>1. /\ commands[c] \in Command /\ KindFits(commands[c]) /\ InPhase(c, {"checking"})
      BY <2>2, BeforeDispatch DEF InPhase, KindFits, IsOfKind, ChangeKinds
    <3>2. KindFits([commands[c] EXCEPT !.phase = "running"])
      BY <3>1, <2>2 DEF KindFits, IsOfKind, InPhase, Command, LocalKinds
    <3>3. /\ commands' \in [Ids -> Command] /\ CommandsFit' /\ AdmittedInOrder' /\ Alone(c)
          /\ commands'[c].phase = "running" /\ commands'[c].kind = commands[c].kind
          /\ commands'[c].prefs = prefs.saves
      BY <2>1, <2>2, <3>2, DispatchedTo DEF IsOfKind, RemoteKinds
    <3> HIDE DEF Alone
    <3> QED
      BY <2>2, <3>1, <3>3, MoveKept
         DEF InPhase, IsOfKind, ConnectionKinds, ReadKinds, RemoteKinds, Changes
  <2> QED
    BY <1>2, <2>1, <2>2, DispatchConnectKept, DispatchProfileKept, DispatchStartKept,
       DispatchExportKept, DispatchChangeKept
       DEF Dispatch
<1> QED BY <1>1, <1>2

---------------------------------------------------------------------------
(* The checks.                                                             *)

LEMMA CheckKept ==
  ASSUME CommandsInv, NEW c \in Ids, Check(c)
  PROVE  CommandsInv'
<1> DEFINE Refuses ==
       \/ Changing
       \/ /\ IsOfKind(c, ChangeKinds)
          /\ session.state \notin {"disconnected", "failed"} \/ RemoteOperations # {}
       \/ /\ IsOfKind(c, RemoteKinds)
          /\ ~prefs.ready \/ (prefs.readOnly /\ IsOfKind(c, {"write"}))
<1>1. InPhase(c, {"checking"}) /\ UNCHANGED <<prefs, hostVars>> BY DEF Check
<1>2. /\ commands[c] \in Command /\ KindFits(commands[c])
      /\ commands[c].session = "none" /\ ~InPhase(c, {"unused"})
  BY <1>1, BeforeDispatch DEF InPhase
<1>3. CASE Refuses BY <1>1, <1>3, FailsKept DEF Check, InPhase
<1>4. CASE ~Refuses
  <2>1. /\ ~Changing
        /\ IsOfKind(c, ChangeKinds) =>
            RemoteOperations = {} /\ session.state \notin {"connecting", "connected"}
    BY <1>4
  <2>2. CASE IsOfKind(c, {"protection"})
    <3>1. Goes(c, "verifying") /\ UNCHANGED <<session, intents, active, work>>
      BY <1>4, <2>2 DEF Check
    <3>2. KindFits([commands[c] EXCEPT !.phase = "verifying"])
      BY <1>1, <1>2, <2>2 DEF KindFits, IsOfKind, InPhase, Command, LocalKinds, ChangeKinds
    <3>3. /\ commands' \in [Ids -> Command] /\ CommandsFit' /\ AdmittedInOrder' /\ Alone(c)
          /\ commands'[c] = [commands[c] EXCEPT !.phase = "verifying"]
      BY <1>2, <3>1, <3>2, GoesIs DEF Phases
    <3>4. /\ commands'[c].phase = "verifying" /\ commands'[c].kind = commands[c].kind
          /\ commands'[c].dispatched = commands[c].dispatched
      BY <3>3, <1>2 DEF Command
    <3> HIDE DEF Alone
    <3> QED
      BY <1>1, <2>1, <2>2, <3>1, <3>3, <3>4, MoveKept
         DEF InPhase, IsOfKind, ChangeKinds, RemoteKinds
  <2>3. CASE ~IsOfKind(c, {"protection"}) /\ prefs.readOnly /\ IsOfKind(c, {"profile"})
    <3> DEFINE k == [commands[c] EXCEPT !.phase = "managed", !.prefs = prefs.saves]
    <3>1. /\ commands' = [commands EXCEPT ![c].phase = "managed", ![c].prefs = prefs.saves]
          /\ UNCHANGED <<session, intents, active, work>>
      BY <1>4, <2>3 DEF Check
    <3>2. commands' = [commands EXCEPT ![c] = k]
      BY <1>2, <3>1 DEF Command, CommandsInv, CommandsTyped
    <3>3. k \in Command /\ k.phase = "managed" /\ k.kind = commands[c].kind
          /\ k.dispatched = commands[c].dispatched /\ k.prefs = prefs.saves
      BY <1>2 DEF Command, Phases, CommandsInv, CommandsTyped
    <3>4. KindFits(k)
      BY <1>1, <1>2, <2>3 DEF KindFits, IsOfKind, InPhase, Command, LocalKinds
    <3> HIDE DEF k
    <3>5. /\ commands' \in [Ids -> Command] /\ CommandsFit' /\ AdmittedInOrder' /\ Alone(c)
          /\ commands'[c] = k
      BY <1>2, <3>2, <3>3, <3>4, OneCommand
    <3> HIDE DEF Alone
    <3> QED
      BY <1>1, <2>1, <2>3, <3>1, <3>3, <3>5, MoveKept
         DEF InPhase, IsOfKind, ConnectionKinds, ReadKinds, RemoteKinds, Changes
  <2>4. CASE ~IsOfKind(c, {"protection"}) /\ ~(prefs.readOnly /\ IsOfKind(c, {"profile"}))
    <3>1. Dispatch(c) BY <1>4, <2>4 DEF Check
    <3> QED BY <1>1, <2>1, <3>1, DispatchKept DEF InPhase
  <2> QED BY <2>2, <2>3, <2>4
<1> QED BY <1>3, <1>4

LEMMA ManagedAnsweredKept ==
  ASSUME CommandsInv, NEW c \in Ids, NEW fails \in BOOLEAN, ManagedAnswered(c, fails)
  PROVE  CommandsInv'
<1>1. InPhase(c, {"managed"}) /\ UNCHANGED <<prefs, hostVars>> BY DEF ManagedAnswered
<1>2. IsOfKind(c, {"profile"})
  BY <1>1 DEF CommandsInv, CommandsFit, KindFits, InPhase, IsOfKind
<1>3. ~Changing
  BY <1>1, <1>2 DEF CommandsInv, ChangesRunAlone, RemoteOperations, IsOfKind, RemoteKinds, Counted,
                    Pending, InPhase
<1>4. FailsAtOnce(c) \/ Dispatch(c) BY DEF ManagedAnswered
<1> QED
  BY <1>1, <1>2, <1>3, <1>4, FailsKept, DispatchKept DEF InPhase, IsOfKind, ChangeKinds

LEMMA PluginWorkVerifiedKept ==
  ASSUME CommandsInv, NEW c \in Ids, NEW pending \in BOOLEAN, PluginWorkVerified(c, pending)
  PROVE  CommandsInv'
<1>1. InPhase(c, {"verifying"}) /\ UNCHANGED <<prefs, hostVars>> BY DEF PluginWorkVerified
<1>2. IsOfKind(c, ChangeKinds)
  BY <1>1 DEF CommandsInv, CommandsFit, KindFits, InPhase, IsOfKind
<1>3. RemoteOperations = {} /\ session.state \notin {"connecting", "connected"}
  BY <1>1 DEF CommandsInv, ChangesRunAlone, Changing, InPhase
<1>4. FailsAtOnce(c) \/ Dispatch(c) BY DEF PluginWorkVerified
<1> QED
  BY <1>1, <1>2, <1>3, <1>4, FailsKept, DispatchKept
     DEF InPhase, IsOfKind, ChangeKinds, RemoteKinds

---------------------------------------------------------------------------
(* Admission.                                                              *)

LEMMA NewFits ==
  ASSUME NEW kind \in Kinds, NEW profile \in Profiles \cup {None}, NEW internal \in BOOLEAN,
         NEW phase \in {"checking", "closing", "stopping", "joining", "done"},
         internal => kind = "read",
         phase = "checking" => kind \notin LocalKinds,
         phase = "closing" => kind = "disconnect",
         phase = "stopping" => kind \in {"stop", "recovery"},
         phase = "joining" => kind = "recovery"
  PROVE  /\ New(kind, profile, internal, phase) \in Command
         /\ KindFits(New(kind, profile, internal, phase))
         /\ New(kind, profile, internal, phase).phase = phase
         /\ New(kind, profile, internal, phase).kind = kind
         /\ New(kind, profile, internal, phase).dispatched <=> kind \in LocalKinds
<1>1. (kind \in LocalKinds) \in BOOLEAN OBVIOUS
<1>2. PICK b \in BOOLEAN : b = (kind \in LocalKinds) BY <1>1, Zenon
<1>3. PICK r \in Command : r = NoCommand /\ r.session = "none"
  <2>1. NoCommand \in Command /\ NoCommand.session = "none"
    BY DEF Command, NoCommand, Phases, Answered
  <2> QED BY <2>1, Zenon
<1> DEFINE k == [r EXCEPT !.kind = kind, !.profile = profile, !.internal = internal,
                          !.phase = phase, !.dispatched = b]
<1>4. New(kind, profile, internal, phase) = k BY <1>2, <1>3, Zenon DEF New
<1>5. /\ k \in Command /\ k.kind = kind /\ k.phase = phase /\ k.internal = internal
      /\ k.dispatched = b /\ k.session = "none"
  <2>1. /\ k.kind = kind /\ k.phase = phase /\ k.internal = internal
        /\ k.dispatched = b /\ k.session = "none"
    BY <1>3 DEF Command
  <2>2. phase \in Phases
    BY DEF Phases
  <2>3. k \in Command
    BY <1>3, <2>2 DEF Command
  <2> QED
    BY <2>1, <2>3
<1> HIDE DEF k
<1>6. KindFits(k) BY <1>5 DEF KindFits
<1>7. k.dispatched <=> kind \in LocalKinds BY <1>2, <1>5, Zenon
<1> QED BY <1>4, <1>5, <1>6, <1>7, Zenon

\* A local command is dispatched as it is admitted.
LEMMA NewLocal ==
  ASSUME NEW kind \in LocalKinds, NEW phase \in {"closing", "stopping", "joining"},
         phase = "closing" => kind = "disconnect",
         phase = "stopping" => kind \in {"stop", "recovery"},
         phase = "joining" => kind = "recovery"
  PROVE  /\ New(kind, None, FALSE, phase) \in Command
         /\ KindFits(New(kind, None, FALSE, phase))
         /\ New(kind, None, FALSE, phase).phase = phase
         /\ New(kind, None, FALSE, phase).kind = kind
         /\ New(kind, None, FALSE, phase).dispatched
<1>1. PICK b \in BOOLEAN : ~b OBVIOUS
<1>2. kind \in Kinds /\ None \in Profiles \cup {None} BY DEF Kinds
<1>3. /\ New(kind, None, b, phase) \in Command /\ KindFits(New(kind, None, b, phase))
      /\ New(kind, None, b, phase).phase = phase /\ New(kind, None, b, phase).kind = kind
      /\ New(kind, None, b, phase).dispatched
  BY <1>1, <1>2, NewFits
<1> QED BY <1>1, <1>3, Zenon

\* A command that is only admitted.
LEMMA AdmittedKept ==
  ASSUME CommandsInv, NEW c \in Ids, IsNext(c), commands' \in [Ids -> Command], CommandsFit',
         AdmittedInOrder', Alone(c), commands[c] = NoCommand,
         UNCHANGED <<session, intents, active, work, prefs, hostVars>>,
         InPhase(c, {"checking", "joining", "done"})',
         commands'[c].dispatched => reading = NoRead /\ ~IsOfKind(c, ConnectionKinds)',
         IsOfKind(c, {"export"})' /\ InPhase(c, {"checking"})' => ~ConnectionChanges,
         InPhase(c, {"joining"})' => IsOfKind(c, {"recovery"})',
         InPhase(c, {"checking"})' => host # "closed"
  PROVE  CommandsInv'
<1>1. /\ ~Attempted(commands[c]) /\ InPhase(c, {"unused"}) /\ commands[c].phase = "unused"
      /\ session.state \in {"connecting", "connected"} => session.op # c
  BY DEF CommandsInv, SessionFits, Connects, InPhase, Attempted, NoCommand
<1>2. CommandsTyped' BY DEF CommandsInv, CommandsTyped, intents, work, hostVars
<1>3. SessionFits' /\ LifetimeFits' /\ QueueFits' /\ ActiveProfileIsConnected'
  BY <1>1, ConnectionKept DEF Connects, InPhase, intents
<1>4. LatestFits' BY <1>1, LatestKept DEF intents
<1>5. Remote(commands'[c]) => FALSE
  BY DEF CommandsFit, KindFits, InPhase, Remote, RemoteKinds
<1>6. ChangesRunAlone' BY <1>5, ChangesKept DEF InPhase, Changes, work
<1>7. OperationsInForce' /\ ConnectionInForce'
  BY <1>1, <1>5, OperationsKept, ConnectionInForceKept
<1>8. ReadFits' /\ ReadInForce' /\ NewestReadPrevails' BY <1>1, ReadKept DEF InPhase, work
<1>9. RangesFit' /\ RangesInForce' /\ RangeHasItsConnection'
  BY RangesKept DEF InPhase, Switches, work
<1>10. ExportsFit' BY <1>1, ExportsKept
<1>11. HostFits' /\ ClosedIsQuiet' BY HostKept DEF InPhase, intents, work, hostVars
<1> QED
  BY <1>2, <1>3, <1>4, <1>6, <1>7, <1>8, <1>9, <1>10, <1>11
     DEF CommandsInv, ProtectionIsInForce, ConnectionIsShared

LEMMA ChecksKept ==
  ASSUME CommandsInv, NEW c \in Ids, IsNext(c), NEW kind \in Kinds \ LocalKinds,
         NEW profile \in Profiles \cup {None}, NEW internal \in BOOLEAN, internal => kind = "read",
         Checks(c, kind, profile, internal), host # "closed", UNCHANGED <<prefs, hostVars>>
  PROVE  CommandsInv'
<1> DEFINE k == IF Refused(kind)
                THEN [New(kind, profile, internal, "done") EXCEPT !.answer = "failed"]
                ELSE New(kind, profile, internal, "checking")
<1>1. commands' = [commands EXCEPT ![c] = k] /\ UNCHANGED <<session, intents, active, work>>
  BY DEF Checks
<1>2. /\ k \in Command /\ KindFits(k) /\ k.kind = kind /\ ~k.dispatched
      /\ k.phase \in {"checking", "done"}
      /\ k.phase = "checking" => ~Refused(kind)
  <2>1. CASE Refused(kind)
    <3> DEFINE n == New(kind, profile, internal, "done")
    <3>1. n \in Command /\ KindFits(n) /\ n.kind = kind /\ n.phase = "done" /\ ~n.dispatched
      BY NewFits
    <3>2. k = [n EXCEPT !.answer = "failed"] BY <2>1
    <3> HIDE DEF n
    <3> QED BY <3>1, <3>2 DEF Command, Answered, KindFits
  <2>2. CASE ~Refused(kind)
    <3>1. k = New(kind, profile, internal, "checking") BY <2>2
    <3> QED BY <2>2, <3>1, NewFits
  <2> QED BY <2>1, <2>2
<1> HIDE DEF k
<1>3. /\ commands' \in [Ids -> Command] /\ CommandsFit' /\ AdmittedInOrder'
      /\ Alone(c) /\ commands'[c] = k /\ commands[c] = NoCommand
  BY <1>1, <1>2, NewIs
<1> HIDE DEF Alone
<1> QED BY <1>1, <1>2, <1>3, AdmittedKept DEF InPhase, IsOfKind, Refused

LEMMA JoinsShutdownKept ==
  ASSUME CommandsInv, NEW c \in Ids, IsNext(c), JoinsShutdown(c), UNCHANGED <<prefs, hostVars>>
  PROVE  CommandsInv'
<1> DEFINE k == New("recovery", None, FALSE, "joining")
<1>1. /\ commands' = [commands EXCEPT ![c] = k] /\ host # "open"
      /\ UNCHANGED <<session, intents, active, work>>
  BY DEF JoinsShutdown
<1>2. k \in Command /\ KindFits(k) /\ k.kind = "recovery" /\ k.phase = "joining"
  <2>1. "recovery" \in LocalKinds BY DEF LocalKinds
  <2> QED BY <2>1, NewLocal
<1> HIDE DEF k
<1>3. /\ commands' \in [Ids -> Command] /\ CommandsFit' /\ AdmittedInOrder'
      /\ Alone(c) /\ commands'[c] = k /\ commands[c] = NoCommand
  BY <1>1, <1>2, NewIs
<1>4. reading = NoRead BY <1>1 DEF CommandsInv, HostFits
<1> HIDE DEF Alone
<1> QED BY <1>1, <1>2, <1>3, <1>4, AdmittedKept DEF InPhase, IsOfKind, ConnectionKinds

\* A disconnect supersedes and invalidates at once, and so it is the newest.
LEMMA DisconnectsKept ==
  ASSUME CommandsInv, NEW c \in Ids, IsNext(c), Disconnects(c), host = "open",
         UNCHANGED <<prefs, hostVars>>
  PROVE  CommandsInv'
<1> DEFINE k == New("disconnect", None, FALSE, "closing")
<1>1. /\ commands' = [commands EXCEPT ![c] = k]
      /\ latest' = c /\ lifetime' = c /\ reading' = NoRead /\ ranges' = Revoked
      /\ session' = [state |-> "disconnecting", op |-> c] /\ UNCHANGED <<waiting, active>>
  BY DEF Disconnects
<1>2. k \in Command /\ KindFits(k) /\ k.kind = "disconnect" /\ k.phase = "closing"
  <2>1. "disconnect" \in LocalKinds BY DEF LocalKinds
  <2> QED BY <2>1, NewLocal
<1> HIDE DEF k
<1>3. /\ commands' \in [Ids -> Command] /\ CommandsFit' /\ AdmittedInOrder'
      /\ Alone(c) /\ commands'[c] = k /\ commands[c] = NoCommand
      /\ \A d \in After(c) : commands'[d] = NoCommand
  BY <1>1, <1>2, NewIs
<1> HIDE DEF Alone
<1>4. RangesFit' /\ RangesInForce' /\ RangeHasItsConnection' /\ ranges'.prefs = ranges.prefs
  BY <1>1, RevokedIsQuiet
<1>5. commands[c].phase = "unused" /\ ~Attempted(commands[c])
  BY <1>3 DEF NoCommand, Attempted
<1>6. CommandsTyped'
  <2>1. ranges' \in [state : {"idle", "running", "revoked", "dirty"}, prefs : Nat \cup {None},
                     conn : Ids \cup {None}]
    BY <1>1 DEF CommandsInv, CommandsTyped, Revoked
  <2>2. reading' \in [start : Ids \cup {None}, conn : Ids \cup {None}] BY <1>1 DEF NoRead
  <2> QED BY <1>1, <1>3, <2>1, <2>2 DEF CommandsInv, CommandsTyped, hostVars, Owners
<1>7. SessionFits' /\ ActiveProfileIsConnected' /\ ConnectionInForce'
  BY <1>1, <1>2, <1>3 DEF SessionFits, Connects, ActiveProfileIsConnected, IsConnected, ConnectionInForce
<1>8. LifetimeFits' BY <1>1, <1>2, <1>3 DEF LifetimeFits, InPhase
<1>9. QueueFits'
  <2>1. \A i \in 1 .. Len(waiting) : waiting[i] \in Ids /\ waiting[i] # c
    BY <1>5 DEF CommandsInv, CommandsTyped, QueueFits, InPhase
  <2> QED BY <2>1, <1>1, <1>3 DEF CommandsInv, QueueFits, InPhase, Alone
<1>10. LatestFits' BY <1>1, <1>3 DEF LatestFits, IsOfKind, NoCommand, ConnectionKinds
<1>11. ChangesRunAlone'
  <2>1. Changing' => Changing
    BY <1>2, <1>3 DEF Changing, InPhase, Alone
  <2>2. ASSUME NEW d \in Ids PROVE d \in RemoteOperations' => d \in RemoteOperations
    BY <1>2, <1>3 DEF RemoteOperations, Counted, Pending, IsOfKind, InPhase, Alone, RemoteKinds
  <2>3. RemoteOperations' \subseteq RemoteOperations BY <2>2 DEF RemoteOperations
  <2>4. (\E d \in Ids : InPhase(d, {"saving"}))' => \E d \in Ids : InPhase(d, {"saving"})
    BY <1>2, <1>3 DEF InPhase, Alone
  <2> QED BY <1>1, <1>4, <2>1, <2>3, <2>4 DEF CommandsInv, ChangesRunAlone
<1>12. OperationsInForce' BY <1>2, <1>3, OperationsKept DEF Remote, RemoteKinds
<1>13. ReadFits' /\ ReadInForce' /\ NewestReadPrevails' BY <1>1, NoReadIsQuiet
<1>14. ExportsFit' BY <1>2, <1>3, <1>5, ExportsKept DEF InPhase
<1>15. HostFits' /\ ClosedIsQuiet' BY OpenIsFree DEF hostVars
<1> QED
  BY <1>3, <1>4, <1>6, <1>7, <1>8, <1>9, <1>10, <1>11, <1>12, <1>13, <1>14, <1>15
     DEF CommandsInv, ProtectionIsInForce, ConnectionIsShared

\* A stop ends what is read at once.
LEMMA StopsKept ==
  ASSUME CommandsInv, NEW c \in Ids, IsNext(c), NEW kind \in {"stop", "recovery"}, Stops(c, kind),
         host = "open", UNCHANGED <<prefs, hostVars>>
  PROVE  CommandsInv'
<1> DEFINE k == New(kind, None, FALSE, "stopping")
<1>1. /\ commands' = [commands EXCEPT ![c] = k] /\ reading' = NoRead
      /\ UNCHANGED <<session, intents, active, ranges>>
  BY DEF Stops
<1>2. k \in Command /\ KindFits(k) /\ k.kind = kind /\ k.phase = "stopping"
  <2>1. kind \in LocalKinds BY DEF LocalKinds
  <2> QED BY <2>1, NewLocal
<1> HIDE DEF k
<1>3. /\ commands' \in [Ids -> Command] /\ CommandsFit' /\ AdmittedInOrder'
      /\ Alone(c) /\ commands'[c] = k /\ commands[c] = NoCommand
  BY <1>1, <1>2, NewIs
<1> HIDE DEF Alone
<1>4. /\ commands[c].phase = "unused" /\ ~Attempted(commands[c])
      /\ session.state \in {"connecting", "connected"} => session.op # c
  BY <1>3 DEF CommandsInv, SessionFits, Connects, InPhase, NoCommand, Attempted
<1>5. CommandsTyped'
  <2>1. reading' \in [start : Ids \cup {None}, conn : Ids \cup {None}] BY <1>1 DEF NoRead
  <2> QED BY <1>1, <1>3, <2>1 DEF CommandsInv, CommandsTyped, intents, hostVars
<1>6. SessionFits' /\ LifetimeFits' /\ QueueFits' /\ ActiveProfileIsConnected'
  BY <1>1, <1>2, <1>3, <1>4, ConnectionKept DEF Connects, InPhase, intents
<1>7. LatestFits'
  BY <1>1, <1>2, <1>3, LatestKept DEF intents, IsOfKind, ConnectionKinds
<1>8. ~Remote(commands'[c]) /\ ~InPhase(c, Changes)'
  BY <1>2, <1>3 DEF Remote, RemoteKinds, InPhase, Changes
<1>9. ChangesRunAlone' BY <1>1, <1>2, <1>3, <1>8, ChangesKept DEF InPhase
<1>10. OperationsInForce' /\ ConnectionInForce'
  BY <1>1, <1>3, <1>4, <1>8, OperationsKept, ConnectionInForceKept
<1>11. ReadFits' /\ ReadInForce' /\ NewestReadPrevails' BY <1>1, NoReadIsQuiet
<1>12. RangesFit' /\ RangesInForce' /\ RangeHasItsConnection'
  BY <1>1, <1>2, <1>3, RangesKept DEF InPhase, Switches
<1>13. ExportsFit' BY <1>2, <1>3, <1>4, ExportsKept DEF InPhase
<1>14. HostFits' /\ ClosedIsQuiet' BY OpenIsFree DEF hostVars
<1> QED
  BY <1>3, <1>5, <1>6, <1>7, <1>9, <1>10, <1>11, <1>12, <1>13, <1>14
     DEF CommandsInv, ProtectionIsInForce, ConnectionIsShared

LEMMA SubmitKept ==
  ASSUME CommandsInv, NEW c \in Ids, NEW kind \in bounds.kinds[c], Submit(c, kind)
  PROVE  CommandsInv'
<1>1. kind \in Kinds
  <2>1. bounds \in [kinds : [1 .. MaxCommands -> SUBSET Kinds], shutdown : BOOLEAN]
    BY BoundsAssumption DEF CommandsInv, CommandsTyped
  <2>2. bounds.kinds \in [1 .. MaxCommands -> SUBSET Kinds] BY <2>1
  <2>3. bounds.kinds[c] \in SUBSET Kinds BY <2>2 DEF Ids
  <2> QED BY <2>3
<1>2. IsNext(c) /\ UNCHANGED <<prefs, hostVars>> BY DEF Submit
<1>3. CASE kind = "recovery" /\ JoinsShutdown(c) BY <1>2, <1>3, JoinsShutdownKept
<1>4. CASE host = "open" /\ kind = "disconnect" /\ Disconnects(c)
  BY <1>2, <1>4, DisconnectsKept
<1>5. CASE host = "open" /\ kind \in {"stop", "recovery"} /\ Stops(c, kind)
  BY <1>2, <1>5, StopsKept
<1>6. ASSUME host = "open", NEW p \in Profiles \cup {None}, kind \in Kinds \ LocalKinds,
             Checks(c, kind, p, FALSE)
      PROVE  CommandsInv'
  <2>1. PICK b \in BOOLEAN : ~b OBVIOUS
  <2>2. Checks(c, kind, p, b) BY <1>6, <2>1, Zenon
  <2> QED BY <1>2, <1>6, <2>1, <2>2, ChecksKept
<1>7. CASE host = "open" /\ kind = "profile" /\ \E p \in Profiles : Checks(c, kind, p, FALSE)
  <2>1. kind \in Kinds \ LocalKinds BY <1>1, <1>7 DEF LocalKinds
  <2> QED BY <1>6, <1>7, <2>1
<1>8. CASE host = "open" /\ kind \notin LocalKinds \cup {"profile"} /\ Checks(c, kind, None, FALSE)
  BY <1>1, <1>6, <1>8
<1> QED BY <1>3, <1>4, <1>5, <1>7, <1>8 DEF Submit

LEMMA PluginSubmitsKept ==
  ASSUME CommandsInv, NEW c \in Ids, PluginSubmits(c)
  PROVE  CommandsInv'
<1>1. /\ IsNext(c) /\ Checks(c, "read", None, TRUE) /\ host # "closed"
      /\ UNCHANGED <<prefs, hostVars>>
  BY DEF PluginSubmits
<1>2. PICK b \in BOOLEAN : b OBVIOUS
<1>3. Checks(c, "read", None, b) BY <1>1, <1>2, Zenon
<1>4. "read" \in Kinds \ LocalKinds BY DEF Kinds, LocalKinds, RemoteKinds
<1> QED BY <1>1, <1>2, <1>3, <1>4, ChecksKept

---------------------------------------------------------------------------
(* Connecting and disconnecting.                                           *)

LEMMA ProfileResolvedKept ==
  ASSUME CommandsInv, NEW c \in Ids, NEW fails \in BOOLEAN, ProfileResolved(c, fails)
  PROVE  CommandsInv'
<1>1. InPhase(c, {"resolving"}) /\ UNCHANGED <<prefs, hostVars>> BY DEF ProfileResolved
<1>2. CASE fails \/ latest # c
  BY <1>1, <1>2, FailsKept DEF ProfileResolved, InPhase
<1>3. CASE ~(fails \/ latest # c)
  <2>1. /\ latest = c /\ Goes(c, "idling")
        /\ lifetime' = c /\ waiting' = Append(waiting, c)
        /\ reading' = NoRead /\ ranges' = Revoked
        /\ UNCHANGED <<session, latest, active>>
    BY <1>3 DEF ProfileResolved
  <2>2. /\ commands[c] \in Command /\ KindFits(commands[c]) /\ commands[c].session = "none"
        /\ commands[c].kind = "profile" /\ ~InPhase(c, {"unused"})
    BY <1>1, BeforeDispatch DEF InPhase, KindFits
  <2>3. KindFits([commands[c] EXCEPT !.phase = "idling"])
    BY <2>2 DEF KindFits, Command, LocalKinds
  <2>4. /\ commands' \in [Ids -> Command] /\ CommandsFit' /\ AdmittedInOrder' /\ Alone(c)
        /\ commands'[c] = [commands[c] EXCEPT !.phase = "idling"]
    BY <2>1, <2>2, <2>3, GoesIs DEF Phases
  <2>5. /\ commands'[c].phase = "idling" /\ commands'[c].kind = commands[c].kind
        /\ commands'[c].prefs = commands[c].prefs
        /\ commands'[c].dispatched = commands[c].dispatched
    BY <2>2, <2>4 DEF Command
  <2>6. c \in RemoteOperations
    BY <1>1, <2>2 DEF RemoteOperations, IsOfKind, RemoteKinds, Counted, Pending, InPhase
  <2>7. commands[c].prefs = prefs.saves /\ ~Changing
    BY <2>6 DEF CommandsInv, ProtectionIsInForce, OperationsInForce, ChangesRunAlone
  <2>8. host = "open" BY <2>1, Distinct DEF CommandsInv, HostFits
  <2> HIDE DEF Alone
  <2>9. LatestFits' BY <2>1, <2>4, <2>5, LatestKept DEF IsOfKind
  <2>10. latest' \in Owners BY <2>1 DEF CommandsInv, CommandsTyped
  <2> QED
    BY <1>1, <2>1, <2>2, <2>4, <2>5, <2>7, <2>8, <2>9, <2>10, BeginsKept
       DEF InPhase, IsOfKind
<1> QED BY <1>2, <1>3

\* The head of the queue leaves it; the others keep their turns.
LEMMA QueueAdvances ==
  ASSUME CommandsInv, NEW c \in Ids, Alone(c), waiting # <<>>, Head(waiting) = c,
         waiting' = Tail(waiting)
  PROVE  waiting' \in Seq(Ids) /\ QueueFits' /\ InPhase(c, {"idling"})
<1>1. waiting \in Seq(Ids) BY DEF CommandsInv, CommandsTyped
<1>2. /\ Len(waiting) \in Nat \ {0} /\ waiting[1] = c /\ 1 \in 1 .. Len(waiting)
      /\ waiting' \in Seq(Ids) /\ Len(waiting') = Len(waiting) - 1
  BY <1>1
<1>3. \A i \in 1 .. Len(waiting') : waiting'[i] = waiting[i + 1] /\ i + 1 \in 1 .. Len(waiting)
  BY <1>1, <1>2
<1>4. InPhase(c, {"idling"}) BY <1>2 DEF CommandsInv, QueueFits
<1>5. \A i \in 1 .. Len(waiting') : waiting[i + 1] # c /\ waiting[i + 1] \in Ids
  <2> SUFFICES ASSUME NEW i \in 1 .. Len(waiting') PROVE waiting[i + 1] # c /\ waiting[i + 1] \in Ids
    OBVIOUS
  <2>1. i + 1 \in 1 .. Len(waiting) /\ i + 1 # 1 BY <1>2, <1>3
  <2> QED BY <1>1, <1>2, <2>1 DEF CommandsInv, QueueFits
<1>6. \A i \in 1 .. Len(waiting') : commands'[waiting'[i]].phase = "idling"
  BY <1>3, <1>5 DEF CommandsInv, QueueFits, InPhase, Alone
<1>7. ASSUME NEW i \in 1 .. Len(waiting'), NEW j \in 1 .. Len(waiting'), waiting'[i] = waiting'[j]
      PROVE  i = j
  <2>1. i + 1 = j + 1 BY <1>3, <1>7 DEF CommandsInv, QueueFits
  <2> QED BY <2>1, <1>2
<1> QED BY <1>2, <1>4, <1>6, <1>7 DEF QueueFits, InPhase

LEMMA IdledKept ==
  ASSUME CommandsInv, NEW c \in Ids, Idled(c)
  PROVE  CommandsInv'
<1> DEFINE Goes1 == ranges.state = "idle" /\ IsCurrentCommand(c)
<1>1. /\ waiting # <<>> /\ Head(waiting) = c /\ waiting' = Tail(waiting) /\ RangesIdle
      /\ active' = IF ranges.state = "dirty" THEN active ELSE None
      /\ UNCHANGED <<latest, lifetime, work, prefs, hostVars>>
      /\ IF Goes1 THEN Goes(c, "connecting") /\ session' = [state |-> "connecting", op |-> c]
                  ELSE Answers(c, "failed") /\ UNCHANGED session
  BY DEF Idled
<1>2. commands[c] \in Command /\ KindFits(commands[c]) /\ InPhase(c, {"idling"})
  <2>1. waiting \in Seq(Ids) BY DEF CommandsInv, CommandsTyped
  <2>2. waiting[1] = c /\ 1 \in 1 .. Len(waiting) BY <1>1, <2>1
  <2> QED BY <2>2 DEF CommandsInv, QueueFits, CommandsTyped, CommandsFit
<1>3. /\ commands[c].phase = "idling" /\ commands[c].session = "none"
      /\ commands[c].kind \in {"connect", "profile"} /\ ~Attempted(commands[c])
      /\ session.state \in {"connecting", "connected"} => session.op # c
  BY <1>2 DEF InPhase, KindFits, Attempted, Command, CommandsInv, SessionFits, Connects
<1>4. /\ commands' \in [Ids -> Command] /\ CommandsFit' /\ AdmittedInOrder' /\ Alone(c)
      /\ commands'[c].kind = commands[c].kind /\ commands'[c].prefs = commands[c].prefs
      /\ commands'[c].dispatched = commands[c].dispatched
      /\ commands'[c].session = "none"
      /\ commands'[c].phase = IF Goes1 THEN "connecting" ELSE "done"
  <2>1. CASE Goes1
    <3>1. KindFits([commands[c] EXCEPT !.phase = "connecting"])
      BY <1>2, <1>3 DEF KindFits, Command, LocalKinds
    <3>2. /\ commands' \in [Ids -> Command] /\ CommandsFit' /\ AdmittedInOrder' /\ Alone(c)
          /\ commands'[c] = [commands[c] EXCEPT !.phase = "connecting"]
      BY <1>1, <1>3, <2>1, <3>1, GoesIs DEF Phases, InPhase
    <3> QED BY <1>2, <1>3, <2>1, <3>2 DEF Command
  <2>2. CASE ~Goes1
    <3>1. /\ commands' \in [Ids -> Command] /\ CommandsFit' /\ AdmittedInOrder' /\ Alone(c)
          /\ commands'[c] = [commands[c] EXCEPT !.phase = "done", !.session = "none",
                                                !.answer = "failed"]
      BY <1>1, <1>3, <2>2, AnswerIs DEF Answered, InPhase
    <3>2. /\ commands'[c].kind = commands[c].kind /\ commands'[c].prefs = commands[c].prefs
          /\ commands'[c].dispatched = commands[c].dispatched
          /\ commands'[c].session = "none" /\ commands'[c].phase = "done"
      BY <1>2, <3>1 DEF Command
    <3> QED BY <2>2, <3>1, <3>2, ZenonT(40)
  <2> QED BY <2>1, <2>2
<1> HIDE DEF Alone
<1>5. waiting' \in Seq(Ids) /\ QueueFits' BY <1>1, <1>4, QueueAdvances
<1>6. Goes1 => /\ session' = [state |-> "connecting", op |-> c] /\ active' = None
               /\ lifetime = c /\ latest = c /\ host = "open"
  <2> SUFFICES ASSUME Goes1 PROVE /\ session' = [state |-> "connecting", op |-> c] /\ active' = None
                                  /\ lifetime = c /\ latest = c /\ host = "open"
    OBVIOUS
  <2>1. latest = c /\ lifetime = c BY DEF IsCurrentCommand, HoldsLifetime
  <2>2. host = "open" BY <2>1, Distinct DEF CommandsInv, HostFits
  <2> QED BY <1>1, <2>1, <2>2
<1>7. ~Goes1 => session' = session BY <1>1
<1>8. active' \in {active, None} BY <1>1
<1>9. (session' = session /\ ~Goes1) \/ (session' = [state |-> "connecting", op |-> c] /\ Goes1)
  BY <1>6, <1>7
<1> HIDE DEF Goes1
<1>10. CommandsTyped'
  BY <1>1, <1>4, <1>5, <1>8, <1>9 DEF CommandsInv, CommandsTyped, work, hostVars, Owners
<1>11. SessionFits'
  <2>1. CASE session' = session /\ ~Goes1
    BY <1>3, <1>4, <1>8, <2>1 DEF CommandsInv, SessionFits, Connects, InPhase, Alone
  <2>2. CASE session' = [state |-> "connecting", op |-> c] /\ Goes1
    BY <1>4, <1>6, <2>2 DEF SessionFits, Connects, InPhase
  <2> QED BY <1>9, <2>1, <2>2
<1>12. LifetimeFits'
  <2> SUFFICES ASSUME NEW d \in Ids, lifetime' = d, commands'[d].phase \in {"connecting", "marking"},
                      Attempted(commands'[d])
               PROVE  ServedBy(d)'
    BY DEF LifetimeFits, InPhase
  <2>1. d # c BY <1>4 DEF Attempted
  <2>2. ~Goes1 BY <1>1, <1>6, <2>1
  <2>3. ServedBy(d)
    BY <1>1, <1>4, <2>1 DEF CommandsInv, LifetimeFits, Alone, InPhase
  <2> QED BY <1>7, <2>2, <2>3 DEF ServedBy
<1>13. LatestFits' BY <1>1, <1>4, LatestKept DEF IsOfKind
<1>14. ~Changing /\ commands[c].prefs = prefs.saves
  <2>1. c \in RemoteOperations
    BY <1>3 DEF RemoteOperations, IsOfKind, RemoteKinds, Counted, Pending, InPhase
  <2> QED BY <2>1 DEF CommandsInv, ProtectionIsInForce, OperationsInForce, ChangesRunAlone
<1>15. ChangesRunAlone'
  BY <1>4, <1>14 DEF ChangesRunAlone, Changing, InPhase, Alone
<1>16. OperationsInForce' BY <1>1, <1>4, <1>14, OperationsKept
<1>17. ConnectionInForce'
  BY <1>1, <1>3, <1>4, <1>9, <1>14
     DEF CommandsInv, SessionFits, ProtectionIsInForce, ConnectionInForce, Alone
<1>18. ReadFits' /\ NewestReadPrevails'
  <2>1. reading' = reading BY <1>1 DEF work
  <2>2. ReadFits'
    BY <1>3, <1>4, <2>1 DEF CommandsInv, ReadFits, Alone, InPhase, NoRead
  <2>3. NewestReadPrevails'
    BY <1>4, <2>1 DEF CommandsInv, ReadFits, NewestReadPrevails, Alone, After, IsOfKind, Ids, NoRead
  <2> QED BY <2>2, <2>3
<1>19. ReadInForce'
  <2>1. reading' = reading /\ prefs' = prefs BY <1>1 DEF work
  <2>2. CASE session' = session
    BY <1>3, <1>4, <2>1, <2>2
       DEF CommandsInv, ReadFits, ProtectionIsInForce, ReadInForce, ServedBy, Alone, InPhase
  <2>3. CASE session' = [state |-> "connecting", op |-> c]
    BY <2>3 DEF ReadInForce, ServedBy
  <2> QED BY <1>9, <2>2, <2>3
<1>20. RangesFit' /\ RangesInForce' /\ RangeHasItsConnection'
  BY <1>1 DEF CommandsInv, RangesFit, RangesInForce, ProtectionIsInForce, RangeHasItsConnection,
              RangesIdle, work
<1>21. ActiveProfileIsConnected'
  BY <1>3, <1>4, <1>8, <1>9
     DEF CommandsInv, SessionFits, ConnectionIsShared, ActiveProfileIsConnected, IsConnected, Alone
<1>22. ExportsFit' BY <1>3, <1>4, ExportsKept DEF InPhase, IsOfKind
<1>23. HostFits' /\ ClosedIsQuiet'
  <2>1. CASE host = "open" BY <1>1, <2>1, OpenIsFree DEF hostVars
  <2>2. CASE host # "open"
    <3>1. session' = session BY <1>6, <1>9, <2>2
    <3>2. ~(host = "closed" /\ ~InPhase(c, {"unused", "done"})')
      BY <1>3 DEF CommandsInv, ClosedIsQuiet, Pending, InPhase, IsOfKind
    <3> QED BY <1>1, <1>4, <3>1, <3>2, HostKept DEF hostVars, work
  <2> QED BY <2>1, <2>2
<1> QED
  BY <1>4, <1>5, <1>10, <1>11, <1>12, <1>13, <1>15, <1>16, <1>17, <1>18, <1>19, <1>20, <1>21, <1>22,
     <1>23
     DEF CommandsInv, ProtectionIsInForce, ConnectionIsShared

\* The session connects for a command that still holds the lifetime.
LEMMA ConnectSucceedsKept ==
  ASSUME CommandsInv, NEW c \in Ids, InPhase(c, {"connecting"}), commands[c].session = "none",
         session.op = c, HoldsLifetime(c),
         session' = [session EXCEPT !.state = "connected"],
         commands' = [commands EXCEPT ![c].session = "ok"],
         UNCHANGED <<intents, active, work, prefs, hostVars>>
  PROVE  CommandsInv'
<1> DEFINE k == [commands[c] EXCEPT !.session = "ok"]
<1>1. commands[c] \in Command /\ KindFits(commands[c])
  BY CommandFits, Zenon
<1>2. commands' = [commands EXCEPT ![c] = k] BY <1>1 DEF Command, CommandsInv, CommandsTyped
<1>3. /\ k \in Command /\ k.kind = commands[c].kind /\ k.phase = "connecting" /\ k.session = "ok"
      /\ k.prefs = commands[c].prefs /\ k.profile = commands[c].profile
      /\ k.dispatched = commands[c].dispatched /\ KindFits(k)
  BY <1>1 DEF Command, Answered, KindFits, InPhase
<1> HIDE DEF k
<1>4. /\ commands' \in [Ids -> Command] /\ CommandsFit' /\ AdmittedInOrder'
      /\ Alone(c) /\ commands'[c] = k
  BY <1>2, <1>3, OneCommand DEF InPhase
<1> HIDE DEF Alone
<1>5. session' = [state |-> "connected", op |-> c] /\ session'.state = "connected" /\ session'.op = c
  BY DEF CommandsInv, CommandsTyped
<1>6. ~Attempted(commands[c]) /\ Attempted(k) BY <1>3 DEF Attempted, InPhase
<1>7. c \in RemoteOperations
  BY <1>1 DEF RemoteOperations, IsOfKind, RemoteKinds, Counted, Pending, InPhase, KindFits
<1>8. ~Changing /\ commands[c].prefs = prefs.saves
  BY <1>7 DEF CommandsInv, ProtectionIsInForce, OperationsInForce, ChangesRunAlone
<1>9. host = "open" BY Distinct DEF CommandsInv, HostFits, HoldsLifetime
<1>10. ranges.state # "running"
  BY DEF CommandsInv, ConnectionIsShared, RangeHasItsConnection, InPhase
<1>11. CommandsTyped'
  BY <1>4, <1>5 DEF CommandsInv, CommandsTyped, intents, work, hostVars, Owners
<1>12. SessionFits' BY <1>3, <1>4, <1>5, <1>6 DEF SessionFits, Connects
<1>13. LifetimeFits'
  <2> SUFFICES ASSUME NEW d \in Ids, lifetime' = d PROVE ServedBy(d)'
    BY DEF LifetimeFits
  <2>1. d = c BY DEF HoldsLifetime, intents
  <2> QED BY <1>5, <2>1 DEF ServedBy
<1>14. QueueFits' BY <1>4 DEF CommandsInv, CommandsTyped, QueueFits, InPhase, Alone, intents
<1>15. ActiveProfileIsConnected'
  <2>1. active = None BY DEF CommandsInv, SessionFits, Connects, InPhase
  <2> QED BY <2>1 DEF ActiveProfileIsConnected
<1>16. LatestFits' BY <1>3, <1>4, LatestKept DEF IsOfKind, intents
<1>17. ChangesRunAlone' BY <1>3, <1>4, <1>8 DEF ChangesRunAlone, Changing, InPhase, Alone
<1>18. OperationsInForce' BY <1>3, <1>4, <1>8, OperationsKept
<1>19. ConnectionInForce' BY <1>3, <1>4, <1>5, <1>8 DEF ConnectionInForce
<1>20. ReadFits' /\ NewestReadPrevails'
  <2>1. reading' = reading BY DEF work
  <2>2. ReadFits'
    BY <1>3, <1>4, <1>6, <2>1 DEF CommandsInv, ReadFits, Alone, InPhase, NoRead
  <2>3. NewestReadPrevails'
    BY <1>3, <1>4, <2>1 DEF CommandsInv, ReadFits, NewestReadPrevails, Alone, After, IsOfKind, Ids,
                            NoRead
  <2> QED BY <2>2, <2>3
<1>21. ReadInForce'
  <2>1. reading # NoRead => reading.conn # c BY <1>6, Distinct DEF CommandsInv, ReadFits
  <2>2. reading' = reading BY DEF work
  <2> QED BY <1>5, <2>1, <2>2 DEF ReadInForce, ServedBy
<1>22. RangesFit' /\ RangesInForce' /\ RangeHasItsConnection'
  BY <1>10 DEF CommandsInv, RangesFit, RangesInForce, ProtectionIsInForce, RangeHasItsConnection,
               RangesIdle, work
<1>23. ExportsFit' BY <1>3, <1>4, ExportsKept DEF InPhase, IsOfKind
<1>24. HostFits' /\ ClosedIsQuiet' BY <1>9, OpenIsFree DEF hostVars
<1> QED
  BY <1>4, <1>11, <1>12, <1>13, <1>14, <1>15, <1>16, <1>17, <1>18, <1>19, <1>20, <1>21, <1>22, <1>23,
     <1>24
     DEF CommandsInv, ProtectionIsInForce, ConnectionIsShared

\* The session ends, or fails to connect, for a command that owned it.
LEMMA SessionEndsKept ==
  ASSUME CommandsInv, NEW c \in Ids, NEW s \in {"failed", "disconnected"},
         InPhase(c, {"connecting", "closing"}), ~Attempted(commands[c]), session.op = c,
         session' = [session EXCEPT !.state = s],
         commands' \in [Ids -> Command], CommandsFit', AdmittedInOrder', Alone(c),
         InPhase(c, {"closing", "done"})', commands'[c].kind = commands[c].kind,
         commands'[c].dispatched = commands[c].dispatched,
         InPhase(c, {"closing"})' => InPhase(c, {"closing"}),
         UNCHANGED <<intents, active, work, prefs, hostVars>>
  PROVE  CommandsInv'
<1>1. session.state # "connected" BY DEF CommandsInv, SessionFits
<1>2. session' \in [state : {"failed", "disconnected"}, op : {c}]
  BY DEF CommandsInv, CommandsTyped
<1>3. CommandsTyped'
  BY <1>2 DEF CommandsInv, CommandsTyped, intents, work, hostVars, Owners
<1>4. SessionFits' /\ ActiveProfileIsConnected' /\ ConnectionInForce' /\ ReadInForce'
  BY <1>2 DEF SessionFits, Connects, InPhase, ActiveProfileIsConnected, IsConnected,
              ConnectionInForce, ReadInForce, ServedBy
<1>5. LifetimeFits'
  <2> SUFFICES ASSUME NEW d \in Ids, lifetime' = d, commands'[d].phase \in {"connecting", "marking"},
                      Attempted(commands'[d])
               PROVE  FALSE
    BY DEF LifetimeFits, InPhase
  <2>1. d # c BY DEF InPhase
  <2>2. ServedBy(d) BY <2>1 DEF CommandsInv, LifetimeFits, Alone, InPhase, intents
  <2> QED BY <1>1, <2>2 DEF ServedBy
<1>6. QueueFits' BY DEF CommandsInv, CommandsTyped, QueueFits, InPhase, Alone, intents
<1>7. LatestFits' BY LatestKept DEF IsOfKind, intents
<1>8. ChangesRunAlone'
  <2>1. Changing' => Changing BY DEF Changing, InPhase, Alone
  <2>2. ASSUME NEW d \in Ids PROVE d \in RemoteOperations' => d \in RemoteOperations
    <3>1. CASE d = c
      BY <3>1 DEF RemoteOperations, Counted, Pending, IsOfKind, InPhase
    <3>2. CASE d # c
      BY <3>2 DEF RemoteOperations, Counted, Pending, IsOfKind, InPhase, Alone
    <3> QED BY <3>1, <3>2
  <2>3. RemoteOperations' \subseteq RemoteOperations BY <2>2 DEF RemoteOperations
  <2>4. (\E d \in Ids : InPhase(d, {"saving"}))' => \E d \in Ids : InPhase(d, {"saving"})
    BY DEF InPhase, Alone
  <2> QED BY <1>2, <2>1, <2>3, <2>4 DEF CommandsInv, ChangesRunAlone, work
<1>9. OperationsInForce'
  <2>1. ~Remote(commands'[c])
    BY DEF Remote, InPhase, CommandsFit, KindFits, RemoteKinds
  <2> QED BY <2>1, OperationsKept
<1>10. ReadFits' /\ NewestReadPrevails'
  <2>1. reading' = reading BY DEF work
  <2>2. reading # NoRead => reading.start # c /\ reading.conn # c
    BY Distinct DEF CommandsInv, ReadFits, InPhase
  <2>3. ReadFits' BY <2>1, <2>2 DEF CommandsInv, ReadFits, Alone, InPhase
  <2>4. NewestReadPrevails'
    BY <2>1 DEF CommandsInv, ReadFits, NewestReadPrevails, Alone, After, IsOfKind, Ids, NoRead
  <2> QED BY <2>3, <2>4
<1>11. RangesFit' /\ RangesInForce' /\ RangeHasItsConnection'
  BY <1>1 DEF CommandsInv, RangesFit, RangesInForce, ProtectionIsInForce, ConnectionIsShared,
              RangeHasItsConnection, RangesIdle, ServedBy, work
<1>12. ExportsFit' BY ExportsKept DEF InPhase, IsOfKind
<1>13. HostFits' /\ ClosedIsQuiet'
  <2>1. host = "open" BY Distinct DEF CommandsInv, HostFits
  <2> QED BY <2>1, OpenIsFree DEF hostVars
<1> QED
  BY <1>3, <1>4, <1>5, <1>6, <1>7, <1>8, <1>9, <1>10, <1>11, <1>12, <1>13
     DEF CommandsInv, ProtectionIsInForce, ConnectionIsShared

LEMMA ConnectSettlesKept ==
  ASSUME CommandsInv, NEW c \in Ids, NEW fails \in BOOLEAN, ConnectSettles(c, fails)
  PROVE  CommandsInv'
<1>1. /\ InPhase(c, {"connecting"}) /\ commands[c].session = "none"
      /\ UNCHANGED <<intents, active, work, prefs, hostVars>>
      /\ commands[c] \in Command
  BY DEF ConnectSettles, CommandsInv, CommandsTyped
<1>2. CASE /\ session.op = c /\ HoldsLifetime(c)
           /\ session' = [session EXCEPT !.state = "connected"]
           /\ commands' = [commands EXCEPT ![c].session = "ok"]
  BY <1>1, <1>2, ConnectSucceedsKept
<1>3. CASE /\ session' = IF session.op = c THEN [session EXCEPT !.state = "failed"] ELSE session
           /\ Answers(c, "failed")
  <2>1. CASE session.op # c
    BY <1>1, <1>3, <2>1, AnswerKept DEF InPhase, work, Answered
  <2>2. CASE session.op = c
    <3>1. /\ commands' \in [Ids -> Command] /\ CommandsFit' /\ AdmittedInOrder' /\ Alone(c)
          /\ commands'[c] = [commands[c] EXCEPT !.phase = "done", !.session = "none",
                                                !.answer = "failed"]
      BY <1>1, <1>3, AnswerIs DEF Answered, InPhase
    <3>2. /\ commands'[c].phase = "done" /\ commands'[c].kind = commands[c].kind
          /\ commands'[c].dispatched = commands[c].dispatched
      BY <1>1, <3>1 DEF Command
    <3>3. ~Attempted(commands[c]) BY <1>1 DEF Attempted, InPhase
    <3> HIDE DEF Alone
    <3> QED BY <1>1, <1>3, <2>2, <3>1, <3>2, <3>3, SessionEndsKept, Zenon DEF InPhase
  <2> QED BY <2>1, <2>2
<1> QED BY <1>2, <1>3 DEF ConnectSettles

\* A disconnect settles for a command that a newer operation came after.
LEMMA EndSettlesKept ==
  ASSUME CommandsInv, NEW c \in Ids, NEW fails \in BOOLEAN, EndSettles(c, fails)
  PROVE  CommandsInv'
<1> DEFINE a == IF fails THEN "failed" ELSE "ok"
           k == [commands[c] EXCEPT !.session = a]
<1>1. /\ InPhase(c, {"closing"}) /\ commands[c].session = "none"
      /\ UNCHANGED <<intents, active, work, prefs, hostVars>>
      /\ commands[c] \in Command /\ KindFits(commands[c]) /\ ~Attempted(commands[c])
  BY DEF EndSettles, CommandsInv, CommandsTyped, CommandsFit, Attempted, InPhase
<1>2. commands' = [commands EXCEPT ![c] = k]
  BY <1>1 DEF EndSettles, Command, CommandsInv, CommandsTyped
<1>3. /\ k \in Command /\ k.kind = commands[c].kind /\ k.phase = "closing"
      /\ k.prefs = commands[c].prefs /\ k.dispatched = commands[c].dispatched
      /\ KindFits(k) /\ k.kind = "disconnect"
  BY <1>1 DEF Command, Answered, KindFits, InPhase
<1> HIDE DEF k
<1>4. /\ commands' \in [Ids -> Command] /\ CommandsFit' /\ AdmittedInOrder'
      /\ Alone(c) /\ commands'[c] = k
  BY <1>1, <1>2, <1>3, OneCommand DEF InPhase
<1> HIDE DEF Alone
<1>5. CASE session.op = c
  <2>1. PICK s \in {"failed", "disconnected"} : session' = [session EXCEPT !.state = s]
    BY <1>5 DEF EndSettles
  <2> QED BY <1>1, <1>3, <1>4, <1>5, <2>1, SessionEndsKept DEF InPhase
<1>6. CASE session.op # c
  <2>1. session' = session BY <1>6 DEF EndSettles
  <2>2. CommandsTyped' BY <1>1, <1>4, <2>1 DEF CommandsInv, CommandsTyped, intents, work, hostVars
  <2>3. SessionFits' /\ LifetimeFits' /\ QueueFits' /\ ActiveProfileIsConnected'
    BY <1>1, <1>3, <1>4, <1>6, <2>1, ConnectionKept DEF Connects, InPhase, intents
  <2>4. LatestFits' BY <1>1, <1>3, <1>4, LatestKept DEF IsOfKind, intents
  <2>5. ~Remote(commands'[c]) /\ ~InPhase(c, Changes)'
    BY <1>3, <1>4 DEF Remote, RemoteKinds, InPhase, Changes
  <2>6. ChangesRunAlone'
    BY <1>1, <1>3, <1>4, <2>1, <2>5, ChangesKept DEF InPhase, work
  <2>7. OperationsInForce' /\ ConnectionInForce'
    BY <1>1, <1>4, <1>6, <2>1, <2>5, OperationsKept, ConnectionInForceKept
  <2>8. ReadFits' /\ ReadInForce' /\ NewestReadPrevails'
    BY <1>1, <1>3, <1>4, <2>1, ReadKept DEF InPhase, IsOfKind, ReadKinds, work
  <2>9. RangesFit' /\ RangesInForce' /\ RangeHasItsConnection'
    BY <1>1, <1>4, <2>1, RangesKept DEF InPhase, Switches, work
  <2>10. ExportsFit' BY <1>1, <1>3, <1>4, ExportsKept DEF InPhase
  <2>11. HostFits' /\ ClosedIsQuiet'
    <3>1. host # "closed"
      BY <1>1, <1>3 DEF CommandsInv, ClosedIsQuiet, Pending, InPhase, IsOfKind
    <3> QED BY <1>1, <1>4, <2>1, <3>1, HostKept DEF intents, work, hostVars
  <2> QED
    BY <1>4, <2>2, <2>3, <2>4, <2>6, <2>7, <2>8, <2>9, <2>10, <2>11
       DEF CommandsInv, ProtectionIsInForce, ConnectionIsShared
<1> QED BY <1>5, <1>6

\* A command that was answered while the profile became active or was left.
LEMMA ActiveChangesKept ==
  ASSUME CommandsInv, NEW c \in Ids, InPhase(c, {"marking", "closing"}), HoldsLifetime(c),
         InPhase(c, {"closing"}) => active' = None,
         InPhase(c, {"marking"}) => active' = commands[c].profile,
         Answers(c, "ok"), UNCHANGED <<session, intents, work, prefs, hostVars>>
  PROVE  CommandsInv'
<1>1. commands[c] \in Command /\ KindFits(commands[c])
  BY CommandFits, Zenon
<1>2. /\ commands' \in [Ids -> Command] /\ CommandsFit' /\ AdmittedInOrder' /\ Alone(c)
      /\ commands'[c] = [commands[c] EXCEPT !.phase = "done", !.session = "none", !.answer = "ok"]
  BY AnswerIs DEF Answered, InPhase
<1>3. /\ commands'[c].phase = "done" /\ commands'[c].kind = commands[c].kind
      /\ commands'[c].prefs = commands[c].prefs /\ commands'[c].profile = commands[c].profile
      /\ commands'[c].dispatched = commands[c].dispatched
  BY <1>1, <1>2 DEF Command
<1> HIDE DEF Alone
<1>4. InPhase(c, {"marking"}) => session = [state |-> "connected", op |-> c]
  BY DEF CommandsInv, LifetimeFits, HoldsLifetime, Attempted, InPhase, ServedBy
<1>6. host = "open" BY Distinct DEF CommandsInv, HostFits, HoldsLifetime
<1>7. CommandsTyped'
  <2>1. active' \in Profiles \cup {None} BY <1>1 DEF InPhase, Command
  <2> QED BY <1>2, <2>1 DEF CommandsInv, CommandsTyped, intents, work, hostVars
<1>8. SessionFits'
  <2>1. CASE session.state = "connecting"
    <3>1. session.op # c BY <2>1 DEF CommandsInv, SessionFits, Connects, InPhase
    <3>2. active' = None BY <1>4, <2>1 DEF InPhase
    <3> QED BY <1>2, <2>1, <3>1, <3>2 DEF CommandsInv, SessionFits, Connects, Alone
  <2>2. CASE session.state # "connecting"
    BY <1>2, <1>3, <2>2 DEF CommandsInv, SessionFits, Connects, Attempted, Alone
  <2> QED BY <2>1, <2>2
<1>9. LifetimeFits'
  <2> SUFFICES ASSUME NEW d \in Ids, lifetime' = d, commands'[d].phase \in {"connecting", "marking"}
               PROVE  FALSE
    BY DEF LifetimeFits, InPhase
  <2>1. d = c BY DEF HoldsLifetime, intents
  <2> QED BY <1>3, <2>1
<1>10. QueueFits' BY <1>2, SMTT(20) DEF CommandsInv, CommandsTyped, QueueFits, InPhase, Alone, intents
<1>11. ActiveProfileIsConnected'
  <2>1. CASE InPhase(c, {"marking"})
    <3>1. active' = commands'[c].profile /\ session'.op = c BY <1>3, <1>4, <2>1
    <3> QED BY <3>1 DEF ActiveProfileIsConnected
  <2>2. CASE InPhase(c, {"closing"}) BY <2>2 DEF ActiveProfileIsConnected
  <2> QED BY <2>1, <2>2 DEF InPhase
<1>12. LatestFits' BY <1>2, <1>3, LatestKept DEF IsOfKind, intents
<1>13. ChangesRunAlone' BY <1>2, <1>3, ChangesKept DEF InPhase, Changes, Remote, work
<1>14. OperationsInForce' /\ ConnectionInForce'
  BY <1>2, <1>3, OperationsKept, ConnectionInForceKept DEF Remote
<1>15. ReadFits' /\ ReadInForce' /\ NewestReadPrevails'
  BY <1>2, <1>3, ReadKept DEF InPhase, Attempted, IsOfKind, work
<1>16. RangesFit' /\ RangesInForce' /\ RangeHasItsConnection'
  BY <1>2, <1>3, RangesKept DEF InPhase, Switches, work
<1>17. ExportsFit' BY <1>2, <1>3, ExportsKept DEF InPhase
<1>18. HostFits' /\ ClosedIsQuiet' BY <1>6, OpenIsFree DEF hostVars
<1> QED
  BY <1>2, <1>7, <1>8, <1>9, <1>10, <1>11, <1>12, <1>13, <1>14, <1>15, <1>16, <1>17, <1>18
     DEF CommandsInv, ProtectionIsInForce, ConnectionIsShared

LEMMA MarkedKept ==
  ASSUME CommandsInv, NEW c \in Ids, NEW fails \in BOOLEAN, Marked(c, fails)
  PROVE  CommandsInv'
<1>1. InPhase(c, {"marking"}) /\ UNCHANGED <<session, intents, work, prefs, hostVars>> BY DEF Marked
<1>2. session.state = "connecting" => session.op # c
  BY <1>1 DEF CommandsInv, SessionFits, Connects, InPhase
<1>3. CASE fails \/ ~HoldsLifetime(c)
  BY <1>1, <1>2, <1>3, AnswerKept DEF Marked, InPhase, work, Answered
<1>4. CASE ~(fails \/ ~HoldsLifetime(c))
  BY <1>1, <1>4, ActiveChangesKept DEF Marked, InPhase
<1> QED BY <1>3, <1>4

LEMMA ClosedKept ==
  ASSUME CommandsInv, NEW c \in Ids, Closed(c)
  PROVE  CommandsInv'
<1>1. InPhase(c, {"closing"}) /\ UNCHANGED <<session, intents, work, prefs, hostVars>> BY DEF Closed
<1>2. session.state = "connecting" => session.op # c
  BY <1>1 DEF CommandsInv, SessionFits, Connects, InPhase
<1>3. CASE Answers(c, "ok") /\ active' = None /\ HoldsLifetime(c)
  BY <1>1, <1>3, ActiveChangesKept DEF InPhase
<1>4. CASE Answers(c, "failed") /\ UNCHANGED active
  BY <1>1, <1>2, <1>4, AnswerKept DEF InPhase, work, Answered
<1> QED BY <1>3, <1>4 DEF Closed

\* The caller of session.connect goes on: a profile is marked next.
LEMMA ConnectedKept ==
  ASSUME CommandsInv, NEW c \in Ids, Connected(c)
  PROVE  CommandsInv'
<1>1. /\ InPhase(c, {"connecting"}) /\ commands[c].session = "ok"
      /\ UNCHANGED <<session, intents, active, work, prefs, hostVars>>
      /\ commands[c] \in Command /\ KindFits(commands[c])
  BY DEF Connected, CommandsInv, CommandsTyped, CommandsFit
<1>2. session.state = "connecting" => session.op # c
  BY <1>1 DEF CommandsInv, SessionFits, Connects
<1>3. CASE ~(HoldsLifetime(c) /\ IsOfKind(c, {"profile"}))
  <2>1. PICK a \in Answered : Answers(c, a) BY <1>3 DEF Connected, Answered
  <2> QED BY <1>1, <1>2, <2>1, AnswerKept DEF InPhase, work
<1>4. CASE HoldsLifetime(c) /\ IsOfKind(c, {"profile"})
  <2>1. Goes(c, "marking") BY <1>4 DEF Connected
  <2>2. KindFits([commands[c] EXCEPT !.phase = "marking"])
    BY <1>1, <1>4 DEF KindFits, IsOfKind, InPhase, Command, LocalKinds
  <2>3. /\ commands' \in [Ids -> Command] /\ CommandsFit' /\ AdmittedInOrder' /\ Alone(c)
        /\ commands'[c] = [commands[c] EXCEPT !.phase = "marking"]
    BY <1>1, <2>1, <2>2, GoesIs DEF Phases, InPhase
  <2>4. /\ commands'[c].phase = "marking" /\ commands'[c].kind = commands[c].kind
        /\ commands'[c].prefs = commands[c].prefs /\ commands'[c].profile = commands[c].profile
        /\ commands'[c].dispatched = commands[c].dispatched
    BY <1>1, <2>3 DEF Command
  <2> HIDE DEF Alone
  <2>5. CommandsTyped' BY <1>1, <2>3 DEF CommandsInv, CommandsTyped, intents, work, hostVars
  <2>6. SessionFits' /\ LifetimeFits' /\ QueueFits' /\ ActiveProfileIsConnected'
    BY <1>1, <1>2, <2>3, <2>4, ConnectionKept DEF Connects, InPhase, Attempted, intents
  <2>7. LatestFits' BY <1>1, <2>3, <2>4, LatestKept DEF IsOfKind, intents
  <2>8. c \in RemoteOperations
    BY <1>1, <1>4 DEF RemoteOperations, IsOfKind, RemoteKinds, Counted, Pending, InPhase
  <2>9. ~Changing /\ commands[c].prefs = prefs.saves
    BY <2>8 DEF CommandsInv, ProtectionIsInForce, OperationsInForce, ChangesRunAlone
  <2>10. ChangesRunAlone' BY <1>1, <2>3, <2>4, <2>9, ChangesKept DEF InPhase, Changes, work
  <2>11. OperationsInForce' /\ ConnectionInForce'
    BY <1>1, <2>3, <2>4, <2>9, OperationsKept, ConnectionInForceKept
  <2>12. ReadFits' /\ ReadInForce' /\ NewestReadPrevails'
    BY <1>1, <2>3, <2>4, ReadKept DEF InPhase, Attempted, IsOfKind, work
  <2>13. RangesFit' /\ RangesInForce' /\ RangeHasItsConnection'
    BY <1>1, <2>3, RangesKept DEF InPhase, Switches, work
  <2>14. ExportsFit' BY <1>1, <2>3, <2>4, ExportsKept DEF InPhase
  <2>15. HostFits' /\ ClosedIsQuiet'
    <3>1. host = "open" BY <1>4, Distinct DEF CommandsInv, HostFits, HoldsLifetime
    <3> QED BY <1>1, <3>1, OpenIsFree DEF hostVars
  <2> QED
    BY <2>3, <2>5, <2>6, <2>7, <2>10, <2>11, <2>12, <2>13, <2>14, <2>15
       DEF CommandsInv, ProtectionIsInForce, ConnectionIsShared
<1> QED BY <1>3, <1>4

---------------------------------------------------------------------------
(* Reads, ranges and changes.                                              *)

LEMMA ReadDropped ==
  ASSUME CommandsInv, reading' = NoRead,
         UNCHANGED <<commands, session, intents, active, ranges, prefs, hostVars>>
  PROVE  CommandsInv'
<1>1. CommandsTyped' BY DEF CommandsInv, CommandsTyped, NoRead, intents, hostVars
<1>2. ReadFits' /\ ReadInForce' /\ NewestReadPrevails' BY NoReadIsQuiet
<1>3. /\ CommandsFit' /\ AdmittedInOrder' /\ SessionFits' /\ LifetimeFits' /\ QueueFits'
      /\ LatestFits' /\ RangesFit' /\ ExportsFit' /\ ConnectionIsShared'
  BY DEF CommandsInv, CommandsFit, AdmittedInOrder, SessionFits, LifetimeFits, QueueFits, LatestFits,
         RangesFit, RangesIdle, ExportsFit, ConnectionIsShared, ActiveProfileIsConnected,
         RangeHasItsConnection, IsConnected, ServedBy, InPhase, IsOfKind, Pending, intents
<1>4. ChangesRunAlone' /\ OperationsInForce' /\ RangesInForce' /\ ConnectionInForce'
  BY DEF CommandsInv, ChangesRunAlone, Changing, RemoteOperations, Counted, Pending, InPhase, IsOfKind,
         ProtectionIsInForce, OperationsInForce, RangesInForce, ConnectionInForce
<1>5. HostFits' /\ ClosedIsQuiet'
  BY DEF CommandsInv, HostFits, ClosedIsQuiet, RangesIdle, Pending, InPhase, IsOfKind, intents, hostVars
<1> QED BY <1>1, <1>2, <1>3, <1>4, <1>5 DEF CommandsInv, ProtectionIsInForce

\* The stream of a read takes the connection that serves.
LEMMA StreamStartsKept ==
  ASSUME CommandsInv, NEW c \in Ids, StreamStarts(c)
  PROVE  CommandsInv'
<1>1. /\ IsOfKind(c, {"start"}) /\ InPhase(c, {"running"})
      /\ reading = [start |-> c, conn |-> None] /\ reading' = [start |-> c, conn |-> session.op]
      /\ session.op \in Ids /\ Attempted(commands[session.op])
      /\ UNCHANGED <<commands, session, intents, active, ranges, prefs, hostVars>>
  BY DEF StreamStarts, CommandsInv, SessionFits, IsConnected
<1>2. CommandsTyped' BY <1>1 DEF CommandsInv, CommandsTyped, intents, hostVars
<1>3. ReadFits' BY <1>1 DEF ReadFits, InPhase
<1>4. commands[c].prefs = prefs.saves
  BY <1>1 DEF CommandsInv, ProtectionIsInForce, OperationsInForce, RemoteOperations, Counted,
              Pending, IsOfKind, InPhase, RemoteKinds
<1>5. ReadInForce' BY <1>1, <1>4 DEF ReadInForce
<1>6. NewestReadPrevails'
  BY <1>1, Distinct DEF CommandsInv, NewestReadPrevails, NoRead, After, IsOfKind
<1>7. /\ CommandsFit' /\ AdmittedInOrder' /\ SessionFits' /\ LifetimeFits' /\ QueueFits'
      /\ LatestFits' /\ RangesFit' /\ ExportsFit' /\ ConnectionIsShared'
  BY <1>1 DEF CommandsInv, CommandsFit, AdmittedInOrder, SessionFits, LifetimeFits, QueueFits,
         LatestFits, RangesFit, RangesIdle, ExportsFit, ConnectionIsShared, ActiveProfileIsConnected,
         RangeHasItsConnection, IsConnected, ServedBy, InPhase, IsOfKind, Pending, intents
<1>8. ChangesRunAlone' /\ OperationsInForce' /\ RangesInForce' /\ ConnectionInForce'
  BY <1>1 DEF CommandsInv, ChangesRunAlone, Changing, RemoteOperations, Counted, Pending, InPhase,
         IsOfKind, ProtectionIsInForce, OperationsInForce, RangesInForce, ConnectionInForce
<1>9. HostFits' /\ ClosedIsQuiet'
  <2>1. host = "open" BY <1>1, Distinct DEF CommandsInv, HostFits, NoRead
  <2> QED BY <1>1, <2>1, OpenIsFree DEF hostVars
<1> QED BY <1>2, <1>3, <1>5, <1>6, <1>7, <1>8, <1>9 DEF CommandsInv, ProtectionIsInForce

LEMMA StartSettlesKept ==
  ASSUME CommandsInv, NEW c \in Ids, NEW fails \in BOOLEAN, StartSettles(c, fails)
  PROVE  CommandsInv'
<1>1. /\ InPhase(c, {"running"}) /\ reading' \in {reading, NoRead}
      /\ UNCHANGED <<session, intents, active, ranges, prefs, hostVars>>
  BY DEF StartSettles
<1>2. PICK a \in Answered : Answers(c, a) BY DEF StartSettles, Answered
<1>3. session.state = "connecting" => session.op # c
  BY <1>1 DEF CommandsInv, SessionFits, Connects, InPhase
<1> QED BY <1>1, <1>2, <1>3, AnswerKept DEF InPhase

LEMMA AnsweredKept ==
  ASSUME CommandsInv, NEW c \in Ids, StopSettles(c) \/ OperationEnds(c) \/ Joined(c)
  PROVE  CommandsInv'
<1>1. /\ InPhase(c, {"stopping", "running", "joining"}) /\ Answers(c, "ok")
      /\ UNCHANGED <<session, intents, active, work, prefs, hostVars>>
  BY DEF StopSettles, OperationEnds, Joined, InPhase
<1>2. session.state = "connecting" => session.op # c
  BY <1>1 DEF CommandsInv, SessionFits, Connects, InPhase
<1> QED BY <1>1, <1>2, AnswerKept DEF InPhase, Answered, work

LEMMA RangeEndsKept ==
  ASSUME CommandsInv, NEW fails \in BOOLEAN, RangeEnds(fails)
  PROVE  CommandsInv'
<1>1. /\ ranges' = [NoJob EXCEPT !.state = IF fails THEN "dirty" ELSE "idle"]
      /\ UNCHANGED <<commands, session, intents, active, reading, prefs, hostVars>>
  BY DEF RangeEnds
<1>2. /\ ranges' \in [state : {"idle", "dirty"}, prefs : {None}, conn : {None}]
  BY <1>1 DEF NoJob
<1>3. CommandsTyped' BY <1>1, <1>2 DEF CommandsInv, CommandsTyped, intents, hostVars
<1>4. /\ CommandsFit' /\ AdmittedInOrder' /\ SessionFits' /\ LifetimeFits' /\ QueueFits'
      /\ LatestFits' /\ ExportsFit' /\ ActiveProfileIsConnected' /\ ReadFits' /\ NewestReadPrevails'
  BY <1>1 DEF CommandsInv, CommandsFit, AdmittedInOrder, SessionFits, LifetimeFits, QueueFits,
         LatestFits, ExportsFit, ConnectionIsShared, ActiveProfileIsConnected, ReadFits,
         NewestReadPrevails, IsConnected, ServedBy, InPhase, IsOfKind, Pending, intents
<1>5. RangesFit' /\ RangeHasItsConnection' /\ RangesInForce'
  BY <1>2 DEF RangesFit, RangeHasItsConnection, RangesInForce
<1>6. ChangesRunAlone' /\ OperationsInForce' /\ ConnectionInForce' /\ ReadInForce'
  BY <1>1, <1>2 DEF CommandsInv, ChangesRunAlone, Changing, RemoteOperations, Counted, Pending, InPhase,
         IsOfKind, ProtectionIsInForce, OperationsInForce, ConnectionInForce, ReadInForce, ServedBy
<1>7. HostFits' /\ ClosedIsQuiet'
  BY <1>1, <1>2 DEF CommandsInv, HostFits, ClosedIsQuiet, RangesIdle, Pending, InPhase, IsOfKind, intents,
         hostVars
<1> QED
  BY <1>3, <1>4, <1>5, <1>6, <1>7 DEF CommandsInv, ProtectionIsInForce, ConnectionIsShared

LEMMA ChangePreparedKept ==
  ASSUME CommandsInv, NEW c \in Ids, ChangePrepared(c)
  PROVE  CommandsInv'
<1>1. /\ InPhase(c, {"preparing"}) /\ RangesIdle
      /\ UNCHANGED <<session, intents, active, work, prefs, hostVars>>
      /\ commands[c] \in Command /\ KindFits(commands[c])
  BY DEF ChangePrepared, CommandsInv, CommandsTyped, CommandsFit
<1>2. CASE Answers(c, "failed")
  <2>1. session.state = "connecting" => session.op # c
    BY <1>1 DEF CommandsInv, SessionFits, Connects, InPhase
  <2> QED BY <1>1, <1>2, <2>1, AnswerKept DEF InPhase, Answered, work
<1>3. CASE Goes(c, "saving")
  <2>1. KindFits([commands[c] EXCEPT !.phase = "saving"])
    BY <1>1 DEF KindFits, InPhase, Command, LocalKinds
  <2>2. /\ commands' \in [Ids -> Command] /\ CommandsFit' /\ AdmittedInOrder' /\ Alone(c)
        /\ commands'[c] = [commands[c] EXCEPT !.phase = "saving"]
    BY <1>1, <1>3, <2>1, GoesIs DEF Phases, InPhase
  <2>3. /\ commands'[c].phase = "saving" /\ commands'[c].kind = commands[c].kind
        /\ commands'[c].dispatched = commands[c].dispatched
    BY <1>1, <2>2 DEF Command
  <2>4. Changing /\ ranges.prefs = None /\ ~IsOfKind(c, RemoteKinds)
    BY <1>1 DEF Changing, InPhase, CommandsInv, RangesFit, KindFits, IsOfKind, ChangeKinds, RemoteKinds
  <2> HIDE DEF Alone
  <2> QED BY <1>1, <2>2, <2>3, <2>4, MoveKept DEF InPhase
<1> QED BY <1>2, <1>3 DEF ChangePrepared

\* What is saved is in force at once: nothing is there that it could not reach.
LEMMA ChangeSavedKept ==
  ASSUME CommandsInv, NEW c \in Ids, NEW fails \in BOOLEAN, ChangeSaved(c, fails)
  PROVE  CommandsInv'
<1>1. InPhase(c, {"saving"}) /\ UNCHANGED <<session, intents, active, work, hostVars>>
  BY DEF ChangeSaved
<1>2. session.state = "connecting" => session.op # c
  BY <1>1 DEF CommandsInv, SessionFits, Connects, InPhase
<1>k. commands[c] \in Command /\ KindFits(commands[c])
  BY CommandFits, Zenon
<1>3. CASE Answers(c, "failed") /\ UNCHANGED prefs
  BY <1>1, <1>2, <1>3, AnswerKept DEF InPhase, Answered, work
<1>4. CASE /\ Answers(c, "ok")
           /\ prefs' \in [saves : {prefs.saves + 1}, ready : {TRUE}, readOnly : BOOLEAN]
  <2>1. /\ commands' \in [Ids -> Command] /\ CommandsFit' /\ AdmittedInOrder' /\ Alone(c)
        /\ commands'[c] = [commands[c] EXCEPT !.phase = "done", !.session = "none", !.answer = "ok"]
    BY <1>1, <1>4, AnswerIs DEF Answered, InPhase
  <2>2. /\ commands'[c].phase = "done" /\ commands'[c].kind = commands[c].kind
        /\ commands'[c].profile = commands[c].profile
        /\ commands'[c].dispatched = commands[c].dispatched
    BY <1>k, <2>1 DEF Command
  <2> HIDE DEF Alone
  <2>3. RemoteOperations = {} /\ ranges.prefs = None
        /\ session.state \notin {"connecting", "connected"}
    BY <1>1 DEF CommandsInv, ChangesRunAlone, Changing, InPhase
  <2>4. CommandsTyped'
    <3>1. prefs.saves + 1 \in Nat BY DEF CommandsInv, CommandsTyped
    <3>2. prefs' \in [saves : Nat, readOnly : BOOLEAN, ready : BOOLEAN] BY <1>4, <3>1
    <3> QED BY <1>1, <2>1, <3>2 DEF CommandsInv, CommandsTyped, intents, work, hostVars
  <2>5. SessionFits' /\ LifetimeFits' /\ QueueFits' /\ ActiveProfileIsConnected'
    BY <1>1, <1>2, <2>1, <2>2, ConnectionKept DEF Connects, InPhase, Attempted, intents
  <2>6. LatestFits' BY <1>1, <2>1, <2>2, LatestKept DEF IsOfKind, intents
  <2>7. ChangesRunAlone' BY <1>1, <2>1, <2>2, ChangesKept DEF InPhase, Changes, Remote, work
  <2>8. OperationsInForce'
    BY <2>1, <2>2, <2>3
       DEF OperationsInForce, RemoteOperations, Counted, Pending, InPhase, IsOfKind, Alone
  <2>9. ConnectionInForce' /\ ReadInForce'
    BY <1>1, <2>3 DEF ConnectionInForce, ReadInForce, ServedBy
  <2>10. ReadFits' /\ NewestReadPrevails'
    <3>1. reading' = reading BY <1>1 DEF work
    <3>2. ReadFits'
      BY <2>1, <2>2, <3>1 DEF CommandsInv, ReadFits, Attempted, Alone, InPhase, NoRead
    <3>3. \A d \in Ids : /\ commands'[d].kind = commands[d].kind
                         /\ commands'[d].dispatched = commands[d].dispatched
      BY <2>1, <2>2 DEF Alone
    <3>4. NewestReadPrevails'
      BY <3>1, <3>3 DEF CommandsInv, ReadFits, NewestReadPrevails, After, IsOfKind, Ids
    <3> QED BY <3>2, <3>4
  <2>11. RangesFit' /\ RangesInForce' /\ RangeHasItsConnection'
    BY <1>1, <2>1, <2>2, <2>3
       DEF CommandsInv, RangesFit, RangesInForce, ConnectionIsShared, RangeHasItsConnection, RangesIdle,
           ServedBy, InPhase, Alone, work
  <2>12. ExportsFit' BY <1>1, <2>1, <2>2, ExportsKept DEF InPhase
  <2>13. HostFits' /\ ClosedIsQuiet'
    BY <1>1, <2>1, <2>2, HostKept DEF InPhase, intents, work, hostVars
  <2> QED
    BY <2>1, <2>4, <2>5, <2>6, <2>7, <2>8, <2>9, <2>10, <2>11, <2>12, <2>13
       DEF CommandsInv, ProtectionIsInForce, ConnectionIsShared
<1>5. ASSUME prefs' \in [saves : {prefs.saves + 1}, ready : {TRUE},
                         readOnly : IF ~prefs.ready THEN {TRUE}
                                    ELSE IF IsOfKind(c, {"codecs"}) THEN {prefs.readOnly}
                                    ELSE BOOLEAN]
      PROVE  prefs' \in [saves : {prefs.saves + 1}, ready : {TRUE}, readOnly : BOOLEAN]
  <2>1. prefs.readOnly \in BOOLEAN BY DEF CommandsInv, CommandsTyped
  <2> QED BY <1>5, <2>1
<1> QED BY <1>3, <1>4, <1>5 DEF ChangeSaved

---------------------------------------------------------------------------
(* Shutdown.                                                               *)

\* What depends on the commands alone, or on nothing that a step changes.
LEMMA CommandsKept ==
  ASSUME CommandsInv, UNCHANGED <<commands, waiting, prefs>>
  PROVE  CommandsFit' /\ AdmittedInOrder' /\ QueueFits' /\ ExportsFit' /\ OperationsInForce'
BY DEF CommandsInv, CommandsFit, AdmittedInOrder, QueueFits, ExportsFit, ProtectionIsInForce,
       OperationsInForce, RemoteOperations, Counted, InPhase, IsOfKind, Pending

LEMMA ShutdownKept ==
  ASSUME CommandsInv, Shutdown
  PROVE  CommandsInv'
<1>1. /\ host' = "closing" /\ latest' = Host /\ lifetime' = Host
      /\ reading' = NoRead /\ ranges' = Revoked
      /\ session' = [state |-> "disconnecting", op |-> Host]
      /\ UNCHANGED <<commands, waiting, active, prefs, plugins, bounds>>
  BY DEF Shutdown
<1>2. CommandsFit' /\ AdmittedInOrder' /\ QueueFits' /\ ExportsFit' /\ OperationsInForce'
  BY <1>1, CommandsKept
<1>3. RangesFit' /\ RangesInForce' /\ RangeHasItsConnection' /\ ranges'.prefs = ranges.prefs
      /\ ranges'.state = "revoked"
  BY <1>1, RevokedIsQuiet
<1>4. CommandsTyped'
  <2>1. ranges' \in [state : {"idle", "running", "revoked", "dirty"}, prefs : Nat \cup {None},
                     conn : Ids \cup {None}]
    BY <1>1 DEF CommandsInv, CommandsTyped, Revoked
  <2>2. reading' \in [start : Ids \cup {None}, conn : Ids \cup {None}] BY <1>1 DEF NoRead
  <2> QED BY <1>1, <2>1, <2>2 DEF CommandsInv, CommandsTyped, Owners
<1>5. /\ SessionFits' /\ LifetimeFits' /\ LatestFits' /\ ActiveProfileIsConnected'
      /\ ConnectionInForce'
  BY <1>1, Distinct DEF SessionFits, LifetimeFits, LatestFits, ActiveProfileIsConnected, IsConnected,
                        ConnectionInForce
<1>6. ChangesRunAlone'
  BY <1>1, <1>3 DEF CommandsInv, ChangesRunAlone, Changing, RemoteOperations, Counted, Pending, InPhase,
                    IsOfKind
<1>7. ReadFits' /\ ReadInForce' /\ NewestReadPrevails' BY <1>1, NoReadIsQuiet
<1>8. HostFits' /\ ClosedIsQuiet' BY <1>1, <1>3 DEF HostFits, ClosedIsQuiet
<1> QED
  BY <1>2, <1>3, <1>4, <1>5, <1>6, <1>7, <1>8
     DEF CommandsInv, ProtectionIsInForce, ConnectionIsShared

LEMMA SessionShutDownKept ==
  ASSUME CommandsInv, NEW fails \in BOOLEAN, SessionShutDown(fails)
  PROVE  CommandsInv'
<1>1. /\ session.state = "disconnecting" /\ session.op = Host
      /\ UNCHANGED <<commands, intents, active, work, prefs, hostVars>>
  BY DEF SessionShutDown
<1>2. session' \in [state : {"failed", "disconnected"}, op : {Host}]
  BY DEF SessionShutDown
<1>3. CommandsFit' /\ AdmittedInOrder' /\ QueueFits' /\ ExportsFit' /\ OperationsInForce'
  BY <1>1, CommandsKept DEF intents
<1>4. CommandsTyped'
  BY <1>1, <1>2 DEF CommandsInv, CommandsTyped, intents, work, hostVars, Owners
<1>5. SessionFits' /\ ActiveProfileIsConnected' /\ ConnectionInForce' /\ ReadInForce'
  BY <1>2, Distinct DEF SessionFits, ActiveProfileIsConnected, IsConnected, ConnectionInForce,
                        ReadInForce, ServedBy
<1>6. LifetimeFits' /\ LatestFits'
  BY <1>1, <1>2 DEF CommandsInv, LifetimeFits, LatestFits, ServedBy, InPhase, IsOfKind, intents
<1>7. ChangesRunAlone'
  BY <1>1, <1>2 DEF CommandsInv, ChangesRunAlone, Changing, RemoteOperations, Counted, Pending, InPhase,
                    IsOfKind, work
<1>8. ReadFits' /\ NewestReadPrevails'
  BY <1>1 DEF CommandsInv, ReadFits, NewestReadPrevails, InPhase, IsOfKind, work
<1>9. RangesFit' /\ RangesInForce' /\ RangeHasItsConnection'
  BY <1>1 DEF CommandsInv, RangesFit, RangesInForce, ProtectionIsInForce, ConnectionIsShared,
              RangeHasItsConnection, RangesIdle, ServedBy, work
<1>10. HostFits' /\ ClosedIsQuiet'
  BY <1>1, <1>2 DEF CommandsInv, HostFits, ClosedIsQuiet, RangesIdle, Pending, InPhase, IsOfKind,
                    intents, work, hostVars
<1> QED
  BY <1>3, <1>4, <1>5, <1>6, <1>7, <1>8, <1>9, <1>10
     DEF CommandsInv, ProtectionIsInForce, ConnectionIsShared

\* The stages of the shutdown change only the host.
LEMMA StageKept ==
  ASSUME CommandsInv, UNCHANGED <<commands, session, intents, active, work, prefs, bounds>>,
         host' \in {"open", "closing", "draining", "closed"}, plugins' \in {"open", "closed"},
         HostFits', ClosedIsQuiet'
  PROVE  CommandsInv'
<1>1. CommandsFit' /\ AdmittedInOrder' /\ QueueFits' /\ ExportsFit' /\ OperationsInForce'
  BY CommandsKept DEF intents
<1>2. CommandsTyped' BY DEF CommandsInv, CommandsTyped, intents, work
<1>3. /\ SessionFits' /\ LifetimeFits' /\ LatestFits' /\ ReadFits' /\ RangesFit'
      /\ NewestReadPrevails' /\ ConnectionIsShared'
  BY DEF CommandsInv, SessionFits, LifetimeFits, LatestFits, ReadFits, RangesFit, RangesIdle,
         NewestReadPrevails, ConnectionIsShared, ActiveProfileIsConnected, RangeHasItsConnection,
         IsConnected, ServedBy, InPhase, IsOfKind, intents, work
<1>4. ChangesRunAlone' /\ RangesInForce' /\ ConnectionInForce' /\ ReadInForce'
  BY DEF CommandsInv, ChangesRunAlone, Changing, RemoteOperations, Counted, Pending, InPhase, IsOfKind,
         ProtectionIsInForce, RangesInForce, ConnectionInForce, ReadInForce, ServedBy, work
<1> QED BY <1>1, <1>2, <1>3, <1>4 DEF CommandsInv, ProtectionIsInForce

LEMMA StagesKept ==
  ASSUME CommandsInv, PluginsClose \/ Drained \/ AdmissionIdle
  PROVE  CommandsInv'
<1>1. CASE PluginsClose
  <2>1. HostFits' /\ ClosedIsQuiet'
    BY <1>1 DEF PluginsClose, CommandsInv, HostFits, ClosedIsQuiet, RangesIdle, intents, work
  <2> QED BY <1>1, <2>1, StageKept DEF PluginsClose, CommandsInv, CommandsTyped
<1>2. CASE Drained
  <2>1. HostFits' /\ ClosedIsQuiet'
    BY <1>2 DEF Drained, CommandsInv, HostFits, ClosedIsQuiet, RangesIdle, intents, work
  <2> QED BY <1>2, <2>1, StageKept DEF Drained, CommandsInv, CommandsTyped
<1>3. CASE AdmissionIdle
  <2>1. \A c \in Ids : Pending(c) => IsOfKind(c, {"recovery"})
    BY <1>3 DEF AdmissionIdle, Tracked, Pending, InPhase, IsOfKind, CommandsInv, CommandsFit, KindFits
  <2>2. HostFits' /\ ClosedIsQuiet'
    BY <1>3, <2>1 DEF AdmissionIdle, CommandsInv, HostFits, ClosedIsQuiet, RangesIdle, Pending, InPhase,
                      IsOfKind, intents, work
  <2> QED BY <1>3, <2>2, StageKept DEF AdmissionIdle, CommandsInv, CommandsTyped
<1> QED BY <1>1, <1>2, <1>3

---------------------------------------------------------------------------
(* Theorems.                                                               *)

LEMMA InitHolds == Init => CommandsInv
<1> SUFFICES ASSUME Init PROVE CommandsInv
  OBVIOUS
<1>1. NoCommand \in Command /\ KindFits(NoCommand) /\ NoCommand.phase = "unused"
      /\ NoCommand.kind = "none" /\ NoCommand.session = "none"
  BY DEF NoCommand, Command, KindFits, Phases, Answered
<1>2. commands \in [Ids -> Command] /\ \A c \in Ids : commands[c] = NoCommand
  BY <1>1 DEF Init
<1>3. CommandsTyped
  BY <1>2 DEF Init, CommandsTyped, NoRead, NoJob, Owners
<1>4. latest = None /\ lifetime = None /\ session = [state |-> "disconnected", op |-> None]
      /\ waiting = <<>> /\ active = None /\ reading = NoRead /\ ranges = NoJob /\ host = "open"
  BY DEF Init
<1>5. CommandsFit /\ AdmittedInOrder BY <1>1, <1>2 DEF CommandsFit, AdmittedInOrder, InPhase
<1>6. LifetimeFits /\ LatestFits BY <1>4, Distinct DEF LifetimeFits, LatestFits
<1>7. ExportsFit BY <1>1, <1>2 DEF ExportsFit, InPhase
<1>8. SessionFits /\ QueueFits /\ ReadFits /\ NewestReadPrevails /\ ConnectionIsShared
  BY <1>4, Distinct DEF SessionFits, QueueFits, ReadFits, NewestReadPrevails, ConnectionIsShared,
                        ActiveProfileIsConnected, RangeHasItsConnection, IsConnected, NoJob
<1>9. ChangesRunAlone BY <1>1, <1>2 DEF ChangesRunAlone, Changing, InPhase
<1>10. RangesFit /\ HostFits /\ ClosedIsQuiet BY <1>4 DEF RangesFit, HostFits, ClosedIsQuiet, NoJob
<1>11. ProtectionIsInForce
  BY <1>1, <1>2, <1>4 DEF ProtectionIsInForce, OperationsInForce, RemoteOperations, IsOfKind, RemoteKinds,
                          RangesInForce, ReadInForce, ConnectionInForce, NoJob
<1> QED BY <1>3, <1>5, <1>6, <1>7, <1>8, <1>9, <1>10, <1>11 DEF CommandsInv

LEMMA StutterKept ==
  ASSUME CommandsInv, UNCHANGED vars
  PROVE  CommandsInv'
<1>1. HostFits' /\ ClosedIsQuiet'
  BY DEF vars, CommandsInv, HostFits, ClosedIsQuiet, RangesIdle, Pending, InPhase, IsOfKind
<1> QED BY <1>1, StageKept DEF vars, CommandsInv, CommandsTyped, intents, work

LEMMA NextKeeps == CommandsInv /\ [Next]_vars => CommandsInv'
<1> SUFFICES ASSUME CommandsInv, [Next]_vars PROVE CommandsInv'
  OBVIOUS
<1>1. ASSUME NEW c \in Ids,
             \/ Check(c) \/ Idled(c) \/ Connected(c) \/ Closed(c)
             \/ ChangePrepared(c) \/ OperationEnds(c) \/ StreamStarts(c) \/ StopSettles(c)
             \/ Joined(c)
      PROVE  CommandsInv'
  BY <1>1, CheckKept, IdledKept, ConnectedKept, ClosedKept, ChangePreparedKept, AnsweredKept,
     StreamStartsKept
<1>2. ASSUME NEW c \in Ids, NEW fails \in BOOLEAN,
             \/ ManagedAnswered(c, fails) \/ PluginWorkVerified(c, fails)
             \/ ProfileResolved(c, fails) \/ ConnectSettles(c, fails) \/ Marked(c, fails)
             \/ EndSettles(c, fails) \/ StartSettles(c, fails) \/ ChangeSaved(c, fails)
      PROVE  CommandsInv'
  BY <1>2, ManagedAnsweredKept, PluginWorkVerifiedKept, ProfileResolvedKept, ConnectSettlesKept,
     MarkedKept, EndSettlesKept, StartSettlesKept, ChangeSavedKept
<1>3. CASE Progress
  BY <1>1, <1>2, <1>3, RangeEndsKept, SessionShutDownKept, StagesKept DEF Progress
<1>4. CASE ReadEnds BY <1>4, ReadDropped DEF ReadEnds
<1>5. CASE Shutdown BY <1>5, ShutdownKept
<1>6. CASE \E c \in Ids : PluginSubmits(c) \/ \E kind \in bounds.kinds[c] : Submit(c, kind)
  BY <1>6, PluginSubmitsKept, SubmitKept
<1>7. CASE UNCHANGED vars BY <1>7, StutterKept
<1> QED BY <1>3, <1>4, <1>5, <1>6, <1>7 DEF Next

\* The invariant holds for any number of commands of any kind, whatever order
\* they settle in and wherever the shutdown falls (facade.ts, command-admission.ts).
THEOREM CommandsInvariant == Spec => []CommandsInv
<1>1. Init => CommandsInv BY InitHolds
<1>2. CommandsInv /\ [Next]_vars => CommandsInv' BY NextKeeps
<1> QED BY <1>1, <1>2, PTL DEF Spec

\* Everything remote runs under the preferences that are saved now
\* (KafkaCommandProtection: a change waits for nothing, it is refused beside remote work).
THEOREM ProtectionStaysInForce == Spec => []ProtectionIsInForce
<1>1. CommandsInv => ProtectionIsInForce BY DEF CommandsInv
<1> QED BY <1>1, CommandsInvariant, PTL

\* The active profile and a range job are those of the connection that serves
\* (markActive, RecordRangeFacade).
THEOREM ConnectionStaysShared == Spec => []ConnectionIsShared
<1>1. CommandsInv => ConnectionIsShared BY DEF CommandsInv
<1> QED BY <1>1, CommandsInvariant, PTL

\* A stop or a newer start is not undone by a slower start (consumptionIntent).
THEOREM NewestReadStays == Spec => []NewestReadPrevails
<1>1. CommandsInv => NewestReadPrevails BY DEF CommandsInv
<1> QED BY <1>1, CommandsInvariant, PTL

\* Nothing goes on behind a closed facade (completeShutdown).
THEOREM ClosedStaysQuiet == Spec => []ClosedIsQuiet
<1>1. CommandsInv => ClosedIsQuiet BY DEF CommandsInv
<1> QED BY <1>1, CommandsInvariant, PTL

\* Only Idled begins to connect the session for another command.
LEMMA DispatchLeavesSession ==
  ASSUME NEW c, FailsAtOnce(c) \/ Dispatch(c)
  PROVE  session' = session
BY DEF FailsAtOnce, Dispatch, DispatchConnect, DispatchProfile, DispatchStart, DispatchExport,
       DispatchChange

LEMMA SessionBegins ==
  ASSUME CommandsInv, Next, session'.op # session.op, session'.state = "connecting"
  PROVE  \E c \in Ids : Idled(c)
<1>1. session \in [state : {"disconnected", "connecting", "connected", "disconnecting", "failed"},
                   op : Owners]
  BY DEF CommandsInv, CommandsTyped
<1>2. session' # session OBVIOUS
<1>3. ASSUME NEW c \in Ids,
             \/ Check(c) \/ Connected(c) \/ Closed(c)
             \/ ChangePrepared(c) \/ OperationEnds(c) \/ StreamStarts(c) \/ StopSettles(c)
             \/ Joined(c)
      PROVE  FALSE
  <2>1. CASE Check(c) BY <1>2, <2>1, DispatchLeavesSession DEF Check
  <2>2. CASE ~Check(c)
    BY <1>2, <1>3, <2>2
       DEF Connected, Closed, ChangePrepared, OperationEnds, StreamStarts, StopSettles, Joined
  <2> QED BY <2>1, <2>2
<1>4. ASSUME NEW c \in Ids, NEW fails \in BOOLEAN,
             \/ ManagedAnswered(c, fails) \/ PluginWorkVerified(c, fails)
             \/ ProfileResolved(c, fails) \/ Marked(c, fails)
             \/ StartSettles(c, fails) \/ ChangeSaved(c, fails)
      PROVE  FALSE
  <2>1. CASE ManagedAnswered(c, fails) \/ PluginWorkVerified(c, fails) \/ ProfileResolved(c, fails)
    BY <1>2, <2>1, DispatchLeavesSession DEF ManagedAnswered, PluginWorkVerified, ProfileResolved
  <2>2. CASE Marked(c, fails) \/ StartSettles(c, fails) \/ ChangeSaved(c, fails)
    BY <1>2, <2>2 DEF Marked, StartSettles, ChangeSaved
  <2> QED BY <1>4, <2>1, <2>2
<1>5. ASSUME NEW c \in Ids, NEW fails \in BOOLEAN, ConnectSettles(c, fails) \/ EndSettles(c, fails)
      PROVE  FALSE
  BY <1>1, <1>5 DEF ConnectSettles, EndSettles
<1>6. ASSUME NEW fails \in BOOLEAN, RangeEnds(fails) \/ SessionShutDown(fails)
      PROVE  FALSE
  BY <1>1, <1>6 DEF RangeEnds, SessionShutDown
<1>7. ~(PluginsClose \/ Drained \/ AdmissionIdle \/ ReadEnds \/ Shutdown)
  BY <1>2 DEF PluginsClose, Drained, AdmissionIdle, ReadEnds, Shutdown
<1>8. ASSUME NEW c \in Ids, PluginSubmits(c) \/ \E kind \in bounds.kinds[c] : Submit(c, kind)
      PROVE  FALSE
  <2>1. CASE PluginSubmits(c) BY <1>2, <2>1 DEF PluginSubmits, Checks
  <2>2. CASE \E kind \in bounds.kinds[c] : Submit(c, kind)
    <3>1. PICK kind \in bounds.kinds[c] : Submit(c, kind) BY <2>2
    <3>2. \/ Disconnects(c) \/ Stops(c, kind) \/ JoinsShutdown(c)
          \/ \E p \in Profiles \cup {None} : Checks(c, kind, p, FALSE)
      BY <3>1 DEF Submit
    <3>3. CASE Disconnects(c) BY <3>3 DEF Disconnects
    <3>4. CASE Stops(c, kind) \/ JoinsShutdown(c) BY <1>2, <3>4 DEF Stops, JoinsShutdown
    <3>5. ASSUME NEW p \in Profiles \cup {None}, Checks(c, kind, p, FALSE) PROVE FALSE
      BY <1>2, <3>5 DEF Checks
    <3> QED BY <3>2, <3>3, <3>4, <3>5
  <2> QED BY <1>8, <2>1, <2>2
<1> QED BY <1>3, <1>4, <1>5, <1>6, <1>7, <1>8 DEF Next, Progress

LEMMA BeginsNewest ==
  ASSUME CommandsInv, Next, session'.op # session.op, session'.state = "connecting"
  PROVE  /\ host = "open"
         /\ \A d \in After(session'.op) : IsOfKind(d, ConnectionKinds) => ~commands[d].dispatched
<1>1. PICK c \in Ids : Idled(c) BY SessionBegins
<1>2. session' # session OBVIOUS
<1>3. latest = c /\ session'.op = c
  BY <1>1, <1>2 DEF Idled, IsCurrentCommand
<1>4. host = "open" BY <1>3, Distinct DEF CommandsInv, HostFits
<1>5. \A d \in After(c) : IsOfKind(d, ConnectionKinds) => ~commands[d].dispatched
  BY <1>3 DEF CommandsInv, LatestFits
<1> QED BY <1>3, <1>4, <1>5

\* The session begins to connect only for the newest connection command, and
\* for none once the facade closes (assertConnectionIntent, the lifetime).
THEOREM NewestCommandConnects == Spec => NewestCommandPrevails
<1>1. CommandsInv /\ [Next]_vars =>
        [session'.op # session.op /\ session'.state = "connecting" =>
            /\ host = "open"
            /\ \A d \in After(session'.op) :
                IsOfKind(d, ConnectionKinds) => ~commands[d].dispatched]_vars
  BY BeginsNewest
<1> QED BY <1>1, CommandsInvariant, PTL DEF Spec, NewestCommandPrevails
============================================================================
