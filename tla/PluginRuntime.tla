--------------------------- MODULE PluginRuntime ---------------------------
(***************************************************************************)
(* PluginRuntime with its PluginTransitions and PluginChangeAuthority:     *)
(* changes of plugins load, review, drain and close backends, one change   *)
(* after the other, while requests run on the backends and the host may be *)
(* closing.                                                                *)
(*                                                                         *)
(* A change is a record. Its phase follows the awaits of its transition:   *)
(*   acquiring    withIntent: start(), and the download of a package       *)
(*   queued       admitted, behind the tail                                *)
(*   preparing    verify-package                                           *)
(*   connections  wait-connections                                         *)
(*   reviewing    review-change or review-exit                             *)
(*   resolving    resolve-exit                                             *)
(*   loading      load-candidate                                           *)
(*   unloading    prepare-unload                                           *)
(*   draining     drain-requests                                           *)
(*   committing   commit-storage, rollback-storage, startup-recovery       *)
(*   retiring     retire-previous, close-backend                           *)
(*   reloading    load-candidate of the package that a rollback selected   *)
(*   rejecting    close-candidate, discard-package                         *)
(*   settled                                                               *)
(* What a package holds is the store's matter (PluginStore): here the      *)
(* store answers or fails, and selects what was committed.                 *)
(***************************************************************************)
EXTENDS Integers, Sequences, FiniteSets

CONSTANTS
    Plugins,
    None,
    Offered,      \* bound: the kinds of change that are asked for
    Beside,       \* bound: those asked for beside more than one request
    MaxChanges,   \* bound: changes in a behaviour
    MaxBackends,  \* bound: backends loaded in a behaviour
    MaxRequests   \* bound: requests in a behaviour

IntentKinds == {"install", "retry", "remove"}
Reviews == [install |-> "review-install", retry |-> "review-retry", remove |-> "review-remove"]
ReviewKinds == {Reviews[op] : op \in IntentKinds}
Kinds == IntentKinds \cup ReviewKinds \cup {"startup", "recovery", "exit", "resolve"}

ASSUME RuntimeAssumption ==
    /\ MaxChanges \in Nat /\ MaxBackends \in Nat /\ MaxRequests \in Nat
    /\ Offered \subseteq Kinds \ {"startup"} /\ Beside \subseteq Offered
    /\ None \notin Nat \cup Plugins

VARIABLES
    modules,        \* the backend that serves a plugin
    selected,       \* the backend whose package the store selects for a plugin
    backends,       \* every backend: its plugin, and its authority
    works,          \* the backends with work that outlives a request, such as a capture
    errors,         \* the plugins with an error
    requests,       \* every tracked request: its backend, and where it is
    changes,        \* every change
    tail,           \* PluginTransitions.tail: the changes admitted and not settled
    intents,        \* the newest change that acquires or changes a plugin
    confirmations,  \* the consent last given for a plugin
    exits,          \* exitResolved: the plugins whose exit is resolved, with the backend
    prompts,        \* exitPrompted
    unstarted,      \* the installed plugins that startInstalled has not come to
    host            \* open, closing, stopping (its backends), or closed
serving == <<modules, selected, backends>>
consents == <<confirmations, exits, prompts>>
vars == <<serving, works, errors, requests, changes, tail, intents, consents, unstarted, host>>

ChangeIds == 1 .. MaxChanges
BackendIds == 1 .. MaxBackends
RequestIds == 1 .. MaxRequests
MaybeBackend == BackendIds \cup {None}
MaybePlugin == Plugins \cup {None}

Backend == [plugin : MaybePlugin, state : {"none", "idle", "active", "closing", "retired"}]
NoBackend == [plugin |-> None, state |-> "none"]
Request == [backend : MaybeBackend, phase : {"unused", "admitted", "running", "done"},
            connects : BOOLEAN]
NoRequest == [backend |-> None, phase |-> "unused", connects |-> FALSE]

\* What beforeChange() warns of: the requests that the backend has begun and its work.
Warnings == [running : SUBSET RequestIds, work : BOOLEAN]
Consent == [review : ChangeIds, op : IntentKinds, backend : BackendIds, warning : Warnings]
MaybeConsent == Consent \cup {None}

Phases == {"unused", "acquiring", "queued", "preparing", "connections", "reviewing", "resolving",
           "loading", "unloading", "draining", "committing", "retiring", "reloading",
           "rejecting", "settled"}
Change == [kind : Kinds, plugins : SUBSET Plugins, phase : Phases, previous : MaybeBackend,
           candidate : MaybeBackend, consent : MaybeConsent]
NoChange == [kind |-> "exit", plugins |-> {}, phase |-> "unused", previous |-> None,
             candidate |-> None, consent |-> None]
NewChange(kind, ps, phase) == [NoChange EXCEPT !.kind = kind, !.plugins = ps, !.phase = phase]

Closing == host # "open"
Owns(c) == \E i \in 1 .. Len(tail) : tail[i] = c
Owned(p) == \E c \in ChangeIds : Owns(c) /\ p \in changes[c].plugins
PluginOf(c) == CHOOSE p \in Plugins : changes[c].plugins = {p}

\* The phases that admission and the queue come before.
Running(c) == Owns(c) /\ changes[c].phase # "queued"

\* review-install, review-retry, review-remove and review-exit do not block.
Blocks(kind) == kind \notin ReviewKinds \cup {"exit"}
IsChanging(p) ==
    \E c \in ChangeIds : Running(c) /\ p \in changes[c].plugins /\ Blocks(changes[c].kind)

\* Mutant: a change does not notice that a newer one was asked for.
IsCurrentIntentAny(c) == TRUE

IsCurrentIntent(c) == changes[c].kind \in IntentKinds => intents[PluginOf(c)] = c
IsCurrent(c) == ~Closing /\ IsCurrentIntent(c)

Begun(b) == {r \in RequestIds : requests[r].backend = b /\ requests[r].phase = "running"}
Tracked(b) ==
    {r \in RequestIds : requests[r].backend = b /\ requests[r].phase \in {"admitted", "running"}}
Connecting(b) == \E r \in Tracked(b) : requests[r].connects
WarningOf(b) == [running |-> Begun(b), work |-> b \in works]
IsBusy(b) == Begun(b) # {} \/ b \in works

\* start() has resolved.
Started == unstarted = {} /\ ~\E c \in ChangeIds : Owns(c) /\ changes[c].kind = "startup"

Init ==
    /\ modules = [p \in Plugins |-> None]
    /\ selected = [p \in Plugins |-> None]
    /\ backends = [b \in BackendIds |-> NoBackend]
    /\ works = {}
    /\ errors = {}
    /\ requests = [r \in RequestIds |-> NoRequest]
    /\ changes = [c \in ChangeIds |-> NoChange]
    /\ tail = <<>>
    /\ intents = [p \in Plugins |-> None]
    /\ confirmations = [p \in Plugins |-> None]
    /\ exits = [p \in Plugins |-> None]
    /\ prompts = [p \in Plugins |-> None]
    /\ unstarted \in SUBSET Plugins
    /\ host = "open"

(***************************************************************************)
(* Requests                                                                *)

IsFirst(Items, id) == \A other \in Items : other >= id

\* Mutant: a request may start while the plugin is being changed.
DispatchableDuringChange(b) ==
    ~Closing /\ backends[b].state # "retired" /\ modules[backends[b].plugin] = b

Dispatchable(b) ==
    /\ ~Closing
    /\ ~IsChanging(backends[b].plugin)
    /\ backends[b].state # "retired"
    /\ modules[backends[b].plugin] = b

\* The bound on changes beside requests, and on requests beside changes.
OfferedNow == IF \E i \in RequestIds \ {1} : requests[i].phase # "unused" THEN Beside ELSE Offered
HasRoom(r) ==
    r = 1 \/ \A c \in ChangeIds :
        changes[c].phase \in {"unused", "settled"} \/ changes[c].kind \in Beside \cup {"startup"}

Admit(r) ==
    /\ IsFirst({i \in RequestIds : requests[i].phase = "unused"}, r)
    /\ requests[r].phase = "unused" /\ HasRoom(r)
    /\ Started
    /\ \E p \in Plugins, connects \in BOOLEAN :
        /\ modules[p] # None
        /\ Dispatchable(modules[p])
        /\ requests' = [requests EXCEPT ![r] =
             [backend |-> modules[p], phase |-> "admitted", connects |-> connects]]
    /\ UNCHANGED <<serving, works, errors, changes, tail, intents, consents, unstarted, host>>

\* The operation starts a microtask after it was admitted, and looks again.
Dispatch(r) ==
    /\ requests[r].phase = "admitted"
    /\ requests' = [requests EXCEPT ![r].phase =
         IF Dispatchable(requests[r].backend) THEN "running" ELSE "done"]
    /\ UNCHANGED <<serving, works, errors, changes, tail, intents, consents, unstarted, host>>

EndRequest(r) ==
    /\ requests[r].phase = "running"
    /\ requests' = [requests EXCEPT ![r].phase = "done"]
    /\ UNCHANGED <<serving, works, errors, changes, tail, intents, consents, unstarted, host>>

\* A backend that was told to unload starts no work.
StartWork(r) ==
    LET b == requests[r].backend IN
    /\ requests[r].phase = "running"
    /\ backends[b].state = "active"
    /\ ~\E c \in ChangeIds :
          changes[c].previous = b /\ changes[c].phase \in {"unloading", "draining", "committing"}
    /\ works' = works \cup {b}
    /\ UNCHANGED <<serving, errors, requests, changes, tail, intents, consents, unstarted, host>>

EndWork(b) ==
    /\ b \in works
    /\ works' = works \ {b}
    /\ UNCHANGED <<serving, errors, requests, changes, tail, intents, consents, unstarted, host>>

(***************************************************************************)
(* Admission of changes                                                    *)

IsNext(c) ==
    changes[c].phase = "unused" /\ IsFirst({i \in ChangeIds : changes[i].phase = "unused"}, c)

Admits(c, change) ==
    /\ changes' = [changes EXCEPT ![c] = change]
    /\ tail' = Append(tail, c)

\* startInstalled comes to the next plugin when the change of the one before has settled.
Startup(c) ==
    /\ IsNext(c) /\ ~Closing
    /\ ~\E other \in ChangeIds : Owns(other) /\ changes[other].kind = "startup"
    /\ \E p \in unstarted :
        /\ unstarted' = unstarted \ {p}
        /\ Admits(c, NewChange("startup", {p}, "queued"))
    /\ UNCHANGED <<serving, works, errors, requests, intents, consents, host>>

\* The caller may hold the consent that was last given. The bound keeps a change for
\* every plugin that is still to be started.
Intend(c) ==
    /\ IsNext(c) /\ ~Closing
    /\ c + Cardinality(unstarted) <= MaxChanges
    /\ \E kind \in IntentKinds \cap OfferedNow, p \in Plugins, withConsent \in BOOLEAN :
        /\ ~Owned(p)
        /\ changes' = [changes EXCEPT ![c] = [NewChange(kind, {p}, "acquiring") EXCEPT
             !.consent = IF withConsent THEN confirmations[p] ELSE None]]
        /\ intents' = [intents EXCEPT ![p] = c]
    /\ UNCHANGED <<serving, works, errors, requests, tail, consents, unstarted, host>>

Acquired(c) ==
    /\ changes[c].phase = "acquiring"
    /\ Started /\ IsCurrent(c)
    /\ ~Owned(PluginOf(c))
    /\ Admits(c, [changes[c] EXCEPT !.phase = "queued"])
    /\ UNCHANGED <<serving, works, errors, requests, intents, consents, unstarted, host>>

Gone == [NoChange EXCEPT !.phase = "settled"]
ForgetIntent(c) == intents' = [p \in Plugins |-> IF intents[p] = c THEN None ELSE intents[p]]

\* The download fails, or a newer change or the end of the host came first.
AcquireFails(c) ==
    /\ changes[c].phase = "acquiring"
    /\ changes[c].kind = "install" \/ ~IsCurrent(c) \/ Owned(PluginOf(c))
    /\ changes' = [changes EXCEPT ![c] = Gone]
    /\ ForgetIntent(c)
    /\ UNCHANGED <<serving, works, errors, requests, tail, consents, unstarted, host>>

\* The other changes of one plugin. A recovery names the backend whose view failed.
Ask(c) ==
    /\ IsNext(c) /\ ~Closing /\ Started
    /\ \E kind \in OfferedNow \ (IntentKinds \cup {"exit"}), p \in Plugins, b \in MaybeBackend :
        /\ ~Owned(p)
        /\ IF kind = "recovery"
           THEN b # None /\ backends[b].plugin = p /\ backends[b].state # "idle"
           ELSE b = None
        /\ Admits(c, [NewChange(kind, {p}, "queued") EXCEPT !.previous = b])
    /\ UNCHANGED <<serving, works, errors, requests, intents, consents, unstarted, host>>

ReviewExit(c) ==
    /\ IsNext(c) /\ ~Closing /\ Started
    /\ "exit" \in OfferedNow /\ tail = <<>>
    /\ Admits(c, NewChange("exit", {p \in Plugins : modules[p] # None}, "queued"))
    /\ UNCHANGED <<serving, works, errors, requests, intents, consents, unstarted, host>>

ExitIsBusy ==
    /\ ~Closing /\ Started
    /\ "exit" \in OfferedNow /\ tail # <<>>
    /\ exits' = [p \in Plugins |-> None]
    /\ UNCHANGED <<serving, works, errors, requests, changes, tail, intents, confirmations,
                   prompts, unstarted, host>>

(***************************************************************************)
(* The steps of a change                                                   *)

IsIn(c, phase) == Owns(c) /\ changes[c].phase = phase
Goes(c, change) == changes' = [changes EXCEPT ![c] = change] /\ UNCHANGED <<tail, intents>>
Enters(c, phase) == Goes(c, [changes[c] EXCEPT !.phase = phase])
Settles(c) ==
    /\ changes' = [changes EXCEPT ![c] = Gone]
    /\ tail' = Tail(tail)
    /\ ForgetIntent(c)

\* Mutant: a change that fails forgets the candidate it loaded.
FailsAndForgets(c) == Settles(c) /\ UNCHANGED errors

\* retryActivation keeps what failed as the plugin's error.
Fails(c) ==
    /\ IF changes[c].candidate = None THEN Settles(c) ELSE Enters(c, "rejecting")
    /\ errors' = IF changes[c].kind = "retry" THEN errors \cup {PluginOf(c)} ELSE errors

FirstPhase(kind) ==
    CASE kind = "startup" -> "loading"
      [] kind \in {"install", "retry"} -> "preparing"
      [] kind \in {"remove", "recovery"} -> "connections"
      [] kind \in ReviewKinds \cup {"exit"} -> "reviewing"
      [] kind = "resolve" -> "resolving"

\* The first conditions of the transition: nothing to do, or nothing it may do.
EndsAtOnce(c) ==
    LET kind == changes[c].kind
        p    == PluginOf(c)
    IN  \/ ~IsCurrent(c)
        \/ kind \in ReviewKinds /\ modules[p] = None
        \/ kind \in {"retry", "review-retry"} /\ modules[p] # None /\ p \notin errors
        \/ kind = "recovery" /\ modules[p] # changes[c].previous
        \/ kind = "resolve" /\ (modules[p] = None \/ prompts[p] # modules[p])

\* Mutant: a change still queued when the host closes is left there.
BeginOnlyOpen(c) ==
    /\ tail # <<>> /\ Head(tail) = c /\ changes[c].phase = "queued" /\ ~Closing
    /\ IF EndsAtOnce(c)
       THEN Settles(c)
       ELSE Goes(c, [changes[c] EXCEPT
              !.phase = FirstPhase(changes[c].kind),
              !.previous = IF changes[c].kind = "exit" THEN None ELSE modules[PluginOf(c)]])
    /\ UNCHANGED <<serving, works, errors, requests, consents, unstarted, host>>

\* An exit review that is refused takes every resolved exit back.
Begin(c) ==
    /\ tail # <<>> /\ Head(tail) = c /\ changes[c].phase = "queued"
    /\ IF EndsAtOnce(c)
       THEN Settles(c)
       ELSE Goes(c, [changes[c] EXCEPT
              !.phase = FirstPhase(changes[c].kind),
              !.previous = IF changes[c].kind = "exit" THEN None ELSE modules[PluginOf(c)]])
    /\ exits' = IF changes[c].kind = "exit" /\ EndsAtOnce(c) THEN [p \in Plugins |-> None] ELSE exits
    /\ UNCHANGED <<serving, works, errors, requests, confirmations, prompts, unstarted, host>>

\* A healthy backend with the same package stays.
Prepare(c) ==
    /\ IsIn(c, "preparing") /\ IsCurrent(c)
    /\ \/ Enters(c, "connections")
       \/ /\ changes[c].kind = "install"
          /\ changes[c].previous # None /\ PluginOf(c) \notin errors
          /\ Settles(c)
    /\ UNCHANGED <<serving, works, errors, requests, consents, unstarted, host>>

PrepareFails(c) ==
    /\ IsIn(c, "preparing")
    /\ Fails(c)
    /\ UNCHANGED <<serving, works, requests, consents, unstarted, host>>

\* Mutant: a consent can be used although a newer prompt has replaced it.
ConnectedAnyPrompt(c) ==
    LET p    == PluginOf(c)
        held == changes[c].consent # None /\ changes[c].consent = confirmations[p]
    IN  /\ IsIn(c, "connections")
        /\ changes[c].previous # None => ~Connecting(changes[c].previous)
        /\ Enters(c, "reviewing")
        /\ confirmations' = IF held THEN [confirmations EXCEPT ![p] = None] ELSE confirmations
        /\ UNCHANGED <<serving, works, errors, requests, exits, prompts, unstarted, host>>

\* The connections that were under way have ended; confirm() takes the consent.
Connected(c) ==
    LET p    == PluginOf(c)
        held == changes[c].consent # None /\ changes[c].consent = confirmations[p]
    IN  /\ IsIn(c, "connections")
        /\ changes[c].previous # None => ~Connecting(changes[c].previous)
        /\ Goes(c, [changes[c] EXCEPT !.phase = "reviewing",
                                      !.consent = IF held THEN @ ELSE None])
        /\ confirmations' = IF held THEN [confirmations EXCEPT ![p] = None] ELSE confirmations
        /\ UNCHANGED <<serving, works, errors, requests, exits, prompts, unstarted, host>>

\* Mutant: a consent to one operation allows another.
IsConfirmedAnyOperation(c) ==
    LET consent == changes[c].consent
    IN  /\ consent # None
        /\ consent.backend = changes[c].previous
        /\ consent.warning = WarningOf(changes[c].previous)

\* Mutant: a consent for one backend allows the stop of its successor.
IsConfirmedAnyBackend(c) ==
    LET consent == changes[c].consent
    IN  /\ consent # None
        /\ consent.op = changes[c].kind
        /\ consent.warning = WarningOf(changes[c].previous)

\* Mutant: a consent allows the stop of work that it did not warn of.
IsConfirmedAnyWork(c) ==
    LET consent == changes[c].consent
    IN  /\ consent # None
        /\ consent.op = changes[c].kind
        /\ consent.backend = changes[c].previous

IsConfirmed(c) ==
    LET consent == changes[c].consent
    IN  /\ consent # None
        /\ consent.op = changes[c].kind
        /\ consent.backend = changes[c].previous
        /\ consent.warning = WarningOf(changes[c].previous)

MayStop(c) == changes[c].previous = None \/ ~IsBusy(changes[c].previous) \/ IsConfirmed(c)

\* beforeChange() has answered: a removal or a recovery unloads, an update loads first.
Reviewed(c) ==
    /\ IsIn(c, "reviewing")
    /\ changes[c].kind \in IntentKinds \cup {"recovery"}
    /\ MayStop(c)
    /\ changes[c].kind \in IntentKinds => IsCurrent(c)
    /\ Enters(c, IF changes[c].kind \in {"install", "retry"} THEN "loading"
                 ELSE IF changes[c].previous = None THEN "committing"
                 ELSE "unloading")
    /\ UNCHANGED <<serving, works, errors, requests, consents, unstarted, host>>

\* It warns of work that was not confirmed, it fails, or the change is no longer current.
ReviewStops(c) ==
    /\ IsIn(c, "reviewing")
    /\ \/ /\ changes[c].kind \in IntentKinds /\ (changes[c].previous # None \/ ~IsCurrent(c))
          /\ Fails(c)
       \/ /\ changes[c].kind = "recovery"
          /\ Settles(c)
          /\ \/ UNCHANGED errors
             \/ ~MayStop(c) /\ errors' = errors \cup {PluginOf(c)}
    /\ UNCHANGED <<serving, works, requests, consents, unstarted, host>>

ConsentOp(c) == CHOOSE op \in IntentKinds : Reviews[op] = changes[c].kind

\* prepareChange(): what the backend warns of is what the consent is for.
GiveConsent(c) ==
    LET b == changes[c].previous IN
    /\ IsIn(c, "reviewing") /\ changes[c].kind \in ReviewKinds
    /\ \/ confirmations' = confirmations
       \/ /\ IsBusy(b)
          /\ confirmations' = [confirmations EXCEPT ![PluginOf(c)] =
               [review |-> c, op |-> ConsentOp(c), backend |-> b, warning |-> WarningOf(b)]]
    /\ Settles(c)
    /\ UNCHANGED <<serving, works, errors, requests, exits, prompts, unstarted, host>>

Expire(p) ==
    /\ confirmations[p] # None
    /\ confirmations' = [confirmations EXCEPT ![p] = None]
    /\ UNCHANGED <<serving, works, errors, requests, changes, tail, intents, exits, prompts,
                   unstarted, host>>

(***************************************************************************)
(* Loading, unloading and committing                                       *)

IsNextBackend(b) ==
    backends[b] = NoBackend /\ IsFirst({i \in BackendIds : backends[i] = NoBackend}, b)

\* Mutant: a new backend inherits the resolved exit.
ActivatesOnly(p, b) == modules' = [modules EXCEPT ![p] = b] /\ UNCHANGED <<exits, prompts>>

Activates(p, b) ==
    /\ modules' = [modules EXCEPT ![p] = b]
    /\ exits' = [exits EXCEPT ![p] = None]
    /\ prompts' = [prompts EXCEPT ![p] = None]

\* A load that fails closes what it made before it reports.
LoadFails(c) ==
    /\ IsIn(c, "loading") /\ changes[c].kind # "startup"
    /\ Fails(c)
    /\ UNCHANGED <<serving, works, requests, consents, unstarted, host>>

\* An incompatible package stays as it is; one that does not load is rolled back.
StartupFails(c) ==
    /\ IsIn(c, "loading") /\ changes[c].kind = "startup"
    /\ Settles(c) \/ Enters(c, "committing")
    /\ errors' = errors \cup {PluginOf(c)}
    /\ UNCHANGED <<serving, works, requests, consents, unstarted, host>>

Load(c) ==
    /\ IsIn(c, "loading") /\ changes[c].kind # "startup"
    /\ \E b \in BackendIds :
        /\ IsNextBackend(b)
        /\ backends' = [backends EXCEPT ![b] = [plugin |-> PluginOf(c), state |-> "idle"]]
        /\ Goes(c, [changes[c] EXCEPT
             !.candidate = b,
             !.phase = IF ~IsCurrent(c) THEN "rejecting"
                       ELSE IF changes[c].previous # None THEN "unloading" ELSE "committing"])
        /\ errors' = IF changes[c].kind = "retry" /\ ~IsCurrent(c)
                     THEN errors \cup {PluginOf(c)} ELSE errors
    /\ UNCHANGED <<modules, selected, works, requests, consents, unstarted, host>>

\* A start, and a rollback, activate what they loaded, whatever happened meanwhile.
LoadSelected(c) ==
    LET p == PluginOf(c) IN
    /\ IsIn(c, "reloading") \/ (IsIn(c, "loading") /\ changes[c].kind = "startup")
    /\ \E b \in BackendIds :
        /\ IsNextBackend(b)
        /\ backends' = [backends EXCEPT ![b] = [plugin |-> p, state |-> "active"]]
        /\ selected' = [selected EXCEPT ![p] = b]
        /\ Activates(p, b)
    /\ Settles(c)
    /\ UNCHANGED <<works, errors, requests, confirmations, unstarted, host>>

ReloadFails(c) ==
    /\ IsIn(c, "reloading")
    /\ Settles(c)
    /\ UNCHANGED <<serving, works, errors, requests, consents, unstarted, host>>

Unload(c) ==
    /\ IsIn(c, "unloading")
    /\ works' = works \ {changes[c].previous}
    /\ Enters(c, "draining")
    /\ UNCHANGED <<serving, errors, requests, consents, unstarted, host>>

UnloadFails(c) ==
    /\ IsIn(c, "unloading")
    /\ works' \in {works, works \ {changes[c].previous}}
    /\ Fails(c)
    /\ UNCHANGED <<serving, requests, consents, unstarted, host>>

Drain(c) ==
    /\ IsIn(c, "draining")
    /\ Tracked(changes[c].previous) = {}
    /\ IF IsCurrent(c) THEN Enters(c, "committing") /\ UNCHANGED errors ELSE Fails(c)
    /\ UNCHANGED <<serving, works, requests, consents, unstarted, host>>

\* Mutant: the authority is revoked only when the close is over.
RetiresLate(b) == UNCHANGED backends

\* retirePluginBackend() revokes the authority of the backend before it closes it.
Retires(b) == backends' = [backends EXCEPT ![b].state = "closing"]

\* The store may warn of packages that it could not prune.
CommitInstall(c) ==
    LET p == PluginOf(c)
        b == changes[c].candidate
    IN  /\ IsIn(c, "committing") /\ changes[c].kind \in {"install", "retry"}
        /\ selected' = [selected EXCEPT ![p] = b]
        /\ errors' \in {errors \ {p}, errors \cup {p}}
        /\ IF changes[c].previous # None
           THEN /\ Retires(changes[c].previous)
                /\ Enters(c, "retiring")
                /\ UNCHANGED <<modules, exits, prompts>>
           ELSE /\ backends' = [backends EXCEPT ![b].state = "active"]
                /\ Activates(p, b)
                /\ Settles(c)
        /\ UNCHANGED <<works, requests, confirmations, unstarted, host>>

\* exitResolved and exitPrompted forget a removed plugin.
ForgetExit(p) ==
    exits' = [exits EXCEPT ![p] = None] /\ prompts' = [prompts EXCEPT ![p] = None]

CommitRemove(c) ==
    LET p == PluginOf(c) IN
    /\ IsIn(c, "committing") /\ changes[c].kind = "remove"
    /\ selected' = [selected EXCEPT ![p] = None]
    /\ modules' = [modules EXCEPT ![p] = None]
    /\ errors' \in {errors \ {p}, errors \cup {p}}
    /\ IF changes[c].previous # None
       THEN Retires(changes[c].previous) /\ Enters(c, "retiring") /\ UNCHANGED <<exits, prompts>>
       ELSE Settles(c) /\ ForgetExit(p) /\ UNCHANGED backends
    /\ UNCHANGED <<works, requests, confirmations, unstarted, host>>

\* The rollback of a recovery: the package it selects is loaded after the backend is closed.
CommitRollback(c) ==
    LET p == PluginOf(c) IN
    /\ IsIn(c, "committing") /\ changes[c].kind = "recovery"
    /\ selected' = [selected EXCEPT ![p] = None]
    /\ modules' = [modules EXCEPT ![p] = None]
    /\ Retires(changes[c].previous)
    /\ Enters(c, "retiring")
    /\ UNCHANGED <<works, errors, requests, consents, unstarted, host>>

RollbackStartup(c) ==
    /\ IsIn(c, "committing") /\ changes[c].kind = "startup"
    /\ Enters(c, "reloading") \/ Settles(c)
    /\ UNCHANGED <<serving, works, errors, requests, consents, unstarted, host>>

\* Mutant: the candidate serves although the store did not select it.
CommitFailsActive(c) ==
    /\ IsIn(c, "committing") /\ changes[c].candidate # None
    /\ backends' = [backends EXCEPT ![changes[c].candidate].state = "active"]
    /\ Activates(PluginOf(c), changes[c].candidate)
    /\ Settles(c)
    /\ UNCHANGED <<selected, works, errors, requests, confirmations, unstarted, host>>

\* The store failed before it selected anything.
CommitFails(c) ==
    /\ IsIn(c, "committing")
    /\ Fails(c)
    /\ UNCHANGED <<serving, works, requests, consents, unstarted, host>>

\* Mutant: a close does not wait for the requests.
IsRetiredAtOnce(b) == works' \in {works, works \ {b}}

\* Mutant: a close waits for the backend's work to end by itself.
IsRetiredIdle(b) == Tracked(b) = {} /\ b \notin works /\ UNCHANGED works

\* The backend is closed, or failed to, and its requests have ended.
IsRetired(b) == Tracked(b) = {} /\ works' \in {works, works \ {b}}

RetirePrevious(c) ==
    LET p == PluginOf(c) IN
    /\ IsIn(c, "retiring") /\ changes[c].kind \in {"install", "retry"}
    /\ IsRetired(changes[c].previous)
    /\ backends' = [backends EXCEPT ![changes[c].previous].state = "retired",
                                    ![changes[c].candidate].state = "active"]
    /\ errors' \in {errors, errors \cup {p}}
    /\ Activates(p, changes[c].candidate)
    /\ Settles(c)
    /\ UNCHANGED <<selected, requests, confirmations, unstarted, host>>

RetireRemoved(c) ==
    LET p == PluginOf(c) IN
    /\ IsIn(c, "retiring") /\ changes[c].kind = "remove"
    /\ IsRetired(changes[c].previous)
    /\ backends' = [backends EXCEPT ![changes[c].previous].state = "retired"]
    /\ errors' \in {errors, errors \cup {p}}
    /\ ForgetExit(p)
    /\ Settles(c)
    /\ UNCHANGED <<modules, selected, requests, confirmations, unstarted, host>>

\* A recovery that closed the backend loads the restored package, if there is one.
RetireFailed(c) ==
    LET p == PluginOf(c) IN
    /\ IsIn(c, "retiring") /\ changes[c].kind = "recovery"
    /\ IsRetired(changes[c].previous)
    /\ backends' = [backends EXCEPT ![changes[c].previous].state = "retired"]
    /\ errors' = errors \cup {p}
    /\ Enters(c, "reloading") \/ Settles(c)
    /\ UNCHANGED <<modules, selected, requests, consents, unstarted, host>>

Reject(c) ==
    /\ IsIn(c, "rejecting")
    /\ backends' = [backends EXCEPT ![changes[c].candidate].state = "retired"]
    /\ Settles(c)
    /\ UNCHANGED <<modules, selected, works, errors, requests, consents, unstarted, host>>

(***************************************************************************)
(* Exit and shutdown                                                       *)

\* beforeExit() of one plugin after the other, to the first that asks or fails.
AnswerExit(c) ==
    /\ IsIn(c, "reviewing") /\ changes[c].kind = "exit"
    /\ \/ UNCHANGED <<exits, prompts>>
       \/ \E p \in changes[c].plugins :
            /\ modules[p] # None /\ exits[p] = None
            /\ prompts' = [prompts EXCEPT ![p] = modules[p]]
            /\ UNCHANGED exits
       \/ exits' = [p \in Plugins |-> None] /\ UNCHANGED prompts
    /\ Settles(c)
    /\ UNCHANGED <<serving, works, errors, requests, confirmations, unstarted, host>>

\* A refusal, or a failure, takes every resolved exit back.
ResolveExit(c) ==
    /\ IsIn(c, "resolving")
    /\ exits' \in {[exits EXCEPT ![PluginOf(c)] = changes[c].previous],
                   [p \in Plugins |-> None]}
    /\ Settles(c)
    /\ UNCHANGED <<serving, works, errors, requests, confirmations, prompts, unstarted, host>>

BeginClose ==
    /\ host = "open"
    /\ host' = "closing"
    /\ intents' = [p \in Plugins |-> None]
    /\ UNCHANGED <<serving, works, errors, requests, changes, tail, consents, unstarted>>

\* Mutant: the close does not wait for the changes under way.
CloseBackendsAtOnce ==
    /\ host = "closing"
    /\ host' = "stopping"
    /\ backends' = [b \in BackendIds |->
         IF \E p \in Plugins : modules[p] = b THEN [backends[b] EXCEPT !.state = "closing"]
         ELSE backends[b]]
    /\ UNCHANGED <<modules, selected, works, errors, requests, changes, tail, intents, consents,
                   unstarted>>

\* Every backend that serves is closed, at once, when the changes have settled.
CloseBackends ==
    /\ host = "closing" /\ tail = <<>>
    /\ host' = "stopping"
    /\ backends' = [b \in BackendIds |->
         IF \E p \in Plugins : modules[p] = b THEN [backends[b] EXCEPT !.state = "closing"]
         ELSE backends[b]]
    /\ UNCHANGED <<modules, selected, works, errors, requests, changes, tail, intents, consents,
                   unstarted>>

CloseBackend(p) ==
    LET b == modules[p] IN
    /\ host = "stopping" /\ b # None
    /\ backends[b].state = "closing"
    /\ IsRetired(b)
    /\ backends' = [backends EXCEPT ![b].state = "retired"]
    /\ UNCHANGED <<modules, selected, errors, requests, changes, tail, intents, consents,
                   unstarted, host>>

Close ==
    /\ host = "stopping"
    /\ \A p \in Plugins : modules[p] # None => backends[modules[p]].state = "retired"
    /\ host' = "closed"
    /\ modules' = [p \in Plugins |-> None]
    /\ confirmations' = [p \in Plugins |-> None]
    /\ prompts' = [p \in Plugins |-> None]
    /\ UNCHANGED <<selected, backends, works, errors, requests, changes, tail, intents, exits,
                   unstarted>>

(***************************************************************************)
(* Next                                                                    *)

Asked(c) == Startup(c) \/ Intend(c) \/ Acquired(c) \/ AcquireFails(c) \/ Ask(c) \/ ReviewExit(c)
Reviewing(c) ==
    \/ Prepare(c) \/ PrepareFails(c) \/ Connected(c) \/ Reviewed(c) \/ ReviewStops(c)
    \/ GiveConsent(c) \/ AnswerExit(c) \/ ResolveExit(c)
Changing(c) ==
    \/ LoadFails(c) \/ StartupFails(c) \/ Load(c) \/ LoadSelected(c) \/ ReloadFails(c)
    \/ Unload(c) \/ UnloadFails(c) \/ Drain(c)
    \/ CommitInstall(c) \/ CommitRemove(c) \/ CommitRollback(c) \/ RollbackStartup(c)
    \/ CommitFails(c) \/ RetirePrevious(c) \/ RetireRemoved(c) \/ RetireFailed(c) \/ Reject(c)
Requesting(r) == Admit(r) \/ Dispatch(r) \/ EndRequest(r) \/ StartWork(r)
Stopping == CloseBackends \/ Close \/ \E p \in Plugins : CloseBackend(p)

Next ==
    \/ \E c \in ChangeIds : Asked(c) \/ Begin(c) \/ Reviewing(c) \/ Changing(c)
    \/ \E r \in RequestIds : Requesting(r)
    \/ \E b \in BackendIds : EndWork(b)
    \/ \E p \in Plugins : Expire(p)
    \/ ExitIsBusy \/ BeginClose \/ Stopping

Spec == Init /\ [][Next]_vars

\* The runtime takes its steps; hooks, the store, loads and downloads answer; requests end.
\* A change has one pending step at a time, so one condition covers its steps.
Progress(c) ==
    Startup(c) \/ Acquired(c) \/ AcquireFails(c) \/ Begin(c) \/ Reviewing(c) \/ Changing(c)
Fairness ==
    /\ \A c \in ChangeIds : WF_vars(Progress(c))
    /\ \A r \in RequestIds : WF_vars(Dispatch(r) \/ EndRequest(r))
    /\ WF_vars(Stopping)
FairSpec == Spec /\ Fairness

(***************************************************************************)
(* Properties                                                              *)

TypeOK ==
    /\ modules \in [Plugins -> MaybeBackend]
    /\ selected \in [Plugins -> MaybeBackend]
    /\ backends \in [BackendIds -> Backend]
    /\ works \subseteq BackendIds
    /\ errors \subseteq Plugins
    /\ requests \in [RequestIds -> Request]
    /\ changes \in [ChangeIds -> Change]
    /\ tail \in Seq(ChangeIds)
    /\ intents \in [Plugins -> ChangeIds \cup {None}]
    /\ confirmations \in [Plugins -> MaybeConsent]
    /\ exits \in [Plugins -> MaybeBackend]
    /\ prompts \in [Plugins -> MaybeBackend]
    /\ unstarted \subseteq Plugins
    /\ host \in {"open", "closing", "stopping", "closed"}

\* A plugin has one backend with authority, the one that serves it: no update, recovery
\* or failed load leaves two that may act for it.
OneBackendServes ==
    \A b \in BackendIds : backends[b].state = "active" => modules[backends[b].plugin] = b

\* Every backend that was made and is not closed is one that the runtime serves with, or
\* one that a change still has to close: none is forgotten with its work.
NoBackendIsLost ==
    \A b \in BackendIds : backends[b].state \in {"idle", "active", "closing"} =>
        \/ \E p \in Plugins : modules[p] = b
        \/ \E c \in ChangeIds : Owns(c) /\ b \in {changes[c].previous, changes[c].candidate}

\* One backend serves, and every other has an owner that will close it.
BackendsAreOwned == OneBackendServes /\ NoBackendIsLost

\* A backend is retired, and a package is committed in its place, only when none of the
\* requests it had begun still runs: "drain-requests" and the close leave none behind.
NoRequestOutlivesItsBackend ==
    \A b \in BackendIds :
        /\ backends[b].state = "retired" => Begun(b) = {}
        /\ ~Closing /\ backends[b].state = "closing" => Begun(b) = {}

\* "Bind each change to ... current work": when a change tells a backend to unload, each
\* request and all work that still run there are what the user was warned of, for this
\* operation on this backend, by the newest prompt; that answer is used up. An update
\* loads its candidate first: what it stops may then also be work that a request of the
\* warning has begun meanwhile. What the review found idle is idle still.
StopsOnlyConfirmed ==
    \A c \in ChangeIds :
        LET change  == changes[c]
            consent == change.consent
        IN  change.phase = "unloading" /\ IsBusy(change.previous) =>
                /\ consent # None
                /\ consent.op = change.kind
                /\ consent.backend = change.previous
                /\ Begun(change.previous) \subseteq consent.warning.running
                /\ change.previous \in works =>
                      \/ consent.warning.work
                      \/ change.kind \in {"install", "retry"} /\ consent.warning.running # {}
                /\ confirmations[PluginOf(c)] = None

\* An older change never lands over a newer one: from its admission on, a change that
\* commits is the newest the user asked for.
NewestIntentCommits ==
    \A c \in ChangeIds :
        Owns(c) /\ changes[c].kind \in IntentKinds /\ ~Closing => intents[PluginOf(c)] = c

\* "Failure before commit keeps the old selection": when no change is under way, what
\* serves is the package that the store selects.
ServingIsSelected ==
    \A p \in Plugins : ~Owned(p) /\ modules[p] # None => selected[p] = modules[p]

\* A resolved exit is the answer of the backend that serves now, not of one that was replaced.
ExitIsCurrent == \A p \in Plugins : modules[p] # None => exits[p] \in {None, modules[p]}

\* What a change, a failed commit or an exit leaves is current: the newest intent, the
\* package the store selects, the answer of the backend that serves.
ChangesAreCurrent == NewestIntentCommits /\ ServingIsSelected /\ ExitIsCurrent

\* close() ends with no change under way, no request that runs, and no backend open.
HostEndsClean ==
    host = "closed" =>
        /\ tail = <<>>
        /\ \A r \in RequestIds : requests[r].phase # "running"
        /\ \A b \in BackendIds : backends[b].state \in {"none", "retired"}

\* Every change that was asked for settles: none waits for requests, connections or
\* another change for ever.
ChangesSettle ==
    \A c \in ChangeIds : changes[c].phase # "unused" ~> changes[c].phase = "settled"

\* The host closes, whatever changes and requests were under way.
CloseSettles == host = "closing" ~> host = "closed"

\* The two wait for each other: a close for the changes, changes for what the close ends.
EverythingSettles == ChangesSettle /\ CloseSettles
============================================================================
