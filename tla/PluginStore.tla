---------------------------- MODULE PluginStore ----------------------------
(***************************************************************************)
(* One plugin in PluginStore: its installation record in state.json, the   *)
(* package directories beside it, and the transition of PluginRuntime that *)
(* works on them. Every file operation is a step: the host may crash       *)
(* between any two, and what is on disk is all that is left.               *)
(*                                                                         *)
(* The store runs one operation at a time (#serial) and the runtime one    *)
(* transition of a plugin at a time, so "op" is the operation under way    *)
(* and "candidate" the package an installation or retry works on.          *)
(* op.at                                                                   *)
(*   staging    #stage: the new files are written beside the destination   *)
(*   aside      #stage: the damaged directory is out of the way            *)
(*   pruning    commitInstall: the record is saved, old packages go        *)
(*   removing   uninstall: the directory is moved out, the record is not   *)
(*   erasing    uninstall: the record is gone, the moved bytes are not     *)
(*                                                                         *)
(* What an operation moves away stays on disk under another name: "aside"  *)
(* and "trash" say of which versions. The .install- directories, which     *)
(* nothing reads again, are left out. "harmed" and "deferred" are history. *)
(***************************************************************************)
EXTENDS Integers, FiniteSets

CONSTANTS
    Digests,      \* package digests
    None,         \* no digest
    Removal,      \* a pending removal
    MaxDeferrals, \* bound: installations and removals left to the next start
    MaxCrashes,   \* bound: crashes in a behaviour
    MaxDamages    \* bound: packages damaged on disk in a behaviour

ASSUME StoreAssumption ==
    /\ None \notin Digests /\ Removal \notin Digests /\ None # Removal
    /\ MaxDeferrals \in Nat /\ MaxCrashes \in Nat /\ MaxDamages \in Nat

VARIABLES
    entry,      \* disk: the record of the plugin in state.json
    packages,   \* disk: what each package directory holds
    aside,      \* disk: the versions whose original files lie in a .repair- directory
    trash,      \* disk: the versions with files in the .remove- directories of earlier removals
    host,       \* how far the host has started
    running,    \* the version whose backend is active
    candidate,  \* the package of the install or retry under way
    op,         \* the store operation under way
    proven,     \* the versions that a backend was once loaded from
    harmed,     \* the versions damaged, or moved out by a removal, since they were put in place
    deferred,   \* the versions that install() left to the next start
    deferrals, crashes, damages

diskVars == <<entry, packages, aside, trash>>
hostVars == <<host, running, candidate, proven>>
history == <<harmed, deferred>>
counters == <<deferrals, crashes, damages>>
vars == <<diskVars, hostVars, op, history, counters>>

Entry == [active : Digests \cup {None}, inactive : Digests \cup {None},
          previous : Digests \cup {None}, pending : Digests \cup {None, Removal}]
NoEntry == [active |-> None, inactive |-> None, previous |-> None, pending |-> None]
Contents == [Digests -> {"none", "intact", "damaged"}]
Candidates == [digest : Digests \cup {None}, installs : BOOLEAN, loaded : BOOLEAN]
Operations ==
    [at : {"idle", "staging", "aside", "recording", "pruning", "removing", "erasing"},
     digest : Digests \cup {None}, later : BOOLEAN, files : Contents,
     stray : SUBSET Digests]
Emptied == [d \in Digests |-> "none"]
NoCandidate == [digest |-> None, installs |-> FALSE, loaded |-> FALSE]

\* "later" is an install() that will only record the package as pending; files
\* and stray are the directory that a removal has moved out. During a repair
\* stray is what other repairs have left aside.
NoOp == [at |-> "idle", digest |-> None, later |-> FALSE, files |-> Emptied, stray |-> {}]

Init ==
    /\ entry = NoEntry
    /\ packages = Emptied
    /\ aside = {} /\ trash = {}
    /\ host = "down"
    /\ running = None
    /\ candidate = NoCandidate
    /\ op = NoOp
    /\ proven = {} /\ harmed = {} /\ deferred = {}
    /\ deferrals = 0 /\ crashes = 0 /\ damages = 0

\* #verified
IsVerified(d) == d \in Digests /\ packages[d] = "intact"

Pointers(record) == {record.active, record.inactive, record.previous, record.pending} \ {None, Removal}

\* The transition of the runtime is over, and so is the store operation.
IsIdle == host = "up" /\ candidate = NoCandidate /\ op = NoOp

\* The versions with files in .remove- directories, the removal under way included.
HeldOut ==
    trash \cup (IF op.at \in {"removing", "erasing"}
               THEN op.stray \cup {d \in Digests : op.files[d] # "none"} ELSE {})

---------------------------------------------------------------------------
(* Starting the host: activatePending, then rollback if nothing loads.     *)

\* What a start makes of the record before it looks at the packages.
Applied ==
    IF entry.pending = None THEN entry
    ELSE [active   |-> IF entry.pending = Removal THEN None ELSE entry.pending,
          inactive |-> None,
          previous |-> IF entry.active \notin {None, entry.pending} THEN entry.active
                       ELSE entry.previous,
          pending  |-> None]

\* A version that cannot be verified gives way to the previous one.
Activated ==
    IF Applied.active = None \/ IsVerified(Applied.active) THEN Applied
    ELSE [Applied EXCEPT !.active = IF IsVerified(Applied.previous) THEN Applied.previous ELSE None,
                         !.previous = None]

Boot ==
    /\ host = "down"
    /\ host' = "activating"
    /\ UNCHANGED <<diskVars, running, candidate, proven, op, history, counters>>

\* When the record cannot be saved nothing is started.
ActivatePending ==
    /\ host = "activating"
    /\ \/ /\ entry' = Activated
          /\ host' = IF Activated.active = None THEN "up" ELSE "starting"
       \/ /\ host' = "up"
          /\ UNCHANGED entry
    /\ UNCHANGED <<packages, aside, trash, running, candidate, proven, op, history, counters>>

\* A version that this host cannot run is left alone.
SkipIncompatible ==
    /\ host = "starting"
    /\ host' = "up"
    /\ UNCHANGED <<diskVars, running, candidate, proven, op, history, counters>>

BackendStarts ==
    /\ host \in {"starting", "recovering"}
    /\ host' = "up"
    /\ running' = entry.active
    /\ proven' = proven \cup {entry.active}
    /\ UNCHANGED <<diskVars, candidate, op, history, counters>>

RecoveryFails ==
    /\ host = "recovering"
    /\ host' = "up"
    /\ UNCHANGED <<diskVars, running, candidate, proven, op, history, counters>>

\* rollback(): the failed version stays a candidate for a retry only if there
\* is nothing to fall back to.
RolledBack ==
    IF IsVerified(entry.previous)
    THEN [entry EXCEPT !.active = entry.previous, !.inactive = None, !.previous = None]
    ELSE [entry EXCEPT !.active = None,
                       !.inactive = IF IsVerified(entry.active) THEN entry.active ELSE None,
                       !.previous = None]

\* A backend that does not start, or a renderer that fails: the runtime has
\* the store roll back and loads what that returns.
Rollback ==
    /\ host = "starting" \/ (IsIdle /\ running # None)
    /\ \/ /\ entry' = RolledBack
          /\ host' = IF RolledBack.active = None THEN "up" ELSE "recovering"
          /\ running' = None
       \/ /\ host' = "up"
          /\ UNCHANGED <<entry, running>>
    /\ UNCHANGED <<packages, aside, trash, candidate, proven, op, history, counters>>

---------------------------------------------------------------------------
(* #stage, for prepareInstall and install.                                 *)

Prepared(d) ==
    /\ op' = NoOp
    /\ candidate' = [digest |-> d, installs |-> TRUE, loaded |-> FALSE]

\* The package has its directory: prepareInstall returns it, install() goes on
\* to record it.
StageEnds(d, later) ==
    IF later THEN op' = [NoOp EXCEPT !.at = "recording", !.digest = d] /\ UNCHANGED candidate
    ELSE Prepared(d)

BeginStage(d, later) ==
    /\ IsIdle
    /\ \/ IsVerified(d) /\ StageEnds(d, later)
       \/ /\ ~IsVerified(d)
          /\ op' = [NoOp EXCEPT !.at = "staging", !.digest = d, !.later = later]
          /\ UNCHANGED candidate
    /\ UNCHANGED <<diskVars, host, running, proven, history>>

StageFails ==
    /\ op.at = "staging"
    /\ op' = NoOp
    /\ UNCHANGED <<diskVars, hostVars, history, counters>>

\* The version is in place, with its own files.
PutInPlace(d) ==
    /\ packages' = [packages EXCEPT ![d] = "intact"]
    /\ harmed' = harmed \ {d}

PublishStage ==
    /\ op.at = "staging" /\ packages[op.digest] = "none"
    /\ PutInPlace(op.digest)
    /\ StageEnds(op.digest, op.later)
    /\ UNCHANGED <<entry, aside, trash, host, running, proven, deferred, counters>>

\* A repair: the damaged directory is renamed away first.
MoveAside ==
    /\ op.at = "staging" /\ packages[op.digest] # "none"
    /\ packages' = [packages EXCEPT ![op.digest] = "none"]
    /\ aside' = aside \cup {op.digest}
    /\ op' = [op EXCEPT !.at = "aside", !.stray = aside]
    /\ UNCHANGED <<entry, trash, hostVars, history, counters>>

\* The new files are in place, and the damaged ones go.
PublishRepair ==
    /\ op.at = "aside"
    /\ PutInPlace(op.digest)
    /\ aside' = op.stray
    /\ StageEnds(op.digest, op.later)
    /\ UNCHANGED <<entry, trash, host, running, proven, deferred, counters>>

\* Mutant: the original is deleted although it could not be renamed back.
RepairForgetsOriginal ==
    /\ op.at = "aside"
    /\ op' = NoOp
    /\ aside' = op.stray
    /\ \/ packages' = [packages EXCEPT ![op.digest] = "damaged"] /\ UNCHANGED harmed
       \/ UNCHANGED <<packages, harmed>>
    /\ UNCHANGED <<entry, trash, hostVars, deferred, counters>>

\* The original is renamed back, or retained where it is if that fails too. An
\* original that cannot be deleted fails a repair whose new files are in place.
RepairFails ==
    /\ op.at = "aside"
    /\ op' = NoOp
    /\ \/ /\ packages' = [packages EXCEPT ![op.digest] = "damaged"]
          /\ aside' = op.stray
          /\ UNCHANGED harmed
       \/ UNCHANGED <<packages, aside, harmed>>
       \/ PutInPlace(op.digest) /\ UNCHANGED aside
    /\ UNCHANGED <<entry, trash, hostVars, deferred, counters>>

PrepareInstall(d) == BeginStage(d, FALSE) /\ UNCHANGED counters

\* install() and remove() change what the next start will do.
Defer == deferrals < MaxDeferrals /\ deferrals' = deferrals + 1 /\ UNCHANGED <<crashes, damages>>

InstallLater(d) == Defer /\ BeginStage(d, TRUE)

RecordPending ==
    /\ op.at = "recording"
    /\ op' = NoOp
    /\ \/ /\ entry.active # op.digest \/ entry.pending # None
          /\ entry' = [entry EXCEPT !.pending = op.digest]
          /\ deferred' = deferred \cup {op.digest}
       \/ UNCHANGED <<entry, deferred>>
    /\ UNCHANGED <<packages, aside, trash, hostVars, harmed, counters>>

RemoveLater ==
    /\ Defer /\ IsIdle /\ entry # NoEntry
    /\ entry' = [entry EXCEPT !.pending = Removal]
    /\ UNCHANGED <<packages, aside, trash, hostVars, op, history>>

---------------------------------------------------------------------------
(* The candidate: loaded, then committed, or rejected.                     *)

\* getInstalled(), when the active version failed.
Retry(d) ==
    /\ IsIdle
    /\ d = IF entry.active # None THEN entry.active ELSE entry.inactive
    /\ IsVerified(d)
    /\ running \in {None, d}
    /\ candidate' = [digest |-> d, installs |-> FALSE, loaded |-> FALSE]
    /\ UNCHANGED <<diskVars, host, running, proven, op, history, counters>>

LoadCandidate ==
    /\ candidate # NoCandidate /\ ~candidate.loaded /\ op = NoOp
    /\ candidate' = [candidate EXCEPT !.loaded = TRUE]
    /\ proven' = proven \cup {candidate.digest}
    /\ UNCHANGED <<diskVars, host, running, op, history, counters>>

\* Mutant: the version kept for a retry is forgotten.
RejectForgetsInactive ==
    /\ candidate # NoCandidate /\ op = NoOp
    /\ candidate' = NoCandidate
    /\ \/ /\ candidate.installs /\ candidate.digest \notin {entry.active, entry.previous}
          /\ packages' = [packages EXCEPT ![candidate.digest] = "none"]
       \/ UNCHANGED packages
    /\ UNCHANGED <<entry, aside, trash, host, running, proven, op, history, counters>>

\* discardInstall() spares every package that the record points at; a package
\* it cannot delete stays.
RejectCandidate ==
    /\ candidate # NoCandidate /\ op = NoOp
    /\ candidate' = NoCandidate
    /\ \/ /\ candidate.installs /\ candidate.digest \notin Pointers(entry)
          /\ packages' = [packages EXCEPT ![candidate.digest] = "none"]
       \/ UNCHANGED packages
    /\ UNCHANGED <<entry, aside, trash, host, running, proven, op, history, counters>>

\* The rollback package: the first of the active and the previous version that
\* is another one and can still be verified.
Retained(d) ==
    LET kept(x) == x # d /\ IsVerified(x)
    IN  IF kept(entry.active) THEN entry.active
        ELSE IF kept(entry.previous) THEN entry.previous ELSE None

\* Mutant: the record is saved before the candidate is loaded.
CommitUnloaded ==
    /\ candidate # NoCandidate /\ op = NoOp
    /\ IsVerified(candidate.digest)
    /\ entry' = [active |-> candidate.digest, inactive |-> None,
                 previous |-> Retained(candidate.digest), pending |-> None]
    /\ op' = [NoOp EXCEPT !.at = "pruning"]
    /\ UNCHANGED <<packages, aside, trash, hostVars, history, counters>>

CommitInstall ==
    /\ candidate.loaded /\ op = NoOp
    /\ IsVerified(candidate.digest)
    /\ entry' = [active |-> candidate.digest, inactive |-> None,
                 previous |-> Retained(candidate.digest), pending |-> None]
    /\ op' = [NoOp EXCEPT !.at = "pruning"]
    /\ UNCHANGED <<packages, aside, trash, hostVars, history, counters>>

\* Mutant: only the new version is kept.
ObsoleteButActive == {d \in Digests : packages[d] # "none" /\ d # entry.active}

Obsolete == {d \in Digests : packages[d] # "none" /\ d \notin Pointers(entry)}

Prune(d) ==
    /\ op.at = "pruning" /\ d \in Obsolete
    /\ packages' = [packages EXCEPT ![d] = "none"]
    /\ UNCHANGED <<entry, aside, trash, hostVars, op, history, counters>>

\* Nothing is left to delete, or a deletion failed, which is only a warning:
\* the previous backend is retired and the candidate takes over.
ActivateCandidate ==
    /\ op.at = "pruning"
    /\ op' = NoOp
    /\ running' = candidate.digest
    /\ candidate' = NoCandidate
    /\ UNCHANGED <<diskVars, host, proven, history, counters>>

---------------------------------------------------------------------------
(* uninstall.                                                              *)

\* Mutant: the packages are deleted before the record is saved.
MoveOutDeletes ==
    /\ IsIdle
    /\ op' = [NoOp EXCEPT !.at = "removing"]
    /\ packages' = Emptied /\ aside' = {}
    /\ harmed' = harmed \cup {d \in Digests : packages[d] # "none"}
    /\ UNCHANGED <<entry, trash, hostVars, deferred, counters>>

MoveOut ==
    /\ IsIdle
    /\ op' = [NoOp EXCEPT !.at = "removing", !.files = packages, !.stray = aside]
    /\ packages' = Emptied /\ aside' = {}
    /\ harmed' = harmed \cup {d \in Digests : packages[d] # "none"}
    /\ UNCHANGED <<entry, trash, hostVars, deferred, counters>>

\* When the record cannot be saved the directory is renamed back, if it can be.
SaveRemoval ==
    /\ op.at = "removing"
    /\ \/ /\ entry' = NoEntry
          /\ op' = [op EXCEPT !.at = "erasing"]
          /\ UNCHANGED <<packages, aside, trash, harmed>>
       \/ /\ packages' = op.files /\ aside' = op.stray
          /\ harmed' = {d \in harmed : op.files[d] # "intact"}
          /\ op' = NoOp
          /\ UNCHANGED <<entry, trash>>
       \/ /\ trash' = HeldOut
          /\ op' = NoOp
          /\ UNCHANGED <<entry, packages, aside, harmed>>
    /\ UNCHANGED <<hostVars, deferred, counters>>

\* Mutant: the backend of a removed version is left in the host.
EraseKeepsBackend ==
    /\ op.at = "erasing"
    /\ trash' \in SUBSET HeldOut
    /\ op' = NoOp
    /\ UNCHANGED <<entry, packages, aside, hostVars, history, counters>>

\* The moved bytes go, with those of earlier removals; a warning is recorded
\* when some of them do not.
Erase ==
    /\ op.at = "erasing"
    /\ trash' \in SUBSET HeldOut
    /\ op' = NoOp
    /\ running' = None
    /\ UNCHANGED <<entry, packages, aside, host, candidate, proven, history, counters>>

---------------------------------------------------------------------------
Crash ==
    /\ host # "down" /\ crashes < MaxCrashes
    /\ crashes' = crashes + 1
    /\ host' = "down" /\ running' = None /\ candidate' = NoCandidate /\ op' = NoOp
    /\ trash' = HeldOut
    /\ UNCHANGED <<entry, packages, aside, proven, history, deferrals, damages>>

Damage(d) ==
    /\ packages[d] = "intact" /\ damages < MaxDamages
    /\ damages' = damages + 1
    /\ packages' = [packages EXCEPT ![d] = "damaged"]
    /\ harmed' = harmed \cup {d}
    /\ UNCHANGED <<entry, aside, trash, hostVars, op, deferred, deferrals, crashes>>

Next ==
    \/ Boot \/ ActivatePending \/ SkipIncompatible \/ BackendStarts \/ RecoveryFails
    \/ Rollback
    \/ \E d \in Digests : PrepareInstall(d) \/ InstallLater(d) \/ Retry(d)
    \/ StageFails \/ PublishStage \/ MoveAside \/ PublishRepair \/ RepairFails
    \/ RecordPending \/ RemoveLater
    \/ LoadCandidate \/ RejectCandidate \/ CommitInstall \/ ActivateCandidate
    \/ \E d \in Digests : Prune(d)
    \/ MoveOut \/ SaveRemoval \/ Erase
    \/ Crash
    \/ \E d \in Digests : Damage(d)

Spec == Init /\ [][Next]_vars
---------------------------------------------------------------------------
TypeOK ==
    /\ entry \in Entry
    /\ packages \in Contents
    /\ aside \subseteq Digests /\ trash \subseteq Digests
    /\ host \in {"down", "activating", "starting", "recovering", "up"}
    /\ running \in Digests \cup {None}
    /\ candidate \in Candidates
    /\ op \in Operations
    /\ proven \subseteq Digests /\ harmed \subseteq Digests /\ deferred \subseteq Digests
    /\ deferrals \in 0 .. MaxDeferrals
    /\ crashes \in 0 .. MaxCrashes
    /\ damages \in 0 .. MaxDamages

\* discardInstall's "a failed candidate cannot be selected by a later startup",
\* whatever crashed in between: the record only points at versions that loaded,
\* or that install() left to the next start to load.
OnlyProvenIsRecorded == Pointers(entry) \subseteq proven \cup deferred

\* No step and no crash, in the middle of a removal or of a repair included,
\* loses a package that the record points at. Its files are in place, or beside
\* it in the directory that a repair or a removal moved them to. They are in
\* place and intact unless that very version was damaged, or moved out by a
\* removal that did not take the record with it, and was not installed since.
PointersHavePackages ==
    \A d \in Pointers(entry) :
        /\ packages[d] = "intact" \/ d \in harmed
        /\ packages[d] # "none" \/ d \in aside \cup HeldOut

\* The host runs the version that a restart would start.
RunningIsRecorded == (running # None /\ IsIdle) => running = entry.active

\* While a version runs, the files that its views are served from are not
\* deleted under it: not by the version that replaces it, nor by a rejected one.
\* Only a removal moves them, and only damage to that version costs them.
RunningKeepsItsFiles ==
    (running # None /\ op.at \notin {"removing", "erasing"}) =>
        packages[running] = "intact" \/ running \in harmed

\* What runs is what a restart would start, and its files stand.
RunningStands == RunningIsRecorded /\ RunningKeepsItsFiles

============================================================================
