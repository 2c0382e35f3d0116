------------------------ MODULE PluginStoreProofs --------------------------
(***************************************************************************)
(* For every set of packages and any number of crashes and damages: the    *)
(* store keeps its type, the record only points at versions that once      *)
(* loaded or that install() left to the next start, no package that it     *)
(* points at is lost, and the version that runs is recorded and keeps its  *)
(* files.                                                                  *)
(***************************************************************************)
EXTENDS PluginStore, TLAPS

\* What the steps under way work on: the version that starts is recorded, and
\* a package that is staged or is a candidate has a digest.
HasTarget ==
    /\ host \in {"starting", "recovering"} => entry.active # None
    /\ op.at \in {"staging", "aside", "recording"} => op.digest # None
    /\ candidate # NoCandidate => candidate.digest # None
    /\ host # "up" => op.at = "idle" /\ candidate = NoCandidate

\* A loaded candidate is proven before it is committed, what install() leaves
\* to the next start is recorded as such, and what a start or a rollback points
\* at was pointed at before.
Proven ==
    /\ Pointers(entry) \subseteq proven \cup deferred
    /\ candidate.loaded => candidate.digest \in proven

USE StoreAssumption
USE DEF counters, history

LEMMA AppliedTyped == TypeOK => Applied \in Entry
  BY DEF TypeOK, Entry, Applied

LEMMA ActivatedTyped == TypeOK => Activated \in Entry
  BY AppliedTyped DEF Entry, Activated, IsVerified

LEMMA RolledBackTyped == TypeOK => RolledBack \in Entry
  BY DEF TypeOK, Entry, RolledBack, IsVerified

LEMMA InitTyped == Init => TypeOK /\ HasTarget
  BY DEF Init, TypeOK, NoEntry, Entry, Emptied, Contents, NoCandidate, NoOp,
     Candidates, Operations, HasTarget

\* One package directory changed.
LEMMA PackagesTyped ==
    ASSUME TypeOK, NEW d, NEW c \in {"none", "intact", "damaged"}
    PROVE  [packages EXCEPT ![d] = c] \in Contents
  BY DEF TypeOK, Contents

LEMMA OpsTyped ==
    /\ NoOp \in Operations /\ NoOp.at = "idle" /\ ~NoOp.later
    /\ \A at \in {"recording", "pruning", "erasing"} : [NoOp EXCEPT !.at = at] \in Operations
    /\ \A d \in Digests : [NoOp EXCEPT !.at = "recording", !.digest = d] \in Operations
    /\ \A d \in Digests, l \in BOOLEAN :
          [NoOp EXCEPT !.at = "staging", !.digest = d, !.later = l] \in Operations
    /\ \A f \in Contents, s \in SUBSET Digests :
          [NoOp EXCEPT !.at = "removing", !.files = f, !.stray = s] \in Operations
  BY DEF NoOp, Operations, Contents, Emptied

LEMMA PositionTyped ==
    ASSUME TypeOK
    PROVE  /\ [op EXCEPT !.at = "aside", !.stray = aside] \in Operations
           /\ [op EXCEPT !.at = "erasing"] \in Operations
  BY DEF TypeOK, Operations

LEMMA HeldOutTyped == TypeOK => HeldOut \subseteq Digests
  BY DEF HeldOut, TypeOK, Operations

\* What a package that has its directory leaves of the operation on it.
LEMMA StageEndsTyped ==
    ASSUME TypeOK, HasTarget, NEW d \in Digests, NEW later \in BOOLEAN, StageEnds(d, later)
    PROVE  /\ candidate' \in Candidates
           /\ op' \in Operations
           /\ op'.at \in {"idle", "recording"}
           /\ op'.at = "recording" => op'.digest # None
           /\ candidate' # NoCandidate => candidate'.digest # None
<1>1. CASE later
  <2>1. op' \in Operations /\ op'.at = "recording" /\ op'.digest # None
    BY <1>1, OpsTyped DEF StageEnds, NoOp
  <2>. QED
    BY <1>1, <2>1 DEF StageEnds, TypeOK, HasTarget
<1>2. CASE ~later
  <2>1. op' = NoOp /\ candidate' = [digest |-> d, installs |-> TRUE, loaded |-> FALSE]
    BY <1>2 DEF StageEnds, Prepared
  <2>2. candidate' \in Candidates /\ candidate'.digest = d
    BY <2>1 DEF Candidates
  <2>. QED
    BY <2>1, <2>2, OpsTyped
<1>. QED
  BY <1>1, <1>2

LEMMA NextTyped == TypeOK /\ HasTarget /\ [Next]_vars => TypeOK' /\ HasTarget'
<1> SUFFICES ASSUME TypeOK, HasTarget, [Next]_vars PROVE TypeOK' /\ HasTarget'
  OBVIOUS
<1>u. CASE UNCHANGED vars
  BY <1>u DEF vars, diskVars, hostVars, TypeOK, HasTarget, Contents, Entry, Candidates, Operations
<1>1. CASE Boot \/ SkipIncompatible \/ RecoveryFails
  BY <1>1 DEF Boot, SkipIncompatible, RecoveryFails, diskVars, TypeOK, HasTarget
<1>2. CASE ActivatePending
  <2>1. entry' \in Entry
    BY <1>2, ActivatedTyped DEF ActivatePending, TypeOK
  <2>2. HasTarget' /\ host' \in {"up", "starting"}
    BY <1>2 DEF ActivatePending, HasTarget
  <2>. QED
    BY <1>2, <2>1, <2>2 DEF ActivatePending, TypeOK
<1>3. CASE BackendStarts
  <2>1. entry.active \in Digests
    BY <1>3 DEF BackendStarts, HasTarget, TypeOK, Entry
  <2>. QED
    BY <1>3, <2>1 DEF BackendStarts, diskVars, TypeOK, HasTarget
<1>4. CASE Rollback
  <2>. op.at = "idle" /\ candidate = NoCandidate
    BY <1>4, OpsTyped DEF Rollback, IsIdle, HasTarget
  <2>1. entry' \in Entry
    BY <1>4, RolledBackTyped DEF Rollback, TypeOK
  <2>2. HasTarget' /\ host' \in {"up", "recovering"} /\ running' \in Digests \cup {None}
    BY <1>4 DEF Rollback, HasTarget, TypeOK
  <2>. QED
    BY <1>4, <2>1, <2>2 DEF Rollback, TypeOK
<1>c. Defer \/ UNCHANGED counters => deferrals' \in 0 .. MaxDeferrals /\ UNCHANGED <<crashes, damages>>
  BY DEF Defer, TypeOK
<1>5. ASSUME NEW d \in Digests, NEW later \in BOOLEAN, BeginStage(d, later),
             Defer \/ UNCHANGED counters
      PROVE  TypeOK' /\ HasTarget'
  <2>. host = "up"
    BY <1>5 DEF BeginStage, IsIdle
  <2>1. CASE IsVerified(d) /\ StageEnds(d, later)
    BY <1>5, <1>c, <2>1, StageEndsTyped DEF BeginStage, diskVars, TypeOK, HasTarget
  <2>2. CASE ~IsVerified(d)
    <3>1. op' \in Operations /\ op'.digest # None
      BY <1>5, <2>2, OpsTyped, ZenonT(30) DEF BeginStage, NoOp
    <3>. QED
      BY <1>5, <1>c, <2>2, <3>1 DEF BeginStage, diskVars, TypeOK, HasTarget
  <2>. QED
    BY <1>5, <2>1, <2>2 DEF BeginStage
<1>6. CASE StageFails
  BY <1>6, OpsTyped DEF StageFails, diskVars, hostVars, TypeOK, HasTarget
<1>7. CASE PublishStage \/ PublishRepair
  <2>. host = "up"
    BY <1>7 DEF PublishStage, PublishRepair, HasTarget
  <2>1. StageEnds(op.digest, op.later) /\ op.later \in BOOLEAN /\ op.digest \in Digests
    BY <1>7 DEF PublishStage, PublishRepair, TypeOK, HasTarget, Operations
  <2>2. packages' \in Contents
    BY <1>7, PackagesTyped DEF PublishStage, PublishRepair, PutInPlace
  <2>3. aside' \subseteq Digests /\ harmed' \subseteq Digests
    BY <1>7 DEF PublishStage, PublishRepair, PutInPlace, TypeOK, Operations
  <2>4. UNCHANGED <<entry, trash, host, running, proven, deferred, counters>>
    BY <1>7 DEF PublishStage, PublishRepair
  <2>5. /\ candidate' \in Candidates /\ op' \in Operations /\ op'.at \in {"idle", "recording"}
        /\ candidate' # NoCandidate => candidate'.digest # None
        /\ op'.at = "recording" => op'.digest # None
    BY <2>1, StageEndsTyped
  <2>. QED
    BY <2>2, <2>3, <2>4, <2>5 DEF TypeOK, HasTarget
<1>8. CASE MoveAside
  <2>1. packages' \in Contents
    BY <1>8, PackagesTyped DEF MoveAside
  <2>2. op.digest \in Digests
    BY <1>8 DEF MoveAside, TypeOK, HasTarget, Operations
  <2>3. op' \in Operations /\ op'.digest # None
    BY <1>8, <2>2, PositionTyped DEF MoveAside, TypeOK, Operations
  <2>. QED
    BY <1>8, <2>1, <2>2, <2>3 DEF MoveAside, hostVars, TypeOK, HasTarget
<1>9. CASE RepairFails
  <2>1. packages' \in Contents
    BY <1>9, PackagesTyped DEF RepairFails, PutInPlace, TypeOK
  <2>2. aside' \subseteq Digests /\ harmed' \subseteq Digests
    BY <1>9 DEF RepairFails, PutInPlace, TypeOK, Operations
  <2>. QED
    BY <1>9, <2>1, <2>2, OpsTyped DEF RepairFails, hostVars, TypeOK, HasTarget
<1>10. CASE RecordPending
  <2>1. entry' \in Entry
    BY <1>10 DEF RecordPending, TypeOK, Entry, Operations
  <2>2. HasTarget'
    BY <1>10, OpsTyped DEF RecordPending, hostVars, HasTarget
  <2>3. deferred' \subseteq Digests
    <3>1. op.digest \in Digests
      BY <1>10 DEF RecordPending, TypeOK, HasTarget, Operations
    <3>. QED
      BY <1>10, <3>1 DEF RecordPending, TypeOK
  <2>. QED
    BY <1>10, <2>1, <2>2, <2>3, OpsTyped DEF RecordPending, hostVars, TypeOK
<1>11. CASE RemoveLater
  <2>1. entry' \in Entry
    BY <1>11 DEF RemoveLater, TypeOK, Entry
  <2>2. host = "up"
    BY <1>11 DEF RemoveLater, IsIdle
  <2>. QED
    BY <1>11, <1>c, <2>1, <2>2 DEF RemoveLater, hostVars, TypeOK, HasTarget
<1>12. ASSUME NEW d \in Digests, Retry(d) PROVE TypeOK' /\ HasTarget'
  <2>1. host = "up" /\ UNCHANGED <<diskVars, host, running, proven, op, history, counters>>
    BY <1>12 DEF Retry, IsIdle
  <2>2. candidate' \in Candidates /\ candidate'.digest = d
    BY <1>12 DEF Retry, Candidates
  <2>. QED
    BY <1>12, <2>1, <2>2 DEF diskVars, TypeOK, HasTarget
<1>13. CASE LoadCandidate
  <2>1. candidate.digest \in Digests
    BY <1>13 DEF LoadCandidate, TypeOK, HasTarget, Candidates
  <2>2. candidate' \in Candidates /\ candidate'.digest # None
    BY <1>13 DEF LoadCandidate, TypeOK, HasTarget, Candidates
  <2>. QED
    BY <1>13, <2>1, <2>2 DEF LoadCandidate, diskVars, TypeOK, HasTarget
<1>14. CASE RejectCandidate
  <2>1. packages' \in Contents
    <3>1. [packages EXCEPT ![candidate.digest] = "none"] \in Contents
      BY PackagesTyped
    <3>. QED
      BY <1>14, <3>1 DEF RejectCandidate, TypeOK
  <2>2. candidate' \in Candidates
    BY <1>14 DEF RejectCandidate, NoCandidate, Candidates
  <2>. QED
    BY <1>14, <2>1, <2>2 DEF RejectCandidate, TypeOK, HasTarget
<1>15. CASE CommitInstall
  <2>. host = "up"
    BY <1>15 DEF CommitInstall, HasTarget, NoCandidate
  <2>1. entry' \in Entry /\ entry'.active # None
    BY <1>15 DEF CommitInstall, Retained, IsVerified, TypeOK, Entry
  <2>2. op' \in Operations /\ op'.at = "pruning"
    BY <1>15, OpsTyped DEF CommitInstall, NoOp
  <2>. QED
    BY <1>15, <2>1, <2>2 DEF CommitInstall, hostVars, TypeOK, HasTarget
<1>16. CASE ActivateCandidate
  <2>1. running' \in Digests \cup {None} /\ candidate' \in Candidates
    BY <1>16 DEF ActivateCandidate, TypeOK, Candidates, NoCandidate
  <2>. QED
    BY <1>16, <2>1, OpsTyped DEF ActivateCandidate, diskVars, TypeOK, HasTarget
<1>17. ASSUME NEW d \in Digests, Prune(d) \/ Damage(d) PROVE TypeOK' /\ HasTarget'
  <2>1. packages' \in Contents
    BY <1>17, PackagesTyped DEF Prune, Damage
  <2>2. damages' \in 0 .. MaxDamages /\ harmed' \subseteq Digests
    BY <1>17 DEF Prune, Damage, TypeOK
  <2>. QED
    BY <1>17, <2>1, <2>2 DEF Prune, Damage, hostVars, TypeOK, HasTarget
<1>18. CASE MoveOut
  <2>. host = "up" /\ candidate = NoCandidate
    BY <1>18 DEF MoveOut, IsIdle
  <2>1. op' \in Operations /\ op'.at = "removing" /\ packages' \in Contents
    BY <1>18, OpsTyped DEF MoveOut, TypeOK, NoOp, Emptied, Contents
  <2>. QED
    BY <1>18, <2>1 DEF MoveOut, hostVars, TypeOK, HasTarget
<1>19. CASE SaveRemoval
  <2>1. op' \in Operations /\ op'.at \in {"idle", "erasing"}
    <3>1. [op EXCEPT !.at = "erasing"].at = "erasing"
      BY DEF TypeOK, Operations
    <3>. QED
      BY <1>19, <3>1, OpsTyped, PositionTyped DEF SaveRemoval
  <2>2. entry' \in Entry /\ (entry' = entry \/ entry' = NoEntry)
    BY <1>19 DEF SaveRemoval, TypeOK, NoEntry, Entry
  <2>3. packages' \in Contents /\ aside' \subseteq Digests /\ harmed' \subseteq Digests
    BY <1>19 DEF SaveRemoval, TypeOK, Operations
  <2>4. trash' \subseteq Digests
    BY <1>19, HeldOutTyped DEF SaveRemoval, TypeOK
  <2>. QED
    BY <1>19, <2>1, <2>2, <2>3, <2>4 DEF SaveRemoval, hostVars, TypeOK, HasTarget
<1>20. CASE Erase
  BY <1>20, OpsTyped, HeldOutTyped DEF Erase, TypeOK, HasTarget
<1>21. CASE Crash
  <2>1. NoCandidate \in Candidates
    BY DEF NoCandidate, Candidates
  <2>2. crashes' \in 0 .. MaxCrashes
    BY <1>21 DEF Crash, TypeOK
  <2>. QED
    BY <1>21, <2>1, <2>2, OpsTyped, HeldOutTyped DEF Crash, TypeOK, HasTarget
<1>. QED
  BY <1>u, <1>1, <1>2, <1>3, <1>4, <1>5, <1>6, <1>7, <1>8, <1>9, <1>10, <1>11, <1>12, <1>13,
     <1>14, <1>15, <1>16, <1>17, <1>18, <1>19, <1>20, <1>21
  DEF Next, PrepareInstall, InstallLater

\* Every version recorded, staged, running or damaged is one, at every moment.
THEOREM StoreTyped == Spec => []TypeOK
<1>. QED
  BY InitTyped, NextTyped, PTL DEF Spec

---------------------------------------------------------------------------
LEMMA InitProven == Init => Proven
  BY DEF Init, Proven, NoEntry, Pointers, NoCandidate

\* What a start or a rollback points at was pointed at before.
LEMMA StartsPointBack ==
    ASSUME TypeOK
    PROVE  Pointers(Activated) \subseteq Pointers(entry) /\ Pointers(RolledBack) \subseteq Pointers(entry)
<1>1. Pointers(Applied) \subseteq Pointers(entry)
  BY DEF Applied, Pointers, TypeOK, Entry
<1>2. Pointers(Activated) \subseteq Pointers(Applied)
  BY AppliedTyped DEF Activated, Pointers, Entry
<1>3. Pointers(RolledBack) \subseteq Pointers(entry)
  BY DEF RolledBack, Pointers, TypeOK, Entry
<1>. QED
  BY <1>1, <1>2, <1>3

LEMMA NextProven == TypeOK /\ HasTarget /\ Proven /\ [Next]_vars => Proven'
<1> SUFFICES ASSUME TypeOK, HasTarget, Proven, [Next]_vars PROVE Proven'
  OBVIOUS
<1>p. Pointers(entry) \subseteq proven \cup deferred /\ entry \in Entry
  BY DEF Proven, TypeOK
<1>1. ASSUME Pointers(entry') \subseteq Pointers(entry), proven \subseteq proven', UNCHANGED deferred,
             candidate' = candidate \/ ~candidate'.loaded
      PROVE  Proven'
  BY <1>1 DEF Proven
<1>u. CASE UNCHANGED vars
  BY <1>1, <1>u DEF vars, diskVars, hostVars
<1>2. CASE Boot \/ SkipIncompatible \/ BackendStarts \/ RecoveryFails
  BY <1>1, <1>2 DEF Boot, SkipIncompatible, BackendStarts, RecoveryFails, diskVars
<1>3. CASE ActivatePending \/ Rollback
  <2>1. Pointers(entry') \subseteq Pointers(entry)
    BY <1>3, StartsPointBack DEF ActivatePending, Rollback
  <2>. QED
    BY <1>1, <1>3, <2>1 DEF ActivatePending, Rollback
\* Staging leaves the record alone, and the new candidate is not loaded.
<1>4. ASSUME NEW d, NEW later, StageEnds(d, later), UNCHANGED <<entry, proven, deferred>> PROVE Proven'
  BY <1>1, <1>4 DEF StageEnds, Prepared
<1>5. ASSUME NEW d \in Digests, NEW later \in BOOLEAN, BeginStage(d, later) PROVE Proven'
  BY <1>1, <1>4, <1>5 DEF BeginStage, diskVars
<1>6. CASE PublishStage \/ PublishRepair
  BY <1>4, <1>6 DEF PublishStage, PublishRepair
<1>7. CASE StageFails \/ MoveAside \/ RepairFails
  BY <1>1, <1>7 DEF StageFails, MoveAside, RepairFails, diskVars, hostVars
<1>8. CASE RecordPending
  <2>1. \/ UNCHANGED <<entry, deferred>>
        \/ entry' = [entry EXCEPT !.pending = op.digest] /\ deferred' = deferred \cup {op.digest}
    BY <1>8 DEF RecordPending
  <2>2. Pointers(entry') \subseteq proven \cup deferred'
    BY <1>p, <2>1 DEF Pointers, Entry
  <2>. QED
    BY <1>8, <2>2 DEF RecordPending, hostVars, Proven
<1>9. CASE RemoveLater
  <2>1. Pointers(entry') \subseteq Pointers(entry)
    BY <1>p, <1>9 DEF RemoveLater, Pointers, Entry
  <2>. QED
    BY <1>1, <1>9, <2>1 DEF RemoveLater, hostVars
<1>10. ASSUME NEW d \in Digests, Retry(d) PROVE Proven'
  BY <1>1, <1>10 DEF Retry, diskVars
<1>11. CASE LoadCandidate
  <2>1. candidate'.digest = candidate.digest
    BY <1>11 DEF LoadCandidate, TypeOK, Candidates
  <2>. QED
    BY <1>11, <2>1 DEF LoadCandidate, diskVars, Proven
<1>12. CASE RejectCandidate \/ ActivateCandidate \/ Crash
  BY <1>1, <1>12 DEF RejectCandidate, ActivateCandidate, Crash, diskVars, NoCandidate
\* The candidate was loaded; the version kept beside it was recorded.
<1>13. CASE CommitInstall
  <2>1. candidate.digest \in proven
    BY <1>13 DEF CommitInstall, Proven
  <2>2. Retained(candidate.digest) \in Pointers(entry) \cup {None}
    BY <1>p DEF Retained, IsVerified, Pointers, Entry
  <2>3. Pointers(entry') \subseteq {candidate.digest, Retained(candidate.digest)} \ {None}
    BY <1>13 DEF CommitInstall, Pointers
  <2>4. Pointers(entry') \subseteq proven \cup deferred
    BY <1>p, <2>1, <2>2, <2>3
  <2>. QED
    BY <1>13, <2>4 DEF CommitInstall, hostVars, Proven
<1>14. ASSUME NEW d \in Digests, Prune(d) \/ Damage(d) PROVE Proven'
  BY <1>1, <1>14 DEF Prune, Damage, hostVars
<1>15. CASE MoveOut \/ SaveRemoval \/ Erase
  <2>1. Pointers(entry') \subseteq Pointers(entry)
    BY <1>15 DEF MoveOut, SaveRemoval, Erase, NoEntry, Pointers
  <2>. QED
    BY <1>1, <1>15, <2>1 DEF MoveOut, SaveRemoval, Erase, hostVars
<1>. QED
  BY <1>u, <1>2, <1>3, <1>5, <1>6, <1>7, <1>8, <1>9, <1>10, <1>11, <1>12, <1>13, <1>14, <1>15
  DEF Next, PrepareInstall, InstallLater

\* A start never selects a version that was not loaded before, however often
\* the host crashes and whatever happens to the files, but the versions that
\* install() left to the next start.
THEOREM StartSelectsProven == Spec => []OnlyProvenIsRecorded
<1>1. TypeOK /\ HasTarget /\ Proven /\ [Next]_vars => (TypeOK /\ HasTarget /\ Proven)'
  BY NextTyped, NextProven
<1>2. Proven => OnlyProvenIsRecorded
  BY DEF Proven, OnlyProvenIsRecorded
<1>. QED
  BY InitTyped, InitProven, <1>1, <1>2, PTL DEF Spec
---------------------------------------------------------------------------
\* What is not intact was harmed, or is not in place yet; a repair has put aside
\* the one version that it works on.
Kept ==
    /\ \A d \in Digests : packages[d] = "damaged" => d \in harmed
    /\ op.at = "staging" => packages[op.digest] # "intact"
    /\ op.at = "aside" => op.digest \in harmed /\ aside = op.stray \cup {op.digest}
    /\ op.at = "recording" => packages[op.digest] # "none"

\* A removal moves out everything there is, and until the record is gone it
\* counts as harm to what the record points at.
Moved ==
    /\ op.at = "erasing" => entry = NoEntry
    /\ op.at = "removing" =>
          /\ packages = Emptied /\ aside = {}
          /\ Pointers(entry) \subseteq harmed
          /\ \A d \in Digests : op.files[d] = "damaged" => d \in harmed

\* The version that runs is the recorded one, but while a candidate takes over
\* from it; the record then keeps it as the rollback package, if it is intact.
Running ==
    /\ running # None => host = "up"
    /\ running # None /\ op.at \notin {"pruning", "erasing"} => running = entry.active
    /\ op.at = "pruning" => candidate.digest = entry.active /\ candidate.digest \in Digests
    /\ op.at = "pruning" /\ running # None => running \in Pointers(entry) \cup harmed

StandsInv == Kept /\ Moved /\ PointersHavePackages /\ Running

LEMMA InitStands == Init => StandsInv
  BY DEF Init, StandsInv, Kept, Moved, PointersHavePackages, Running, NoEntry, Pointers, Emptied, NoOp

LEMMA NoOpFields == NoOp.at = "idle" /\ (\A at : [NoOp EXCEPT !.at = at].at = at)
    /\ \A d : /\ [NoOp EXCEPT !.at = "recording", !.digest = d].at = "recording"
              /\ [NoOp EXCEPT !.at = "recording", !.digest = d].digest = d
  BY DEF NoOp

LEMMA PointersTyped == TypeOK => Pointers(entry) \subseteq Digests
  BY DEF TypeOK, Entry, Pointers

\* No removal is under way: what earlier ones moved out is all that is held.
LEMMA HeldAtRest == op.at \notin {"removing", "erasing"} => HeldOut = trash
  BY DEF HeldOut

\* Nothing but a version that takes over, and a removal, ends what runs.
LEMMA StandsRest ==
    ASSUME StandsInv, UNCHANGED <<packages, aside, trash, op, harmed>>,
           Pointers(entry') \subseteq Pointers(entry), entry' = entry \/ op.at = "idle",
           candidate' = candidate \/ op.at = "idle",
           running' = None \/ (running' = entry'.active /\ host' = "up" /\ op.at = "idle")
              \/ (running' = running /\ host' = host /\ entry' = entry)
    PROVE  StandsInv'
<1>1. Kept'
  BY DEF StandsInv, Kept
<1>2. Moved'
  BY DEF StandsInv, Moved
<1>3. PointersHavePackages'
  BY DEF StandsInv, PointersHavePackages, HeldOut
<1>4. Running'
  BY DEF StandsInv, Running
<1>. QED
  BY <1>1, <1>2, <1>3, <1>4 DEF StandsInv

\* One version is in place with its own files, and the operation on it goes on
\* or is over; another repair's original is not touched.
LEMMA StageEndsStands ==
    ASSUME TypeOK, StandsInv, NEW d \in Digests, NEW later \in BOOLEAN, StageEnds(d, later), host = "up",
           op.at \in {"idle", "staging", "aside"}, UNCHANGED <<entry, trash, host, running>>,
           packages'[d] = "intact", harmed' = harmed \ {d} \/ harmed' = harmed,
           \A e \in Digests : e = d \/ packages'[e] = packages[e],
           aside \subseteq aside' \cup {d}
    PROVE  StandsInv'
<1>1. op'.at = "idle" \/ (op'.at = "recording" /\ op'.digest = d)
  <2>1. CASE later
    <3>1. op' = [NoOp EXCEPT !.at = "recording", !.digest = d]
      BY <2>1 DEF StageEnds
    <3>2. PICK prepared : prepared = [NoOp EXCEPT !.at = "recording", !.digest = d]
      OBVIOUS
    <3>3. prepared.at = "recording" /\ prepared.digest = d
      BY <3>2, NoOpFields, Zenon
    <3>. QED
      BY <3>1, <3>2, <3>3, Zenon
  <2>2. CASE ~later
    BY <2>2, NoOpFields, Zenon DEF StageEnds, Prepared
  <2>. QED
    BY <2>1, <2>2
<1>2. Kept'
  BY <1>1 DEF StandsInv, Kept
<1>3. Moved'
  BY <1>1 DEF StandsInv, Moved
<1>4. PointersHavePackages'
  <2>1. HeldOut = trash /\ HeldOut' = trash'
    BY <1>1 DEF HeldOut
  <2>2. \A e \in Pointers(entry) : e = d \/ e \in Digests \ {d}
    BY PointersTyped
  <2>. QED
    BY <2>1, <2>2 DEF StandsInv, PointersHavePackages
<1>5. Running'
  BY <1>1 DEF StandsInv, Running
<1>. QED
  BY <1>2, <1>3, <1>4, <1>5 DEF StandsInv

LEMMA NextStands == TypeOK /\ HasTarget /\ StandsInv /\ [Next]_vars => StandsInv'
<1> SUFFICES ASSUME TypeOK, HasTarget, StandsInv, [Next]_vars PROVE StandsInv'
  OBVIOUS
<1>p. /\ Pointers(entry) \subseteq Digests /\ entry \in Entry /\ packages \in Contents
      /\ aside \subseteq Digests /\ harmed \subseteq Digests
  BY PointersTyped DEF TypeOK
<1>u. CASE UNCHANGED vars
  BY <1>u, StandsRest DEF vars, diskVars, hostVars
<1>1. CASE Boot \/ SkipIncompatible \/ RecoveryFails
  <2>1. running = None
    BY <1>1 DEF Boot, SkipIncompatible, RecoveryFails, StandsInv, Running
  <2>. QED
    BY <1>1, <2>1, StandsRest DEF Boot, SkipIncompatible, RecoveryFails, diskVars
<1>2. CASE ActivatePending \/ Rollback
  <2>1. op.at = "idle" /\ UNCHANGED <<packages, aside, trash, op, harmed, candidate>>
    BY <1>2, NoOpFields DEF ActivatePending, Rollback, HasTarget, IsIdle
  <2>2. Pointers(entry') \subseteq Pointers(entry)
    BY <1>2, StartsPointBack DEF ActivatePending, Rollback
  <2>3. running' = None \/ (running' = running /\ host' = host /\ entry' = entry)
    BY <1>2 DEF ActivatePending, Rollback, StandsInv, Running, IsIdle
  <2>. QED
    BY <2>1, <2>2, <2>3, StandsRest
<1>3. CASE BackendStarts
  <2>1. op.at = "idle"
    BY <1>3 DEF BackendStarts, HasTarget
  <2>. QED
    BY <1>3, <2>1, StandsRest DEF BackendStarts, diskVars
<1>4. ASSUME NEW d \in Digests, NEW later \in BOOLEAN, BeginStage(d, later)
      PROVE  StandsInv'
  <2>1. op.at = "idle" /\ host = "up" /\ UNCHANGED <<entry, packages, aside, trash, host, running, harmed>>
    BY <1>4, NoOpFields DEF BeginStage, diskVars, IsIdle
  <2>2. CASE IsVerified(d) /\ StageEnds(d, later)
    BY <1>4, <2>1, <2>2, StageEndsStands DEF IsVerified
  <2>3. CASE ~IsVerified(d) /\ op' = [NoOp EXCEPT !.at = "staging", !.digest = d, !.later = later]
             /\ candidate' = candidate
    <3>1. op'.at = "staging" /\ op'.digest = d
      BY <2>3 DEF NoOp
    <3>2. packages[d] # "intact"
      BY <2>3 DEF IsVerified
    <3>3. HeldOut = trash /\ HeldOut' = trash'
      BY <2>1, <3>1 DEF HeldOut
    <3>. QED
      BY <2>1, <3>1, <3>2, <3>3 DEF StandsInv, Kept, Moved, PointersHavePackages, Running
  <2>. QED
    BY <1>4, <2>2, <2>3 DEF BeginStage
<1>5. CASE StageFails
  <2>1. op'.at = "idle" /\ op.at = "staging"
        /\ UNCHANGED <<entry, packages, aside, trash, host, running, harmed, candidate>>
    BY <1>5, NoOpFields DEF StageFails, diskVars, hostVars
  <2>2. HeldOut = trash /\ HeldOut' = trash'
    BY <2>1 DEF HeldOut
  <2>. QED
    BY <2>1, <2>2 DEF StandsInv, Kept, Moved, PointersHavePackages, Running
<1>6. CASE PublishStage \/ PublishRepair
  <2>1. op.digest \in Digests /\ host = "up" /\ op.later \in BOOLEAN
    BY <1>6 DEF PublishStage, PublishRepair, HasTarget, TypeOK, Operations
  <2>2. packages' = [packages EXCEPT ![op.digest] = "intact"] /\ harmed' = harmed \ {op.digest}
    BY <1>6 DEF PublishStage, PublishRepair, PutInPlace
  <2>3. packages'[op.digest] = "intact" /\ \A e \in Digests : e = op.digest \/ packages'[e] = packages[e]
    BY <1>p, <2>1, <2>2 DEF Contents
  <2>4. StageEnds(op.digest, op.later) /\ UNCHANGED <<entry, trash, host, running>>
        /\ op.at \in {"staging", "aside"}
    BY <1>6 DEF PublishStage, PublishRepair
  <2>5. aside \subseteq aside' \cup {op.digest}
    BY <1>6 DEF PublishStage, PublishRepair, StandsInv, Kept
  <2> DEFINE d == op.digest
             later == op.later
  <2>6. d \in Digests /\ later \in BOOLEAN /\ StageEnds(d, later)
        /\ packages'[d] = "intact" /\ \A e \in Digests : e = d \/ packages'[e] = packages[e]
    BY <2>1, <2>3, <2>4
  <2>7. harmed' = harmed \ {d} /\ aside \subseteq aside' \cup {d}
    BY <2>2, <2>5
  <2> HIDE DEF d, later
  <2>. QED
    BY <2>1, <2>4, <2>6, <2>7, StageEndsStands
\* The original is beside the place it was moved from.
<1>7. CASE MoveAside
  <2>1. /\ op.at = "staging" /\ op'.at = "aside" /\ op'.digest = op.digest /\ op'.stray = aside
        /\ UNCHANGED <<entry, trash, host, running, harmed, candidate>>
    BY <1>7 DEF MoveAside, hostVars, TypeOK, Operations
  <2>2. op.digest \in Digests /\ packages[op.digest] = "damaged"
    BY <1>7, <1>p DEF MoveAside, HasTarget, TypeOK, Operations, StandsInv, Kept, Contents
  <2>3. \A e \in Digests : packages'[e] = IF e = op.digest THEN "none" ELSE packages[e]
    BY <1>7, <1>p DEF MoveAside, Contents
  <2>4. aside' = aside \cup {op.digest}
    BY <1>7 DEF MoveAside
  <2>5. HeldOut = trash /\ HeldOut' = trash'
    BY <2>1 DEF HeldOut
  <2>6. Kept'
    BY <2>1, <2>2, <2>3, <2>4 DEF StandsInv, Kept
  <2>7. PointersHavePackages'
    BY <1>p, <2>1, <2>2, <2>3, <2>4, <2>5 DEF StandsInv, Kept, PointersHavePackages
  <2>. QED
    BY <2>1, <2>6, <2>7 DEF StandsInv, Moved, Running
<1>8. CASE RepairFails
  <2>1. /\ op.at = "aside" /\ op'.at = "idle"
        /\ UNCHANGED <<entry, trash, host, running, candidate>>
    BY <1>8, NoOpFields DEF RepairFails, hostVars
  <2>2. op.digest \in Digests /\ op.digest \in harmed /\ aside = op.stray \cup {op.digest}
    BY <2>1 DEF HasTarget, TypeOK, Operations, StandsInv, Kept
  <2>3. \/ packages' = [packages EXCEPT ![op.digest] = "damaged"] /\ aside' = op.stray /\ harmed' = harmed
        \/ packages' = packages /\ aside' = aside /\ harmed' = harmed
        \/ packages' = [packages EXCEPT ![op.digest] = "intact"] /\ aside' = aside /\ harmed' = harmed \ {op.digest}
    BY <1>8 DEF RepairFails, PutInPlace
  <2>4. \A e \in Digests : e = op.digest \/ packages'[e] = packages[e]
    BY <1>p, <2>3 DEF Contents
  <2>5. \/ packages'[op.digest] = "damaged" /\ harmed' = harmed
        \/ packages' = packages /\ aside' = aside /\ harmed' = harmed
        \/ packages'[op.digest] = "intact" /\ harmed' = harmed \ {op.digest}
    BY <1>p, <2>2, <2>3 DEF Contents
  <2>6. aside \subseteq aside' \cup {op.digest} /\ harmed \subseteq harmed' \cup {op.digest}
    BY <2>2, <2>3
  <2>7. HeldOut = trash /\ HeldOut' = trash'
    BY <2>1 DEF HeldOut
  <2>8. Kept'
    BY <2>1, <2>2, <2>4, <2>5, <2>6 DEF StandsInv, Kept
  <2>9. PointersHavePackages'
    BY <1>p, <2>1, <2>2, <2>4, <2>5, <2>6, <2>7 DEF StandsInv, PointersHavePackages
  <2>. QED
    BY <2>1, <2>8, <2>9 DEF StandsInv, Moved, Running
<1>9. CASE RecordPending
  <2>1. /\ op.at = "recording" /\ op'.at = "idle" /\ entry'.active = entry.active
        /\ UNCHANGED <<packages, aside, trash, host, running, harmed, candidate>>
    BY <1>9, <1>p, NoOpFields DEF RecordPending, hostVars, Entry
  <2>2. Pointers(entry') \subseteq Pointers(entry) \union {op.digest}
    BY <1>9, <1>p DEF RecordPending, Pointers, Entry
  <2>3. op.digest \in Digests /\ packages[op.digest] \in {"intact", "damaged"}
    BY <1>p, <2>1 DEF HasTarget, TypeOK, Operations, StandsInv, Kept, Contents
  <2>4. HeldOut = trash /\ HeldOut' = trash'
    BY <2>1 DEF HeldOut
  <2>5. PointersHavePackages'
    BY <2>1, <2>2, <2>3, <2>4 DEF StandsInv, Kept, PointersHavePackages
  <2>. QED
    BY <2>1, <2>5 DEF StandsInv, Kept, Moved, Running
<1>10. CASE RemoveLater
  <2>1. /\ op.at = "idle" /\ entry'.active = entry.active
        /\ UNCHANGED <<packages, aside, trash, host, running, harmed, candidate, op>>
    BY <1>10, <1>p, NoOpFields DEF RemoveLater, Defer, IsIdle, hostVars, Entry
  <2>2. Pointers(entry') \subseteq Pointers(entry)
    BY <1>10, <1>p DEF RemoveLater, Pointers, Entry
  <2>3. HeldOut' = HeldOut
    BY <2>1 DEF HeldOut
  <2>. QED
    BY <2>1, <2>2, <2>3 DEF StandsInv, Kept, Moved, Running, PointersHavePackages
<1>11. ASSUME NEW d \in Digests, Retry(d)
       PROVE  StandsInv'
  <2>1. op.at = "idle"
    BY <1>11, NoOpFields DEF Retry, IsIdle
  <2>. QED
    BY <1>11, <2>1, StandsRest DEF Retry, diskVars
<1>12. CASE LoadCandidate
  <2>1. op.at = "idle"
    BY <1>12, NoOpFields DEF LoadCandidate
  <2>. QED
    BY <1>12, <2>1, StandsRest DEF LoadCandidate, diskVars
\* A package that is deleted is not one that the record points at.
<1>13. ASSUME NEW d, d \notin Pointers(entry), packages' = [packages EXCEPT ![d] = "none"],
              UNCHANGED <<entry, aside, trash, host, running, op, harmed>>, op.at \in {"idle", "pruning"},
              candidate' = candidate \/ op.at = "idle"
       PROVE  StandsInv'
  <2>1. \A e \in Digests : packages'[e] = packages[e] \/ packages'[e] = "none"
    BY <1>p, <1>13 DEF Contents
  <2>2. \A e \in Pointers(entry) : packages'[e] = packages[e]
    BY <1>p, <1>13 DEF Contents
  <2>3. HeldOut' = HeldOut
    BY <1>13 DEF HeldOut
  <2>. QED
    BY <1>13, <2>1, <2>2, <2>3 DEF StandsInv, Kept, Moved, Running, PointersHavePackages
<1>14. CASE RejectCandidate
  <2>1. op.at = "idle" /\ UNCHANGED <<entry, aside, trash, host, running, op, harmed>>
    BY <1>14, NoOpFields DEF RejectCandidate
  <2>2. CASE candidate.digest \notin Pointers(entry) /\ packages' = [packages EXCEPT ![candidate.digest] = "none"]
    BY <1>13, <2>1, <2>2
  <2>3. CASE packages' = packages
    BY <2>1, <2>3, StandsRest
  <2>. QED
    BY <1>14, <2>2, <2>3 DEF RejectCandidate
\* The version that runs is kept as the rollback package.
<1>15. CASE CommitInstall
  <2> DEFINE d == candidate.digest
  <2>1. /\ op.at = "idle" /\ op'.at = "pruning"
        /\ UNCHANGED <<packages, aside, trash, host, running, harmed, candidate>>
        /\ IsVerified(d)
    BY <1>15, NoOpFields DEF CommitInstall, hostVars
  <2>2. entry'.active = d /\ entry'.previous = Retained(d) /\ Pointers(entry') = {d, Retained(d)} \ {None, Removal}
    BY <1>15 DEF CommitInstall, Pointers
  <2>3. Retained(d) = None \/ IsVerified(Retained(d))
    BY DEF Retained
  <2>4. \A e \in Pointers(entry') : packages'[e] = "intact"
    BY <2>1, <2>2, <2>3 DEF IsVerified
  <2>5. running # None => running \in Pointers(entry') \cup harmed
    <3> SUFFICES ASSUME running # None, running \notin harmed PROVE running \in Pointers(entry')
      OBVIOUS
    <3>1. running = entry.active /\ entry.active \in Pointers(entry) /\ packages[entry.active] = "intact"
      BY <1>p, <2>1 DEF StandsInv, Running, PointersHavePackages, Pointers, Entry
    <3>2. entry.active \in {d, Retained(d)}
      BY <1>p, <3>1 DEF Retained, IsVerified
    <3>. QED
      BY <1>p, <2>2, <3>1, <3>2 DEF Pointers
  <2>. QED
    BY <2>1, <2>2, <2>4, <2>5 DEF StandsInv, Kept, Moved, Running, PointersHavePackages, IsVerified
<1>16. CASE ActivateCandidate
  <2>1. /\ op.at = "pruning" /\ op'.at = "idle" /\ running' = candidate.digest
        /\ UNCHANGED <<entry, packages, aside, trash, host, harmed>>
    BY <1>16, NoOpFields DEF ActivateCandidate, diskVars
  <2>2. host = "up"
    BY <2>1 DEF HasTarget
  <2>3. HeldOut = trash /\ HeldOut' = trash'
    BY <2>1 DEF HeldOut
  <2>. QED
    BY <2>1, <2>2, <2>3 DEF StandsInv, Kept, Moved, Running, PointersHavePackages
<1>17. ASSUME NEW d \in Digests, Prune(d)
       PROVE  StandsInv'
  <2>1. op.at = "pruning" /\ d \notin Pointers(entry) /\ packages' = [packages EXCEPT ![d] = "none"]
        /\ UNCHANGED <<entry, aside, trash, host, running, op, harmed, candidate>>
    BY <1>17 DEF Prune, Obsolete, hostVars
  <2>. QED
    BY <1>13, <2>1
\* Everything goes out, and everything that was there is held.
<1>18. CASE MoveOut
  <2>1. /\ op.at = "idle" /\ op'.at = "removing" /\ op'.files = packages /\ op'.stray = aside
        /\ UNCHANGED <<entry, trash, host, running, candidate>>
    BY <1>18, NoOpFields DEF MoveOut, IsIdle, hostVars, NoOp
  <2>2. packages' = Emptied /\ aside' = {} /\ harmed' = harmed \cup {d \in Digests : packages[d] # "none"}
    BY <1>18 DEF MoveOut
  <2>3. HeldOut = trash /\ HeldOut' = trash \cup aside \cup {d \in Digests : packages[d] # "none"}
    BY <2>1 DEF HeldOut
  <2>4. Pointers(entry) \subseteq harmed' /\ Pointers(entry) \subseteq HeldOut'
    BY <1>p, <2>2, <2>3 DEF StandsInv, PointersHavePackages
  <2>5. PointersHavePackages'
    BY <2>1, <2>4 DEF PointersHavePackages
  <2>6. Kept'
    BY <2>1, <2>2 DEF Kept, Emptied
  <2>7. Moved'
    BY <2>1, <2>2, <2>4 DEF Moved
  <2>. QED
    BY <2>1, <2>5, <2>6, <2>7 DEF StandsInv, Running
<1>19. CASE SaveRemoval
  <2>1. op.at = "removing" /\ UNCHANGED <<host, running, candidate>>
    BY <1>19 DEF SaveRemoval, hostVars
  <2>2. CASE entry' = NoEntry /\ op' = [op EXCEPT !.at = "erasing"] /\ UNCHANGED <<packages, aside, trash, harmed>>
    <3>1. op'.at = "erasing" /\ Pointers(entry') = {}
      BY <2>2 DEF NoEntry, Pointers, TypeOK, Operations
    <3>. QED
      BY <2>1, <2>2, <3>1 DEF StandsInv, Kept, Moved, PointersHavePackages, Running
  <2>3. CASE /\ packages' = op.files /\ aside' = op.stray /\ harmed' = {d \in harmed : op.files[d] # "intact"}
             /\ op' = NoOp /\ UNCHANGED <<entry, trash>>
    <3>1. op'.at = "idle"
      BY <2>3, NoOpFields
    <3>2. HeldOut = trash \cup op.stray \cup {d \in Digests : op.files[d] # "none"} /\ HeldOut' = trash
      BY <2>1, <2>3, <3>1 DEF HeldOut
    <3>3. \A d \in Pointers(entry) : d \in harmed /\ d \in HeldOut
      BY <1>p, <2>1 DEF StandsInv, Moved, PointersHavePackages, Emptied
    <3>4. PointersHavePackages'
      BY <1>p, <2>3, <3>2, <3>3 DEF PointersHavePackages
    <3>5. Kept'
      BY <2>1, <2>3, <3>1 DEF StandsInv, Kept, Moved
    <3>. QED
      BY <2>1, <2>3, <3>1, <3>4, <3>5 DEF StandsInv, Moved, Running
  <2>4. CASE trash' = HeldOut /\ op' = NoOp /\ UNCHANGED <<entry, packages, aside, harmed>>
    <3>1. op'.at = "idle"
      BY <2>4, NoOpFields
    <3>2. HeldOut' = HeldOut
      BY <2>4, <3>1 DEF HeldOut
    <3>. QED
      BY <2>1, <2>4, <3>1, <3>2 DEF StandsInv, Kept, Moved, PointersHavePackages, Running
  <2>. QED
    BY <1>19, <2>2, <2>3, <2>4 DEF SaveRemoval
<1>20. CASE Erase
  <2>1. op.at = "erasing" /\ op'.at = "idle" /\ running' = None /\ UNCHANGED <<entry, packages, aside, harmed>>
    BY <1>20, NoOpFields DEF Erase
  <2>2. Pointers(entry) = {}
    BY <2>1 DEF StandsInv, Moved, NoEntry, Pointers
  <2>. QED
    BY <2>1, <2>2 DEF StandsInv, Kept, Moved, PointersHavePackages, Running
\* Whatever a crash interrupts is still on disk: a removal's directory is held, a
\* repair's original is aside.
<1>21. CASE Crash
  <2>1. op'.at = "idle" /\ running' = None /\ UNCHANGED <<entry, packages, aside, harmed>>
        /\ trash' = HeldOut
    BY <1>21, NoOpFields DEF Crash
  <2>2. HeldOut' = HeldOut
    BY <2>1 DEF HeldOut
  <2>. QED
    BY <2>1, <2>2 DEF StandsInv, Kept, Moved, PointersHavePackages, Running
<1>22. ASSUME NEW d \in Digests, Damage(d)
       PROVE  StandsInv'
  <2>1. packages[d] = "intact" /\ harmed' = harmed \cup {d}
        /\ UNCHANGED <<entry, aside, trash, host, running, op, candidate>>
    BY <1>22 DEF Damage, hostVars
  <2>2. \A e \in Digests : packages'[e] = IF e = d THEN "damaged" ELSE packages[e]
    BY <1>22, <1>p DEF Damage, Contents
  <2>3. op.at # "removing"
    BY <2>1 DEF StandsInv, Moved, Emptied
  <2>4. HeldOut' = HeldOut
    BY <2>1 DEF HeldOut
  <2>5. Kept'
    <3>1. op.at \in {"staging", "recording"} => op.digest \in Digests
      BY DEF HasTarget, TypeOK, Operations
    <3>. QED
      BY <2>1, <2>2, <3>1 DEF StandsInv, Kept
  <2>6. PointersHavePackages'
    BY <1>p, <2>1, <2>2, <2>4 DEF StandsInv, PointersHavePackages
  <2>. QED
    BY <2>1, <2>3, <2>5, <2>6 DEF StandsInv, Moved, Running
<1>23. ASSUME NEW d \in Digests, PrepareInstall(d) \/ InstallLater(d)
       PROVE  StandsInv'
  BY <1>4, <1>23 DEF PrepareInstall, InstallLater
<1>. QED
  BY <1>u, <1>1, <1>2, <1>3, <1>5, <1>6, <1>7, <1>8, <1>9, <1>10, <1>11, <1>12, <1>14, <1>15, <1>16, <1>17,
     <1>18, <1>19, <1>20, <1>21, <1>22, <1>23
  DEF Next

LEMMA StandsInvariant == Spec => [](TypeOK /\ StandsInv)
<1>1. TypeOK /\ HasTarget /\ StandsInv /\ [Next]_vars => (TypeOK /\ HasTarget /\ StandsInv)'
  BY NextTyped, NextStands
<1>. QED
  BY InitTyped, InitStands, <1>1, PTL DEF Spec

\* For any number of versions, crashes, damages and failed file operations: no step,
\* and no crash in the middle of a removal or of a repair, loses a package that the
\* record points at. It is in place, or where a repair or a removal moved it, and it
\* is in place and intact unless that very version was damaged, or moved out by a
\* removal that left the record.
THEOREM RecordHasItsPackages == Spec => []PointersHavePackages
<1>1. StandsInv => PointersHavePackages
  BY DEF StandsInv
<1>. QED
  BY <1>1, StandsInvariant, PTL

\* The version that runs is the one that a restart would start, and no commit,
\* rejection or pruning deletes its files: only damage to that very version, or a
\* removal that failed, costs it its package.
THEOREM RunningVersionStands == Spec => []RunningStands
<1>1. TypeOK /\ StandsInv => RunningStands
  <2> SUFFICES ASSUME TypeOK, StandsInv PROVE RunningStands
    OBVIOUS
  <2>1. RunningIsRecorded
    BY NoOpFields DEF StandsInv, Running, RunningIsRecorded, IsIdle
  <2>2. RunningKeepsItsFiles
    <3> SUFFICES ASSUME running # None, op.at \notin {"removing", "erasing"}
                 PROVE  packages[running] = "intact" \/ running \in harmed
      BY DEF RunningKeepsItsFiles
    <3>1. running \in Pointers(entry) \cup harmed
      BY DEF StandsInv, Running, Pointers, TypeOK
    <3>. QED
      BY <3>1 DEF StandsInv, PointersHavePackages
  <2>. QED
    BY <2>1, <2>2 DEF RunningStands
<1>. QED
  BY <1>1, StandsInvariant, PTL
=============================================================================
