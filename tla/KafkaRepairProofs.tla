------------------------- MODULE KafkaRepairProofs --------------------------
(***************************************************************************)
(* For any number of records, plans, continuations, crashes and failed     *)
(* commits: what a continuation may send was never dispatched, a replay    *)
(* and a recovery task never use the history at once, and no replay loses  *)
(* its destination while it sends.                                         *)
(*                                                                         *)
(* The first invariant says that the document on the disk and the one that *)
(* is being committed both keep the shape of the history: either may be    *)
(* the one that a restarted host finds. The second one follows the         *)
(* connections that reviews and plans hold. Before them come the types of  *)
(* the replays, of their history and of the recovery, and the changes of   *)
(* the history: a job that moves on, a chain that begins, continues, goes. *)
(*                                                                         *)
(* Last, the history implements the ledger: a commit lands in one step, so *)
(* while it is under way an invariant says which step of the ledger it     *)
(* will be; and a receipt says what the broker said.                       *)
(***************************************************************************)
EXTENDS KafkaRepairProperties, TLAPS

USE JournalAssumption, RepairAssumption

---------------------------------------------------------------------------
\* Types.

LEMMA NoJobTyped == NoJob \in Job
  BY DEF NoJob, Job

LEMMA NextIndexTyped ==
    ASSUME NEW job \in Job
    PROVE  NextIndex(job) \in Nat
  BY DEF NextIndex, Job

LEMMA JobChanged ==
    ASSUME NEW job \in Job
    PROVE  /\ \A b \in BOOLEAN : [job EXCEPT !.pending = b] \in Job
           /\ \A o \in Outcomes :
                 [job EXCEPT !.pending = FALSE, !.outcomes = Append(@, o)] \in Job
           /\ \A s \in {"running", "stopped", "complete", "archived"} :
                 [job EXCEPT !.status = s] \in Job
           /\ \A i \in Ids : [job EXCEPT !.continuation = i] \in Job
           /\ [job EXCEPT !.findings = @ + 1] \in Job
<1>1. ASSUME NEW o \in Outcomes
      PROVE  [job EXCEPT !.pending = FALSE, !.outcomes = Append(@, o)] \in Job
  <2>1. Append(job.outcomes, o) \in Seq(Outcomes)
    BY DEF Job
  <2>. QED
    BY <2>1 DEF Job
<1>2. \A s \in {"running", "stopped", "complete", "archived"} : [job EXCEPT !.status = s] \in Job
  BY DEF Job
<1>3. \A i \in Ids : [job EXCEPT !.continuation = i] \in Job
  BY DEF Job
<1>4. [job EXCEPT !.findings = @ + 1] \in Job
  <2>1. job.findings + 1 \in Nat
    BY DEF Job
  <2>. QED
    BY <2>1 DEF Job
<1>5. \A b \in BOOLEAN : [job EXCEPT !.pending = b] \in Job
  BY DEF Job
<1>. QED
  BY <1>1, <1>2, <1>3, <1>4, <1>5

LEMMA MutateTyped ==
    ASSUME TypeOK, NEW document \in [Ids -> Job], Mutate(document)
    PROVE  /\ {disk', next'} \subseteq [Ids -> Job]
           /\ writing' \in {"idle", "started", "landed"} /\ fenced' \in BOOLEAN
  BY DEF TypeOK, JournalTyped, Mutate

LEMMA UpdateTyped ==
    ASSUME TypeOK, NEW id \in Ids, NEW job \in Job, Update(id, job)
    PROVE  JournalTyped'
  BY DEF TypeOK, JournalTyped, Update, Mutate

LEMMA BeginTyped ==
    ASSUME TypeOK, NEW id \in Ids, NEW parent \in Ids \union {None}, NEW snapshot \in Job,
           Begin(id, parent, snapshot, Active)
    PROVE  JournalTyped'
<1> DEFINE child == [NoJob EXCEPT !.status = "running",
                                  !.root = IF parent = None THEN id ELSE snapshot.root,
                                  !.first = NextIndex(snapshot), !.parent = parent]
           added == [disk EXCEPT ![id] = child]
<1>1. child \in Job
  <2>1. (IF parent = None THEN id ELSE snapshot.root) \in Ids \union {None}
    BY DEF Job
  <2>2. NextIndex(snapshot) \in Nat
    BY NextIndexTyped
  <2>3. PICK job \in Job : job = NoJob
    BY NoJobTyped
  <2>4. \A root \in Ids \union {None}, first \in Nat :
           [job EXCEPT !.status = "running", !.root = root, !.first = first, !.parent = parent] \in Job
    BY ZenonT(30) DEF Job
  <2>. QED
    BY <2>1, <2>2, <2>3, <2>4, Zenon
<1>2. added \in [Ids -> Job]
  BY <1>1 DEF TypeOK, JournalTyped
<1>3. parent \in Ids => [added EXCEPT ![parent].continuation = id] \in [Ids -> Job]
  BY <1>2, JobChanged
<1>4. \E document \in [Ids -> Job] : Mutate(document)
  <2> HIDE DEF added, child
  <2>1. parent = None => Mutate(added)
    BY DEF Begin, added, child
  <2>2. parent # None => Mutate([added EXCEPT ![parent].continuation = id])
    BY DEF Begin, added, child
  <2>. QED
    BY <1>2, <1>3, <2>1, <2>2
<1>. QED
  BY <1>4, MutateTyped DEF JournalTyped

LEMMA ArchiveTyped ==
    ASSUME TypeOK, NEW root \in Ids, Archive(root, Active)
    PROVE  JournalTyped'
<1> DEFINE document == [i \in Ids |-> IF i \in Chain(disk, root)
                                      THEN [disk[i] EXCEPT !.status = "archived"] ELSE disk[i]]
<1>1. document \in [Ids -> Job]
  BY JobChanged DEF TypeOK, JournalTyped
<1>2. Mutate(document)
  BY DEF Archive
<1>. QED
  BY <1>1, <1>2, MutateTyped DEF JournalTyped

---------------------------------------------------------------------------
\* Types of the whole, component by component.
Plan == [phase : {"unused", "opening", "checking", "evicting", "discarding", "published", "gone"},
         valid : BOOLEAN,
         target : {"none", "open", "closing", "closed", "failed"},
         applied : BOOLEAN, victim : Ids \union {None},
         parent : Ids \union {None}, snapshot : Job]
LinkedPlan == {p \in Plan : p.parent = None => p.snapshot = NoJob}
Op == {o \in [step : {"idle", "begin", "beginning", "checking", "intending", "sent", "receipt",
                      "recording", "clear", "clearing", "closing", "finishing"},
              id : Ids \union {None}, index : Nat, started : BOOLEAN, complete : BOOLEAN,
              outcome : Outcomes] : o.step # "idle" => o.id \in Ids}
Task == {t \in [step : {"idle", "loading", "reviewing", "observing", "recording", "committing"},
                kind : {"continue", "reconcile", "archive"}, job : Ids \union {None},
                plan : Ids \union {None}, snapshot : Job] : t.step # "idle" => t.job \in Ids}
PlansTyped == plan \in [Ids -> LinkedPlan]

BrokerTyped == /\ sends \in [Records -> Nat]
               /\ broker \in [Records -> {"none", "acknowledged", "rejected"}]
BoundsTyped == bounds \in [plans : Nat, crashes : Nat,
                           calls : SUBSET {"continue", "reconcile", "archive", "invalidate"}]

LEMMA TypesSplit ==
    TypeOK <=> JournalTyped /\ PlansTyped /\ plans \in Seq(Ids) /\ op \in Op /\ rec \in Task /\ BrokerTyped
               /\ BoundsTyped
<1>1. PlansTyped <=> PlanTyped /\ \A i \in Ids : plan[i].parent = None => plan[i].snapshot = NoJob
  BY DEF PlansTyped, PlanTyped, LinkedPlan, Plan
<1>2. op \in Op <=> OpTyped /\ (op.step # "idle" => op.id \in Ids)
  BY DEF Op, OpTyped
<1>3. rec \in Task <=> TaskTyped /\ (rec.step # "idle" => rec.job \in Ids)
  BY DEF Task, TaskTyped
<1>. QED
  BY <1>1, <1>2, <1>3 DEF TypeOK, WorkTyped, BrokerTyped, BoundsTyped

LEMMA PlanForms ==
    ASSUME NEW p \in LinkedPlan
    PROVE  /\ {Closing(p), Revoked(p), Gone(p), Cancelled(p), Discard(p)} \subseteq LinkedPlan
           /\ \A phase \in {"checking", "evicting", "published"} : [p EXCEPT !.phase = phase] \in LinkedPlan
           /\ \A t \in {"none", "open", "closed", "failed"} :
                 [p EXCEPT !.target = t] \in LinkedPlan /\ Gone([p EXCEPT !.target = t]) \in LinkedPlan
           /\ \A v \in Ids \union {None} : [p EXCEPT !.victim = v] \in LinkedPlan
           /\ [p EXCEPT !.applied = TRUE] \in LinkedPlan
<1>1. NoPlan \in LinkedPlan /\ NoPlan.parent = None /\ NoPlan.snapshot = NoJob
  BY NoJobTyped DEF NoPlan, LinkedPlan, Plan
<1>2. \A phase \in {"checking", "evicting", "published", "discarding"} : [p EXCEPT !.phase = phase] \in LinkedPlan
  BY DEF LinkedPlan, Plan
<1>3. \A q \in LinkedPlan : \A t \in {"none", "open", "closing", "closed", "failed"} :
         /\ [q EXCEPT !.target = t] \in LinkedPlan
         /\ [q EXCEPT !.target = t].target = t
  BY DEF LinkedPlan, Plan
<1>4. \A v \in Ids \union {None} : [p EXCEPT !.victim = v] \in LinkedPlan
  BY DEF LinkedPlan, Plan
<1>5. [p EXCEPT !.applied = TRUE] \in LinkedPlan
  BY DEF LinkedPlan, Plan
<1>6. \A q \in LinkedPlan : Closing(q) \in LinkedPlan
  BY <1>3 DEF Closing
<1>7. \A q \in LinkedPlan : Revoked(q) \in LinkedPlan
  BY ZenonT(30) DEF LinkedPlan, Plan, Revoked
<1>8. \A t \in {"none", "open", "closing", "closed", "failed"} :
         [NoPlan EXCEPT !.phase = "gone", !.target = t] \in LinkedPlan
  BY <1>1 DEF LinkedPlan, Plan
<1>9. \A q \in LinkedPlan : Gone(q) \in LinkedPlan
  <2>1. \A q \in LinkedPlan : q.target \in {"none", "open", "closing", "closed", "failed"}
    BY DEF LinkedPlan, Plan
  <2>. QED
    BY <1>8, <2>1 DEF Gone
<1>10. Cancelled(p) \in LinkedPlan
  BY <1>6, <1>7 DEF Cancelled
<1>11. Discard(p) \in LinkedPlan
  <2>1. [Revoked(p) EXCEPT !.phase = "discarding"] \in LinkedPlan
    BY <1>7 DEF LinkedPlan, Plan
  <2>. QED
    BY <1>6, <2>1 DEF Discard
<1>12. \A t \in {"none", "open", "closed", "failed"} : Gone([p EXCEPT !.target = t]) \in LinkedPlan
  BY <1>3, <1>9
<1>13. {Closing(p), Revoked(p), Gone(p), Cancelled(p), Discard(p)} \subseteq LinkedPlan
  BY <1>6, <1>7, <1>9, <1>10, <1>11
<1>. QED
  BY <1>2, <1>3, <1>4, <1>5, <1>12, <1>13

LEMMA JournalSteps ==
    ASSUME JournalTyped, UNCHANGED journalVars \/ WriteLands \/ Confirm \/ Fail \/ ReopenJournal
    PROVE  JournalTyped'
<1>1. CASE UNCHANGED journalVars
  BY <1>1 DEF JournalTyped, journalVars
<1>2. CASE WriteLands
  BY <1>2 DEF JournalTyped, WriteLands
<1>3. CASE Confirm
  BY <1>3 DEF JournalTyped, Confirm
<1>4. CASE Fail
  BY <1>4 DEF JournalTyped, Fail
<1>5. CASE ReopenJournal
  BY <1>5 DEF JournalTyped, ReopenJournal
<1>. QED
  BY <1>1, <1>2, <1>3, <1>4, <1>5

LEMMA OwnUpdatesTyped ==
    ASSUME TypeOK, NEW id \in Ids
    PROVE  /\ \A n \in Nat : Intent(id, n) => JournalTyped'
           /\ \A n \in Nat, o \in Outcomes : Receipt(id, n, o) => JournalTyped'
           /\ \A n \in Nat : Withdraw(id, n) => JournalTyped'
           /\ \A b \in BOOLEAN : Finish(id, b) => JournalTyped'
           /\ RecordFinding(id, rec.snapshot, Active) => JournalTyped'
<1> DEFINE job == disk[id]
<1>1. job \in Job
  BY DEF TypeOK, JournalTyped
<1>2. ASSUME NEW n \in Nat, Intent(id, n) PROVE JournalTyped'
  <2>1. [job EXCEPT !.pending = TRUE] \in Job
    BY <1>1, JobChanged
  <2>. QED
    BY <1>2, <2>1, UpdateTyped DEF Intent
<1>3. ASSUME NEW n \in Nat, NEW o \in Outcomes, Receipt(id, n, o) PROVE JournalTyped'
  <2>1. [job EXCEPT !.pending = FALSE, !.outcomes = Append(@, o)] \in Job
    BY <1>1, JobChanged
  <2>. QED
    BY <1>3, <2>1, UpdateTyped DEF Receipt
<1>4. ASSUME NEW n \in Nat, Withdraw(id, n) PROVE JournalTyped'
  <2>1. [job EXCEPT !.pending = FALSE] \in Job
    BY <1>1, JobChanged
  <2>. QED
    BY <1>4, <2>1, UpdateTyped DEF Withdraw
<1>5. ASSUME NEW b \in BOOLEAN, Finish(id, b) PROVE JournalTyped'
  <2>1. [job EXCEPT !.status = IF b THEN "complete" ELSE "stopped"] \in Job
    BY <1>1, JobChanged
  <2>. QED
    BY <1>5, <2>1, UpdateTyped DEF Finish
<1>6. ASSUME RecordFinding(id, rec.snapshot, Active) PROVE JournalTyped'
  <2>1. [job EXCEPT !.findings = @ + 1] \in Job
    BY <1>1, JobChanged
  <2>. QED
    BY <1>6, <2>1, UpdateTyped DEF RecordFinding
<1>. QED
  BY <1>2, <1>3, <1>4, <1>5, <1>6


LEMMA TypesSplitNext ==
    TypeOK' <=> JournalTyped' /\ PlansTyped' /\ plans' \in Seq(Ids) /\ op' \in Op /\ rec' \in Task /\ BrokerTyped'
               /\ BoundsTyped'
<1>1. PlansTyped' <=> PlanTyped' /\ \A i \in Ids : plan'[i].parent = None => plan'[i].snapshot = NoJob
  BY DEF PlansTyped, PlanTyped, LinkedPlan, Plan
<1>2. op' \in Op <=> OpTyped' /\ (op'.step # "idle" => op'.id \in Ids)
  BY DEF Op, OpTyped
<1>3. rec' \in Task <=> TaskTyped' /\ (rec'.step # "idle" => rec'.job \in Ids)
  BY DEF Task, TaskTyped
<1>. QED
  BY <1>1, <1>2, <1>3 DEF TypeOK, WorkTyped, BrokerTyped, BoundsTyped

\* A step that changes plans only, and may end the task of a continuation.
LEMMA PlansChange ==
    ASSUME TypeOK, plan' \in [Ids -> LinkedPlan], plans' \in Seq(Ids), rec' \in {NoTask, rec}, 
           UNCHANGED <<op, journalVars, brokerVars, bounds>>
    PROVE  TypeOK'
<1>1. JournalTyped' /\ op' \in Op /\ BrokerTyped' /\ BoundsTyped'
  BY JournalSteps, TypesSplit DEF BrokerTyped, BoundsTyped, brokerVars
<1>2. NoTask \in Task
  BY NoJobTyped DEF NoTask, Task
<1>. QED
  BY <1>1, <1>2, TypesSplit, TypesSplitNext DEF PlansTyped

LEMMA OnePlanChanges ==
    ASSUME PlansTyped, NEW i \in Ids, NEW p \in LinkedPlan
    PROVE  [plan EXCEPT ![i] = p] \in [Ids -> LinkedPlan]
  BY DEF PlansTyped

LEMMA PlanStepTyped ==
    ASSUME TypeOK, NEW i \in Ids, PlanSteps(i) \/ TargetCloses(i) \/ Expire(i)
    PROVE  TypeOK'
<1>1. PlansTyped /\ plan[i] \in LinkedPlan
  BY TypesSplit DEF PlansTyped
<1>13. plans \in Seq(Ids)
  BY TypesSplit
<1>2. TaskAfter(i) \in {NoTask, rec}
  BY DEF TaskAfter
<1>3. CASE OpenFails(i)
  <2>1. \A target \in {"none", "failed"} : Gone([plan[i] EXCEPT !.target = target]) \in LinkedPlan
    BY <1>1, PlanForms
  <2>2. plan' \in [Ids -> LinkedPlan]
    BY <1>1, <1>3, <2>1 DEF OpenFails, PlansTyped
  <2>. QED
    BY <1>2, <1>3, <1>13, <2>2, PlansChange DEF OpenFails
<1>4. CASE OpenSucceeds(i)
  <2>1. [plan[i] EXCEPT !.phase = "checking"] \in LinkedPlan
    BY <1>1, PlanForms
  <2>2. [[plan[i] EXCEPT !.phase = "checking"] EXCEPT !.target = "open"] \in LinkedPlan
    BY <2>1, PlanForms
  <2>3. plan' = [plan EXCEPT ![i] = [[plan[i] EXCEPT !.phase = "checking"] EXCEPT !.target = "open"]]
    BY <1>1, <1>4 DEF OpenSucceeds, PlansTyped
  <2>4. plan' \in [Ids -> LinkedPlan]
    BY <1>1, <2>2, <2>3, OnePlanChanges, Zenon
  <2>5. plans' = plans /\ rec' = rec /\ UNCHANGED <<op, journalVars, brokerVars, bounds>>
    BY <1>4 DEF OpenSucceeds, recoveryVars
  <2>. QED
    BY <1>13, <2>4, <2>5, PlansChange
<1>5. CASE CheckFails(i)
  <2>1. Discard(plan[i]) \in LinkedPlan
    BY <1>1, PlanForms
  <2>. QED
    BY <1>1, <1>5, <2>1, <1>13, OnePlanChanges, PlansChange DEF CheckFails, recoveryVars
<1>6. CASE Publish(i)
  <2>1. [plan[i] EXCEPT !.phase = "published"] \in LinkedPlan
    BY <1>1, PlanForms
  <2>2. plan' = [plan EXCEPT ![i] = [plan[i] EXCEPT !.phase = "published"]]
    BY <1>6 DEF Publish
  <2>. QED
    BY <1>1, <1>2, <1>6, <2>1, <2>2, <1>13, OnePlanChanges, PlansChange DEF Publish
<1>7. CASE StartEviction(i)
  <2> DEFINE oldest == Head(plans)
             closed == [plan EXCEPT ![oldest] = Closing(@)]
             p == [[closed[i] EXCEPT !.phase = "evicting"] EXCEPT !.victim = oldest]
  <2>1. oldest \in Ids
    BY <1>7, <1>13, RepairAssumption DEF StartEviction
  <2>2. Closing(plan[oldest]) \in LinkedPlan
    BY <1>1, <2>1, PlanForms DEF PlansTyped
  <2>3. closed \in [Ids -> LinkedPlan]
    BY <1>1, <2>1, <2>2, OnePlanChanges
  <2>4. p \in LinkedPlan
    <3>1. [closed[i] EXCEPT !.phase = "evicting"] \in LinkedPlan
      BY <2>3, PlanForms
    <3>. QED
      BY <2>1, <3>1, PlanForms
  <2>5. plan' = [closed EXCEPT ![i] = p]
    BY <1>7, <2>3 DEF StartEviction
  <2>. QED
    BY <1>7, <1>13, <2>3, <2>4, <2>5, PlansChange DEF StartEviction, recoveryVars
<1>8. CASE PublishAfterEviction(i)
  <2> DEFINE victim == plan[i].victim
             left == [plan EXCEPT ![victim] = Gone(@)]
             p == [[left[i] EXCEPT !.phase = "published"] EXCEPT !.victim = None]
  <2>1. left \in [Ids -> LinkedPlan]
    <3>1. CASE victim \in Ids
      <4>1. Gone(plan[victim]) \in LinkedPlan
        BY <1>1, <3>1, PlanForms DEF PlansTyped
      <4>. QED
        BY <1>1, <3>1, <4>1, OnePlanChanges
    <3>2. CASE victim \notin Ids
      BY <1>1, <3>2 DEF PlansTyped
    <3>. QED
      BY <3>1, <3>2
  <2>2. p \in LinkedPlan
    <3>1. [left[i] EXCEPT !.phase = "published"] \in LinkedPlan
      BY <2>1, PlanForms
    <3>. QED
      BY <3>1, PlanForms
  <2>3. plan' = [left EXCEPT ![i] = p]
    BY <1>8, <2>1 DEF PublishAfterEviction
  <2>4. plans' \in Seq(Ids)
    BY <1>8, <1>13 DEF PublishAfterEviction
  <2>. QED
    BY <1>2, <1>8, <2>1, <2>2, <2>3, <2>4, PlansChange, SMTT(20) DEF PublishAfterEviction
<1>9. CASE EvictionFails(i)
  <2>1. Discard(plan[i]) \in LinkedPlan
    BY <1>1, PlanForms
  <2>. QED
    BY <1>1, <1>9, <2>1, <1>13, OnePlanChanges, PlansChange DEF EvictionFails, recoveryVars
<1>10. CASE EndDiscard(i)
  <2>1. Gone(plan[i]) \in LinkedPlan
    BY <1>1, PlanForms
  <2>. QED
    BY <1>1, <1>2, <1>10, <2>1, <1>13, OnePlanChanges, PlansChange DEF EndDiscard
<1>11. CASE TargetCloses(i)
  <2>1. \A target \in {"closed", "failed"} : [plan[i] EXCEPT !.target = target] \in LinkedPlan
    BY <1>1, PlanForms
  <2>2. PICK target \in {"closed", "failed"} : plan' = [plan EXCEPT ![i] = [plan[i] EXCEPT !.target = target]]
    BY <1>11 DEF TargetCloses
  <2>. QED
    BY <1>1, <1>11, <2>1, <2>2, <1>13, OnePlanChanges, PlansChange DEF TargetCloses, recoveryVars
<1>12. CASE Expire(i)
  <2>1. Closing(Revoked(plan[i])) \in LinkedPlan
    BY <1>1, PlanForms
  <2>. QED
    BY <1>1, <1>12, <2>1, <1>13, OnePlanChanges, PlansChange DEF Expire, recoveryVars
<1>. QED
  BY <1>3, <1>4, <1>5, <1>6, <1>7, <1>8, <1>9, <1>10, <1>11, <1>12 DEF PlanSteps

LEMMA OpForms ==
    ASSUME NEW o \in Op, o.step # "idle"
    PROVE  /\ \A s \in {"beginning", "intending", "sent", "recording", "clear", "clearing", "finishing"} :
                 [o EXCEPT !.step = s] \in Op
           /\ [o EXCEPT !.step = "checking", !.started = TRUE] \in Op
           /\ [o EXCEPT !.step = "checking", !.index = @ + 1, !.outcome = "unknown"] \in Op
           /\ \A outcome \in Outcomes : [o EXCEPT !.step = "receipt", !.outcome = outcome] \in Op
           /\ \A complete \in BOOLEAN :
                 [NoOp EXCEPT !.step = "closing", !.id = o.id, !.started = o.started,
                              !.complete = complete] \in Op
<1>1. /\ o.id \in Ids /\ o.index \in Nat /\ o.index + 1 \in Nat /\ o.started \in BOOLEAN
      /\ o.complete \in BOOLEAN /\ o.outcome \in Outcomes /\ "unknown" \in Outcomes
      /\ DOMAIN o = {"step", "id", "index", "started", "complete", "outcome"}
  BY DEF Op, Outcomes
<1>2. \A s \in {"beginning", "intending", "sent", "recording", "clear", "clearing", "finishing"} :
         [o EXCEPT !.step = s] \in Op
  BY <1>1 DEF Op
<1>3. [o EXCEPT !.step = "checking", !.started = TRUE] \in Op
  BY <1>1 DEF Op
<1>4. [o EXCEPT !.step = "checking", !.index = @ + 1, !.outcome = "unknown"] \in Op
  BY <1>1 DEF Op
<1>5. \A outcome \in Outcomes : [o EXCEPT !.step = "receipt", !.outcome = outcome] \in Op
  BY <1>1 DEF Op
<1>6. \A complete \in BOOLEAN :
         [NoOp EXCEPT !.step = "closing", !.id = o.id, !.started = o.started,
                      !.complete = complete] \in Op
  BY <1>1 DEF Op, NoOp
<1>. QED
  BY <1>2, <1>3, <1>4, <1>5, <1>6

LEMMA NoOpTyped == NoOp \in Op /\ \A i \in Ids : [NoOp EXCEPT !.step = "begin", !.id = i] \in Op
  BY DEF NoOp, Op, Outcomes

\* A step of the replay that is being applied.
LEMMA ReplayChange ==
    ASSUME TypeOK, JournalTyped', plan' \in [Ids -> LinkedPlan], op' \in Op,
           sends' \in [Records -> Nat], UNCHANGED opRest
    PROVE  TypeOK'
<1>1. plans' \in Seq(Ids) /\ rec' \in Task /\ BrokerTyped' /\ BoundsTyped'
  BY TypesSplit DEF opRest, recoveryVars, BrokerTyped, BoundsTyped
<1>. QED
  BY <1>1, TypesSplitNext DEF PlansTyped

LEMMA StopTyped ==
    ASSUME TypeOK, op.step # "idle", NEW complete \in BOOLEAN, StopWith(complete)
    PROVE  plan' \in [Ids -> LinkedPlan] /\ op' \in Op
<1>1. op \in Op /\ op.id \in Ids /\ PlansTyped
  BY TypesSplit DEF Op
<1>2. Closing(Revoked(plan[op.id])) \in LinkedPlan
  BY <1>1, PlanForms, Zenon DEF PlansTyped
<1>3. op' \in Op
  BY <1>1, OpForms, Zenon DEF StopWith
<1>. QED
  BY <1>1, <1>2, <1>3, OnePlanChanges DEF StopWith

\* What was dispatched is one of the records.
SentIsKnown == op.step = "sent" => Record(op.id, op.index) \in Records

LEMMA ReplayStepTyped ==
    ASSUME TypeOK, SentIsKnown, ReplaySteps
    PROVE  TypeOK'
<1>1. /\ JournalTyped /\ plan \in [Ids -> LinkedPlan] /\ op \in Op /\ sends \in [Records -> Nat]
      /\ op.step # "idle" => op.id \in Ids
      /\ op.index \in Nat /\ op.complete \in BOOLEAN /\ op.outcome \in Outcomes
  BY TypesSplit, Zenon DEF BrokerTyped, PlansTyped, Op
<1>2. CASE BeginJob
  <2>1. op.step # "idle" /\ op.id \in Ids
    BY <1>1, <1>2 DEF BeginJob
  <2>2. plan[op.id].parent \in Ids \union {None} /\ plan[op.id].snapshot \in Job
    BY <1>1, <2>1, Zenon DEF LinkedPlan, Plan
  <2>3. JournalTyped'
    BY <1>2, <2>1, <2>2, BeginTyped DEF BeginJob
  <2>. QED
    BY <1>1, <1>2, <2>1, <2>3, OpForms, ReplayChange, Zenon DEF BeginJob
<1>3. CASE JobBegun
  BY <1>1, <1>3, OpForms, ReplayChange, JournalSteps, Zenon DEF JobBegun
<1>4. CASE BatchEnds
  <2>1. JournalTyped' /\ StopWith(FALSE) /\ op.step # "idle"
    BY <1>1, <1>4, JournalSteps DEF BatchEnds, Stop
  <2>. QED
    BY <1>1, <1>4, <2>1, StopTyped, ReplayChange DEF BatchEnds, Stop
<1>5. CASE JournalRefuses
  <2>1. JournalTyped' /\ StopWith(FALSE) /\ op.step # "idle"
    BY <1>1, <1>5, JournalSteps, Zenon DEF JournalRefuses, Stop
  <2>. QED
    BY <1>1, <1>5, <2>1, StopTyped, ReplayChange DEF JournalRefuses, Stop
<1>6. CASE IntendRecord
  <2>1. JournalTyped'
    BY <1>1, <1>6, OwnUpdatesTyped, Zenon DEF IntendRecord
  <2>. QED
    BY <1>1, <1>6, <2>1, OpForms, ReplayChange, Zenon DEF IntendRecord
<1>7. CASE Dispatch
  <2>1. JournalTyped'
    BY <1>1, <1>7, JournalSteps DEF Dispatch
  <2>2. sends' \in [Records -> Nat]
    <3> DEFINE r == Record(op.id, op.index)
    <3>1. sends' = [sends EXCEPT ![r] = @ + 1]
      BY <1>7 DEF Dispatch
    <3>2. \A q \in Records : sends[q] + 1 \in Nat
      BY <1>1
    <3> HIDE DEF r
    <3>3. [sends EXCEPT ![r] = @ + 1] = [q \in Records |-> IF q = r THEN sends[q] + 1 ELSE sends[q]]
      BY <1>1
    <3>. QED
      BY <1>1, <3>1, <3>2, <3>3
  <2>. QED
    BY <1>1, <1>7, <2>1, <2>2, OpForms, ReplayChange, Zenon DEF Dispatch
<1>8. CASE HoldBack
  BY <1>1, <1>8, OpForms, ReplayChange, JournalSteps, Zenon DEF HoldBack
<1>9. CASE WithdrawIntent
  <2>1. JournalTyped'
    BY <1>1, <1>9, OwnUpdatesTyped, Zenon DEF WithdrawIntent
  <2>. QED
    BY <1>1, <1>9, <2>1, OpForms, ReplayChange, Zenon DEF WithdrawIntent
<1>10. CASE WriteSettles
  <2>1. PICK outcome \in {broker[Record(op.id, op.index)], "unknown"} \ {"none"} :
             op' = [op EXCEPT !.step = "receipt", !.outcome = outcome]
    BY <1>10 DEF WriteSettles
  <2>2. outcome \in Outcomes
    <3>1. broker[Record(op.id, op.index)] \in {"none", "acknowledged", "rejected"}
      BY <1>10, TypesSplit, Zenon DEF WriteSettles, SentIsKnown, BrokerTyped
    <3>. QED
      BY <3>1 DEF Outcomes
  <2>. QED
    BY <1>1, <1>10, <2>1, <2>2, OpForms, ReplayChange, JournalSteps, Zenon DEF WriteSettles
<1>11. CASE RecordReceipt
  <2>1. JournalTyped'
    BY <1>1, <1>11, OwnUpdatesTyped, Zenon DEF RecordReceipt
  <2>. QED
    BY <1>1, <1>11, <2>1, OpForms, ReplayChange, Zenon DEF RecordReceipt
<1>12. CASE RecordSettled
  BY <1>1, <1>12, OpForms, ReplayChange, JournalSteps, Zenon DEF RecordSettled
<1>13. CASE BatchSettled
  <2>1. JournalTyped' /\ op.step # "idle"
        /\ \E complete \in BOOLEAN : StopWith(complete)
    BY <1>1, <1>13, JournalSteps DEF BatchSettled
  <2>. QED
    BY <1>1, <1>13, <2>1, StopTyped, ReplayChange DEF BatchSettled
<1>14. CASE CommitFails
  <2>1. JournalTyped' /\ StopWith(FALSE) /\ op.step # "idle"
    BY <1>1, <1>14, JournalSteps, Zenon DEF CommitFails
  <2>. QED
    BY <1>1, <1>14, <2>1, StopTyped, ReplayChange DEF CommitFails
<1>15. CASE FinishJob
  <2>1. JournalTyped'
    BY <1>1, <1>15, OwnUpdatesTyped DEF FinishJob
  <2>. QED
    BY <1>1, <1>15, <2>1, OpForms, ReplayChange, Zenon DEF FinishJob
<1>16. CASE EndReplay
  <2>1. JournalTyped'
    BY <1>1, <1>16, JournalSteps DEF EndReplay
  <2>. QED
    BY <1>1, <1>16, <2>1, NoOpTyped, ReplayChange DEF EndReplay
<1>. QED
  BY <1>2, <1>3, <1>4, <1>5, <1>6, <1>7, <1>8, <1>9, <1>10, <1>11, <1>12, <1>13, <1>14, <1>15, <1>16
  DEF ReplaySteps

LEMMA TaskForms ==
    ASSUME NEW t \in Task, t.step # "idle"
    PROVE  /\ \A s \in {"committing", "recording"} : [t EXCEPT !.step = s] \in Task
           /\ \A i \in Ids : [t EXCEPT !.step = "reviewing", !.plan = i] \in Task
           /\ \A job \in Job : [t EXCEPT !.step = "observing", !.snapshot = job] \in Task
  BY DEF Task

LEMMA NoTaskTyped ==
    /\ NoTask \in Task
    /\ \A kind \in {"continue", "reconcile", "archive"}, id \in Ids :
          [NoTask EXCEPT !.step = "loading", !.kind = kind, !.job = id] \in Task
  BY NoJobTyped DEF NoTask, Task

\* A step of the recovery or of the callers.
LEMMA OtherChange ==
    ASSUME TypeOK, JournalTyped', plan' \in [Ids -> LinkedPlan], op' \in Op, rec' \in Task,
           UNCHANGED <<plans, brokerVars, bounds>>
    PROVE  TypeOK'
<1>1. plans' \in Seq(Ids) /\ BrokerTyped' /\ BoundsTyped'
  BY TypesSplit DEF brokerVars, BrokerTyped, BoundsTyped
<1>. QED
  BY <1>1, TypesSplitNext DEF PlansTyped

\* A new review begins without a parent, or with a parent and its state.
LEMMA ReviewTyped ==
    ASSUME PlansTyped, NEW i \in Ids, NEW parent \in Ids \union {None}, NEW snapshot \in Job,
           parent = None => snapshot = NoJob, StartReview(i, parent, snapshot)
    PROVE  plan' \in [Ids -> LinkedPlan]
<1> DEFINE p == [NoPlan EXCEPT !.phase = "opening", !.valid = TRUE, !.parent = parent,
                               !.snapshot = snapshot]
<1>1. p \in LinkedPlan
  BY DEF NoPlan, LinkedPlan, Plan
<1>2. plan' = [plan EXCEPT ![i] = p]
  BY DEF StartReview
<1>. QED
  BY <1>1, <1>2, OnePlanChanges

LEMMA TaskStepTyped ==
    ASSUME TypeOK, TaskSteps
    PROVE  TypeOK'
<1>1. /\ JournalTyped /\ plan \in [Ids -> LinkedPlan] /\ op \in Op /\ rec \in Task
      /\ rec.step # "idle" => rec.job \in Ids
      /\ rec.snapshot \in Job
  BY TypesSplit DEF PlansTyped, Task
<1>2. CASE TaskRefused
  BY <1>1, <1>2, NoTaskTyped, OtherChange, JournalSteps DEF TaskRefused, recRest
<1>3. CASE ArchiveChain
  <2>1. JournalTyped'
    BY <1>1, <1>3, ArchiveTyped DEF ArchiveChain
  <2>. QED
    BY <1>1, <1>3, <2>1, TaskForms, OtherChange DEF ArchiveChain, recRest
<1>4. CASE Observe
  <2>1. disk[rec.job] \in Job
    BY <1>1, <1>4 DEF Observe, JournalTyped
  <2>. QED
    BY <1>1, <1>4, <2>1, TaskForms, OtherChange, JournalSteps DEF Observe, recRest
<1>5. CASE ObservationEnds
  BY <1>1, <1>5, TaskForms, OtherChange, JournalSteps DEF ObservationEnds, recRest
<1>6. CASE RecordObservation
  <2>1. JournalTyped'
    BY <1>1, <1>6, OwnUpdatesTyped DEF RecordObservation
  <2>. QED
    BY <1>1, <1>6, <2>1, TaskForms, OtherChange DEF RecordObservation, recRest
<1>7. CASE TaskCommits
  BY <1>1, <1>7, NoTaskTyped, OtherChange, JournalSteps DEF TaskCommits, recRest
<1>8. ASSUME NEW i \in Ids, ReviewContinuation(i)
      PROVE  TypeOK'
  <2>1. rec.job \in Ids /\ rec.job # None /\ disk[rec.job] \in Job
    <3>1. rec.step = "loading"
      BY <1>8 DEF ReviewContinuation
    <3>2. rec.job \in Ids /\ rec.job # None
      BY <1>1, <3>1
    <3>3. disk \in [Ids -> Job]
      BY <1>1 DEF JournalTyped
    <3>. QED
      BY <3>2, <3>3
  <2>2. plan' \in [Ids -> LinkedPlan]
    BY <1>1, <1>8, <2>1, ReviewTyped DEF ReviewContinuation, PlansTyped
  <2>3. rec' \in Task
    BY <1>1, <1>8, TaskForms DEF ReviewContinuation
  <2>. QED
    BY <1>1, <1>8, <2>2, <2>3, OtherChange, JournalSteps DEF ReviewContinuation, recRest
<1>. QED
  BY <1>2, <1>3, <1>4, <1>5, <1>6, <1>7, <1>8 DEF TaskSteps

LEMMA OtherStepTyped ==
    ASSUME TypeOK, InvalidationSteps \/ JournalWrites \/ Environment
                   \/ \E r \in Records : BrokerDecides(r)
    PROVE  TypeOK'
<1>1. /\ JournalTyped /\ plan \in [Ids -> LinkedPlan] /\ op \in Op /\ rec \in Task /\ PlansTyped
      /\ plans \in Seq(Ids) /\ BrokerTyped /\ BoundsTyped
  BY TypesSplit DEF PlansTyped
<1>2. CASE InvalidationSteps
  BY <1>1, <1>2, OtherChange, JournalSteps
  DEF InvalidationSteps, ReplayDrained, ReaderDrained, InvalidationEnds, recRest, recoveryVars
<1>3. CASE JournalWrites
  BY <1>1, <1>3, OtherChange, JournalSteps DEF JournalWrites, replayVars, recoveryVars
<1>4. ASSUME NEW r \in Records, BrokerDecides(r)
      PROVE  TypeOK'
  <2>1. BrokerTyped' /\ BoundsTyped'
    BY <1>1, <1>4 DEF BrokerDecides, BrokerTyped, BoundsTyped
  <2>2. JournalTyped' /\ PlansTyped' /\ op' \in Op /\ rec' \in Task /\ plans' \in Seq(Ids)
    BY <1>1, <1>4, JournalSteps DEF BrokerDecides, replayVars, recoveryVars, PlansTyped
  <2>. QED
    BY <2>1, <2>2, TypesSplitNext
<1>5. ASSUME NEW i \in Ids, Review(i)
      PROVE  TypeOK'
  <2>1. plan' \in [Ids -> LinkedPlan]
    BY <1>1, <1>5, NoJobTyped, ReviewTyped DEF Review
  <2>. QED
    BY <1>1, <1>5, <2>1, OtherChange, JournalSteps DEF Review, recoveryVars
<1>6. ASSUME NEW i \in Ids, Cancel(i)
      PROVE  TypeOK'
  <2>1. Cancelled(plan[i]) \in LinkedPlan
    BY <1>1, PlanForms
  <2>. QED
    BY <1>1, <1>6, <2>1, OnePlanChanges, PlansChange DEF Cancel, recoveryVars
<1>7. ASSUME NEW i \in Ids, LoseAuthority(i)
      PROVE  TypeOK'
  <2>1. Revoked(plan[i]) \in LinkedPlan
    BY <1>1, PlanForms
  <2>. QED
    BY <1>1, <1>7, <2>1, OnePlanChanges, PlansChange DEF LoseAuthority, recoveryVars
<1>8. ASSUME NEW i \in Ids, Apply(i)
      PROVE  TypeOK'
  <2>1. [plan[i] EXCEPT !.applied = TRUE] \in LinkedPlan
    BY <1>1, PlanForms
  <2>2. plan' = [plan EXCEPT ![i] = [plan[i] EXCEPT !.applied = TRUE]]
    BY <1>8 DEF Apply
  <2>3. plan' \in [Ids -> LinkedPlan]
    BY <1>1, <2>1, <2>2, OnePlanChanges
  <2>4. op' \in Op
    BY <1>8, NoOpTyped DEF Apply
  <2>. QED
    BY <1>1, <1>8, <2>3, <2>4, OtherChange, JournalSteps DEF Apply, recoveryVars
<1>9. ASSUME NEW i \in Ids, NEW kind \in {"continue", "reconcile", "archive"}, Recover(kind, i)
      PROVE  TypeOK'
  BY <1>1, <1>9, NoTaskTyped, OtherChange, JournalSteps DEF Recover, recRest
<1>10. ASSUME Invalidate
       PROVE  TypeOK'
  <2>1. \A i \in Ids : Revoked(plan[i]) \in LinkedPlan /\ Cancelled(plan[i]) \in LinkedPlan
    BY <1>1, PlanForms
  <2>2. plan' \in [Ids -> LinkedPlan]
    BY <1>1, <1>10, <2>1 DEF Invalidate
  <2>. QED
    BY <1>1, <1>10, <2>2, OtherChange, JournalSteps DEF Invalidate, recoveryVars, recRest
<1>11. CASE Crash
  <2>1. NoPlan \in LinkedPlan /\ [NoPlan EXCEPT !.phase = "gone"] \in LinkedPlan
    BY NoJobTyped DEF NoPlan, LinkedPlan, Plan
  <2>2. plan' \in [Ids -> LinkedPlan]
    <3> DEFINE lost == [NoPlan EXCEPT !.phase = "gone"]
    <3>1. plan' = [i \in Ids |-> IF plan[i].phase = "unused" THEN NoPlan ELSE lost]
      BY <1>11 DEF Crash
    <3> HIDE DEF lost
    <3>2. NoPlan \in LinkedPlan /\ lost \in LinkedPlan
      BY <2>1 DEF lost
    <3>. QED
      BY <3>1, <3>2
  <2>3. op' \in Op /\ rec' \in Task /\ plans' \in Seq(Ids)
    <3>1. op' = NoOp /\ rec' = NoTask /\ plans' = <<>>
      BY <1>11 DEF Crash
    <3>2. <<>> \in Seq(Ids)
      OBVIOUS
    <3>. QED
      BY <3>1, <3>2, NoOpTyped, NoTaskTyped
  <2>4. JournalTyped' /\ BrokerTyped'
    BY <1>1, <1>11, JournalSteps DEF Crash, brokerVars, BrokerTyped
  <2>5. BoundsTyped'
    <3>1. bounds.crashes > 0 /\ bounds' = [bounds EXCEPT !.crashes = @ - 1]
      BY <1>11 DEF Crash
    <3>2. bounds.crashes - 1 \in Nat
      BY <1>1, <3>1 DEF BoundsTyped
    <3>. QED
      BY <1>1, <3>1, <3>2 DEF BoundsTyped
  <2>. QED
    BY <2>2, <2>3, <2>4, <2>5, TypesSplitNext DEF PlansTyped
<1>12. CASE Environment
  <2>1. ASSUME NEW i \in Ids, NEW kind \in bounds.calls \ {"invalidate"}, Recover(kind, i)
        PROVE  TypeOK'
    <3>1. kind \in {"continue", "reconcile", "archive"}
      BY <1>1, <2>1 DEF BoundsTyped
    <3>. QED
      BY <1>9, <2>1, <3>1
  <2>. QED
    BY <1>5, <1>6, <1>7, <1>8, <1>10, <1>11, <1>12, <2>1 DEF Environment
<1>. QED
  BY <1>2, <1>3, <1>4, <1>12

---------------------------------------------------------------------------
\* The shape of the history. A chain takes over its records one job after the
\* other, and only its last job has records that are still to be sent.
Known(document, i) == document[i].status # "absent"
IsLeaf(document, i) == document[i].continuation = None
SameChain(document, i, j) == document[i].root = document[j].root

Rooted(document) ==
    \A i \in Ids : Known(document, i) =>
        LET root == document[i].root IN
        /\ root \in Ids /\ Known(document, root) /\ document[root].root = root
        /\ document[i].status = "archived" <=> document[root].status = "archived"
        /\ document[i].first \in Nat \ {0}
        /\ document[i].parent = None => root = i

OneLeaf(document) ==
    \A i, j \in Ids :
        /\ Stored(document, i) /\ Stored(document, j)
        /\ IsLeaf(document, i) /\ IsLeaf(document, j) /\ SameChain(document, i, j)
        => i = j

InTurn(document) ==
    \A i, j \in Ids :
        /\ Known(document, i) /\ Known(document, j) /\ i # j /\ SameChain(document, i, j)
        => /\ \/ NextIndex(document[i]) <= document[j].first
              \/ NextIndex(document[j]) <= document[i].first
           /\ IsLeaf(document, j) => NextIndex(document[i]) <= document[j].first

FreshIsUnsent(document, sent) ==
    \A i \in Ids : ~Known(document, i) => \A k \in Indexes : sent[<<i, k>>] = 0

SuffixIsUnsent(document, sent) ==
    \A i \in Ids : Stored(document, i) /\ IsLeaf(document, i) =>
        \A k \in NextIndex(document[i]) .. Total : sent[<<document[i].root, k>>] = 0

Shape(document, sent) ==
    /\ Rooted(document) /\ OneLeaf(document) /\ InTurn(document)
    /\ FreshIsUnsent(document, sent) /\ SuffixIsUnsent(document, sent)

LEMMA IndexBounds ==
    ASSUME NEW job \in Job
    PROVE  job.first <= NextIndex(job) /\ NextIndex(job) \in Nat /\ job.first \in Nat
  BY DEF NextIndex, Job

\* A change of one job that keeps its place in the chain.
LEMMA JobKeepsPlace ==
    ASSUME NEW document \in [Ids -> Job], NEW sent, Shape(document, sent), NEW id \in Ids, NEW job \in Job,
           Stored(document, id),
           job.status \notin {"absent", "archived"},
           job.root = document[id].root, job.parent = document[id].parent, job.first = document[id].first,
           job.continuation = document[id].continuation,
           \/ NextIndex(job) = NextIndex(document[id])
           \/ /\ IsLeaf(document, id)
              /\ \A k \in NextIndex(job) .. Total : sent[<<job.root, k>>] = 0
    PROVE  Shape([document EXCEPT ![id] = job], sent)
<1> DEFINE new == [document EXCEPT ![id] = job]
<1>1. /\ new \in [Ids -> Job] /\ new[id] = job
      /\ \A i \in Ids : i # id => new[i] = document[i]
  OBVIOUS
<1>2. /\ \A i \in Ids : /\ Known(new, i) <=> Known(document, i)
                        /\ Stored(new, i) <=> Stored(document, i)
                        /\ IsLeaf(new, i) <=> IsLeaf(document, i)
                        /\ new[i].root = document[i].root /\ new[i].first = document[i].first
                        /\ new[i].parent = document[i].parent
                        /\ new[i].status = "archived" <=> document[i].status = "archived"
  <2> SUFFICES ASSUME NEW i \in Ids
               PROVE  /\ Known(new, i) <=> Known(document, i)
                      /\ Stored(new, i) <=> Stored(document, i)
                      /\ IsLeaf(new, i) <=> IsLeaf(document, i)
                      /\ new[i].root = document[i].root /\ new[i].first = document[i].first
                      /\ new[i].parent = document[i].parent
                      /\ new[i].status = "archived" <=> document[i].status = "archived"
    OBVIOUS
  <2>1. CASE i = id
    BY <1>1, <2>1 DEF Known, Stored, IsLeaf
  <2>2. CASE i # id
    BY <1>1, <2>2 DEF Known, Stored, IsLeaf
  <2>. QED
    BY <2>1, <2>2
<1>3. \A i, j \in Ids : SameChain(new, i, j) <=> SameChain(document, i, j)
  BY <1>2 DEF SameChain
<1>4. \A i \in Ids : /\ NextIndex(new[i]) \in Nat /\ NextIndex(document[i]) \in Nat
                     /\ document[i].first \in Nat /\ document[i].first <= NextIndex(new[i])
                     /\ i # id => NextIndex(new[i]) = NextIndex(document[i])
  BY <1>1, <1>2, IndexBounds
<1> HIDE DEF new
<1>5. Rooted(new)
  <2> SUFFICES ASSUME NEW i \in Ids, Known(new, i)
               PROVE  /\ new[i].root \in Ids /\ Known(new, new[i].root)
                      /\ new[new[i].root].root = new[i].root
                      /\ new[i].status = "archived" <=> new[new[i].root].status = "archived"
                      /\ new[i].first \in Nat \ {0}
                      /\ new[i].parent = None => new[i].root = i
    BY DEF Rooted
  <2>1. /\ document[i].root \in Ids /\ Known(document, document[i].root)
        /\ document[document[i].root].root = document[i].root
        /\ document[i].status = "archived" <=> document[document[i].root].status = "archived"
        /\ document[i].first \in Nat \ {0}
        /\ document[i].parent = None => document[i].root = i
    BY <1>2 DEF Shape, Rooted
  <2>2. /\ new[i].root = document[i].root /\ new[i].first = document[i].first
        /\ new[i].parent = document[i].parent
    BY <1>2
  <2>3. PICK j \in Ids : j = document[i].root
    BY <2>1
  <2>4. /\ Known(new, j) /\ new[j].root = document[j].root
        /\ new[j].status = "archived" <=> document[j].status = "archived"
        /\ new[i].status = "archived" <=> document[i].status = "archived"
    BY <1>2, <2>1, <2>3, Zenon
  <2>5. /\ document[j].root = j /\ new[i].root = j
        /\ document[i].status = "archived" <=> document[j].status = "archived"
    BY <2>1, <2>2, <2>3, Zenon
  <2>6. new[i].root \in Ids /\ Known(new, new[i].root) /\ new[new[i].root].root = new[i].root
    BY <2>4, <2>5, Zenon
  <2>7. new[i].status = "archived" <=> new[new[i].root].status = "archived"
    BY <2>4, <2>5, Zenon
  <2>. QED
    BY <2>1, <2>2, <2>6, <2>7, Zenon
<1>6. OneLeaf(new)
  BY <1>2, <1>3 DEF Shape, OneLeaf
<1>7. InTurn(new)
  <2> SUFFICES ASSUME NEW i \in Ids, NEW j \in Ids, Known(document, i), Known(document, j), i # j,
                      SameChain(document, i, j)
               PROVE  /\ \/ NextIndex(new[i]) <= document[j].first
                         \/ NextIndex(new[j]) <= document[i].first
                      /\ IsLeaf(document, j) => NextIndex(new[i]) <= document[j].first
    BY <1>2, <1>3 DEF InTurn
  <2>1. /\ \/ NextIndex(document[i]) <= document[j].first
           \/ NextIndex(document[j]) <= document[i].first
        /\ IsLeaf(document, j) => NextIndex(document[i]) <= document[j].first
        /\ IsLeaf(document, i) => NextIndex(document[j]) <= document[i].first
    BY DEF Shape, InTurn, SameChain
  <2>2. CASE NextIndex(job) = NextIndex(document[id])
    <3>1. NextIndex(new[i]) = NextIndex(document[i]) /\ NextIndex(new[j]) = NextIndex(document[j])
      BY <1>1, <1>4, <2>2
    <3>. QED
      BY <2>1, <3>1
  <2>3. CASE IsLeaf(document, id)
    <3>1. i = id => ~IsLeaf(document, j)
      <4> SUFFICES ASSUME i = id, IsLeaf(document, j) PROVE FALSE
        OBVIOUS
      <4>1. Stored(document, j)
        BY DEF Shape, Rooted, SameChain, Stored, Known
      <4>. QED
        BY <2>3, <4>1 DEF Shape, OneLeaf
    <3>2. i # id => NextIndex(new[i]) = NextIndex(document[i])
      BY <1>4
    <3>3. j # id => NextIndex(new[j]) = NextIndex(document[j])
      BY <1>4
    <3>. QED
      BY <2>1, <2>3, <3>1, <3>2, <3>3
  <2>. QED
    BY <2>2, <2>3
<1>8. FreshIsUnsent(new, sent)
  BY <1>2 DEF Shape, FreshIsUnsent
<1>9. SuffixIsUnsent(new, sent)
  <2> SUFFICES ASSUME NEW i \in Ids, Stored(document, i), IsLeaf(document, i),
                      NEW k \in NextIndex(new[i]) .. Total
               PROVE  sent[<<document[i].root, k>>] = 0
    BY <1>2 DEF SuffixIsUnsent
  <2>1. CASE NextIndex(new[i]) = NextIndex(document[i])
    BY <2>1 DEF Shape, SuffixIsUnsent
  <2>2. CASE NextIndex(new[i]) # NextIndex(document[i])
    BY <1>1, <1>4, <2>2
  <2>. QED
    BY <2>1, <2>2
<1>. QED
  BY <1>5, <1>6, <1>7, <1>8, <1>9 DEF Shape, new

\* A chain goes as a whole.
LEMMA ChainGoes ==
    ASSUME NEW document \in [Ids -> Job], NEW sent, Shape(document, sent), NEW root \in Ids,
           Stored(document, root), document[root].root = root
    PROVE  Shape([i \in Ids |-> IF i \in Chain(document, root)
                                THEN [document[i] EXCEPT !.status = "archived"]
                                ELSE document[i]], sent)
<1> DEFINE new == [i \in Ids |-> IF i \in Chain(document, root)
                                 THEN [document[i] EXCEPT !.status = "archived"]
                                 ELSE document[i]]
<1>1. \A i \in Ids :
         /\ new[i].root = document[i].root /\ new[i].first = document[i].first
         /\ new[i].parent = document[i].parent
         /\ new[i].continuation = document[i].continuation
         /\ NextIndex(new[i]) = NextIndex(document[i])
         /\ new[i].status = IF Stored(document, i) /\ document[i].root = root THEN "archived"
                            ELSE document[i].status
  BY DEF Chain, Job, NextIndex
<1> HIDE DEF new
<1>2. \A i \in Ids : /\ Known(new, i) <=> Known(document, i)
                     /\ IsLeaf(new, i) <=> IsLeaf(document, i)
                     /\ Stored(new, i) => Stored(document, i)
  BY <1>1 DEF Known, IsLeaf, Stored
<1>3. \A i, j \in Ids : SameChain(new, i, j) <=> SameChain(document, i, j)
  BY <1>1 DEF SameChain
<1>4. Rooted(new)
  <2> SUFFICES ASSUME NEW i \in Ids, Known(new, i)
               PROVE  /\ new[i].root \in Ids /\ Known(new, new[i].root)
                      /\ new[new[i].root].root = new[i].root
                      /\ new[i].status = "archived" <=> new[new[i].root].status = "archived"
                      /\ new[i].first \in Nat \ {0}
                      /\ new[i].parent = None => new[i].root = i
    BY DEF Rooted
  <2>1. /\ document[i].root \in Ids /\ Known(document, document[i].root)
        /\ document[document[i].root].root = document[i].root
        /\ document[i].status = "archived" <=> document[document[i].root].status = "archived"
        /\ document[i].first \in Nat \ {0}
        /\ document[i].parent = None => document[i].root = i
    BY <1>2 DEF Shape, Rooted
  <2>2. /\ new[i].root = document[i].root /\ new[i].first = document[i].first
        /\ new[i].parent = document[i].parent
    BY <1>1
  <2>3. Known(document, i)
    BY <1>2
  <2>4. new[i].status = "archived" <=> new[document[i].root].status = "archived"
    BY <1>1, <2>1, <2>3 DEF Known, Stored
  <2>5. Known(new, document[i].root) /\ new[document[i].root].root = document[i].root
    BY <1>1, <1>2, <2>1
  <2>. QED
    BY <2>1, <2>2, <2>4, <2>5
<1>5. OneLeaf(new)
  BY <1>2, <1>3 DEF Shape, OneLeaf
<1>6. InTurn(new)
  BY <1>1, <1>2, <1>3 DEF Shape, InTurn
<1>7. FreshIsUnsent(new, sent)
  BY <1>2 DEF Shape, FreshIsUnsent
<1>8. SuffixIsUnsent(new, sent)
  BY <1>1, <1>2 DEF Shape, SuffixIsUnsent
<1>. QED
  BY <1>4, <1>5, <1>6, <1>7, <1>8 DEF Shape, new

\* A job begins a chain of its own.
NewJob(root, first, parent) ==
    [NoJob EXCEPT !.status = "running", !.root = root, !.first = first, !.parent = parent]

LEMMA NewJobFacts ==
    ASSUME NEW root, NEW first \in Nat, NEW parent
    PROVE  LET job == NewJob(root, first, parent) IN
           /\ job.root = root /\ job.first = first /\ job.status = "running"
           /\ job.parent = parent
           /\ job.continuation = None /\ NextIndex(job) = first
  BY DEF NewJob, NoJob, NextIndex

LEMMA ChainBegins ==
    ASSUME NEW document \in [Ids -> Job], NEW sent, Shape(document, sent), NEW id \in Ids,
           ~Known(document, id)
    PROVE  Shape([document EXCEPT ![id] = NewJob(id, 1, None)], sent)
<1> DEFINE new == [document EXCEPT ![id] = NewJob(id, 1, None)]
<1>1. /\ new[id].root = id /\ new[id].first = 1 /\ new[id].status = "running"
      /\ new[id].continuation = None /\ NextIndex(new[id]) = 1
      /\ \A i \in Ids : i # id => new[i] = document[i]
  BY NewJobFacts
<1> HIDE DEF new
<1>2. \A i \in Ids : /\ Known(new, i) <=> Known(document, i) \/ i = id
                     /\ i # id => /\ IsLeaf(new, i) <=> IsLeaf(document, i)
                                  /\ Stored(new, i) <=> Stored(document, i)
  BY <1>1 DEF Known, IsLeaf, Stored
<1>3. \A i \in Ids : Known(document, i) => document[i].root \in Ids /\ document[i].root # id
  BY DEF Shape, Rooted
<1>4. \A i, j \in Ids : Known(new, i) /\ Known(new, j) /\ SameChain(new, i, j) /\ i # j =>
                          i # id /\ j # id /\ SameChain(document, i, j)
  BY <1>1, <1>2, <1>3 DEF SameChain
<1>5. Rooted(new)
  <2> SUFFICES ASSUME NEW i \in Ids, Known(new, i)
               PROVE  /\ new[i].root \in Ids /\ Known(new, new[i].root)
                      /\ new[new[i].root].root = new[i].root
                      /\ new[i].status = "archived" <=> new[new[i].root].status = "archived"
                      /\ new[i].first \in Nat \ {0}
                      /\ new[i].parent = None => new[i].root = i
    BY DEF Rooted
  <2>1. CASE i = id
    BY <1>1, <1>2, <2>1
  <2>2. CASE i # id
    <3>1. /\ document[i].root \in Ids /\ Known(document, document[i].root)
          /\ document[document[i].root].root = document[i].root
          /\ document[i].status = "archived" <=> document[document[i].root].status = "archived"
          /\ document[i].first \in Nat \ {0}
          /\ document[i].parent = None => document[i].root = i
      BY <1>2, <2>2 DEF Shape, Rooted
    <3>2. new[i] = document[i] /\ new[document[i].root] = document[document[i].root]
      BY <1>1, <1>2, <1>3, <2>2, <3>1
    <3>. QED
      BY <1>2, <3>1, <3>2
  <2>. QED
    BY <2>1, <2>2
<1>6. OneLeaf(new)
  BY <1>2, <1>4 DEF Shape, OneLeaf, Stored, Known
<1>7. InTurn(new)
  BY <1>1, <1>2, <1>4 DEF Shape, InTurn
<1>8. FreshIsUnsent(new, sent)
  BY <1>2 DEF Shape, FreshIsUnsent
<1>9. SuffixIsUnsent(new, sent)
  BY <1>1, <1>2 DEF Shape, SuffixIsUnsent, FreshIsUnsent, Indexes
<1>. QED
  BY <1>5, <1>6, <1>7, <1>8, <1>9 DEF Shape, new

\* A job takes over from the last job of its chain.
LEMMA ChainContinues ==
    ASSUME NEW document \in [Ids -> Job], NEW sent, Shape(document, sent), NEW id \in Ids,
           ~Known(document, id), NEW p \in Ids, Stored(document, p), IsLeaf(document, p)
    PROVE  Shape([[document EXCEPT ![id] = NewJob(document[p].root, NextIndex(document[p]), p)]
                     EXCEPT ![p].continuation = id], sent)
<1> DEFINE job == NewJob(document[p].root, NextIndex(document[p]), p)
           new == [[document EXCEPT ![id] = job] EXCEPT ![p].continuation = id]
<1>1. p # id /\ id # None /\ Known(document, p)
  BY DEF Known, Stored
<1>2. NextIndex(document[p]) \in Nat /\ document[p].first \in Nat
      /\ document[p].first <= NextIndex(document[p])
  BY IndexBounds
<1>3. /\ job.root = document[p].root /\ job.first = NextIndex(document[p])
      /\ job.status = "running" /\ job.continuation = None /\ job.parent = p
      /\ NextIndex(job) = NextIndex(document[p])
  BY <1>2, NewJobFacts
<1> HIDE DEF job
<1>4. new[id] = job
  BY <1>1
<1>5. \A i \in Ids : i # id => /\ new[i].root = document[i].root
                               /\ new[i].first = document[i].first
                               /\ new[i].parent = document[i].parent
                               /\ new[i].status = document[i].status
                               /\ NextIndex(new[i]) = NextIndex(document[i])
  BY SMTT(20) DEF Job, NextIndex
<1>6. /\ new[p].continuation = id
      /\ \A i \in Ids : i # id /\ i # p => new[i] = document[i]
  BY <1>1 DEF Job
<1> HIDE DEF new
<1>7. \A i \in Ids : /\ Known(new, i) <=> Known(document, i) \/ i = id
                     /\ i # id => (Stored(new, i) <=> Stored(document, i))
  BY <1>3, <1>4, <1>5 DEF Known, Stored
<1>8. /\ ~IsLeaf(new, p) /\ IsLeaf(new, id)
      /\ \A i \in Ids : i # id /\ i # p => (IsLeaf(new, i) <=> IsLeaf(document, i))
  BY <1>1, <1>3, <1>4, <1>6 DEF IsLeaf
<1>9. \A i, j \in Ids : i # id /\ j # id => (SameChain(new, i, j) <=> SameChain(document, i, j))
  BY <1>5 DEF SameChain
<1>10. \A i \in Ids : i # id => (SameChain(new, i, id) <=> SameChain(document, i, p))
  BY <1>3, <1>4, <1>5 DEF SameChain
<1>11. \A i \in Ids : SameChain(new, id, i) <=> SameChain(new, i, id)
  BY DEF SameChain
<1>12. /\ document[p].root \in Ids /\ Known(document, document[p].root)
       /\ document[document[p].root].root = document[p].root
       /\ document[document[p].root].status # "archived"
       /\ document[p].first \in Nat \ {0}
  BY <1>1 DEF Shape, Rooted, Stored
\* Whoever shares the chain of p comes before p's end, and is not its leaf.
<1>13. \A i \in Ids : Known(document, i) /\ SameChain(document, i, p) =>
          /\ NextIndex(document[i]) <= NextIndex(document[p])
          /\ i # p => ~IsLeaf(document, i)
  <2> SUFFICES ASSUME NEW i \in Ids, Known(document, i), SameChain(document, i, p), i # p
               PROVE  /\ NextIndex(document[i]) <= NextIndex(document[p])
                      /\ ~IsLeaf(document, i)
    BY <1>2
  <2>1. NextIndex(document[i]) <= document[p].first
    BY <1>1 DEF Shape, InTurn
  <2>2. NextIndex(document[i]) \in Nat
    BY IndexBounds
  <2>3. Stored(document, i)
    BY <1>12 DEF Shape, Rooted, SameChain, Stored, Known
  <2>. QED
    BY <1>2, <2>1, <2>2, <2>3 DEF Shape, OneLeaf
<1>14. Rooted(new)
  <2> SUFFICES ASSUME NEW i \in Ids, Known(new, i)
               PROVE  /\ new[i].root \in Ids /\ Known(new, new[i].root)
                      /\ new[new[i].root].root = new[i].root
                      /\ new[i].status = "archived" <=> new[new[i].root].status = "archived"
                      /\ new[i].first \in Nat \ {0}
                      /\ new[i].parent = None => new[i].root = i
    BY DEF Rooted
  <2>1. CASE i = id
    <3>1. document[p].root # id
      BY <1>12
    <3>2. NextIndex(document[p]) # 0
      BY <1>2, <1>12
    <3>3. /\ new[i].root = document[p].root /\ new[i].status = "running"
          /\ new[i].first = NextIndex(document[p]) /\ new[i].parent = p
      BY <1>3, <1>4, <2>1
    <3>4. /\ Known(new, document[p].root) /\ new[document[p].root].root = document[p].root
          /\ new[document[p].root].status # "archived"
      BY <1>5, <1>7, <1>12, <3>1
    <3>5. p # None
      OBVIOUS
    <3>. QED
      BY <1>2, <1>12, <3>2, <3>3, <3>4, <3>5
  <2>2. CASE i # id
    <3>1. /\ document[i].root \in Ids /\ Known(document, document[i].root)
          /\ document[document[i].root].root = document[i].root
          /\ document[i].status = "archived" <=> document[document[i].root].status = "archived"
          /\ document[i].first \in Nat \ {0}
          /\ document[i].parent = None => document[i].root = i
      BY <1>7, <2>2 DEF Shape, Rooted
    <3>2. document[i].root # id
      BY <3>1
    <3>. QED
      BY <1>5, <1>7, <2>2, <3>1, <3>2
  <2>. QED
    BY <2>1, <2>2
<1>15. OneLeaf(new)
  <2> SUFFICES ASSUME NEW i \in Ids, NEW j \in Ids, Stored(new, i), Stored(new, j), IsLeaf(new, i),
                      IsLeaf(new, j), SameChain(new, i, j)
               PROVE  i = j
    BY DEF OneLeaf
  <2>1. CASE i # id /\ j # id
    BY <1>7, <1>8, <1>9, <2>1 DEF Shape, OneLeaf
  <2>2. ASSUME NEW k \in Ids, k # id, Stored(new, k), IsLeaf(new, k), SameChain(new, k, id)
        PROVE  FALSE
    <3>1. k # p /\ Known(document, k) /\ SameChain(document, k, p) /\ IsLeaf(document, k)
      BY <1>7, <1>8, <1>10, <2>2 DEF Stored, Known
    <3>. QED
      BY <1>13, <3>1
  <2>. QED
    BY <1>11, <2>1, <2>2
<1>16. InTurn(new)
  <2> SUFFICES ASSUME NEW i \in Ids, NEW j \in Ids, Known(new, i), Known(new, j), i # j,
                      SameChain(new, i, j)
               PROVE  /\ \/ NextIndex(new[i]) <= new[j].first
                         \/ NextIndex(new[j]) <= new[i].first
                      /\ IsLeaf(new, j) => NextIndex(new[i]) <= new[j].first
    BY DEF InTurn
  <2>1. CASE i # id /\ j # id
    <3>1. Known(document, i) /\ Known(document, j) /\ SameChain(document, i, j)
      BY <1>7, <1>9, <2>1
    <3>2. IsLeaf(new, j) => IsLeaf(document, j)
      BY <1>8, <2>1
    <3>. QED
      BY <1>5, <2>1, <3>1, <3>2 DEF Shape, InTurn
  <2>2. CASE j = id
    <3>1. Known(document, i) /\ SameChain(document, i, p)
      BY <1>7, <1>10, <2>2
    <3>. QED
      BY <1>3, <1>4, <1>5, <1>13, <2>2, <3>1
  <2>3. CASE i = id
    <3>1. Known(document, j) /\ SameChain(document, j, p)
      BY <1>7, <1>10, <1>11, <2>3
    <3>2. NextIndex(new[j]) <= new[i].first
      BY <1>3, <1>4, <1>5, <1>13, <2>3, <3>1
    <3>3. ~IsLeaf(new, j)
      BY <1>8, <1>13, <2>3, <3>1
    <3>. QED
      BY <3>2, <3>3
  <2>. QED
    BY <2>1, <2>2, <2>3
<1>17. FreshIsUnsent(new, sent)
  BY <1>7 DEF Shape, FreshIsUnsent
<1>18. SuffixIsUnsent(new, sent)
  BY <1>1, <1>3, <1>4, <1>5, <1>7, <1>8 DEF Shape, SuffixIsUnsent
<1>. QED
  BY <1>14, <1>15, <1>16, <1>17, <1>18 DEF Shape, new, job


---------------------------------------------------------------------------
\* What the replay that is being applied relies on: it writes at the end of its
\* chain, and what it intends was not sent.
Sending == {"checking", "intending", "sent", "receipt", "recording", "clear"}
IsOwn(document) == Stored(document, op.id) /\ IsLeaf(document, op.id)
IsIntended(document) ==
    LET job == document[op.id] IN
    /\ job.pending /\ Len(job.outcomes) = op.index
    /\ job.first + op.index \in Indexes
    /\ sends[<<job.root, job.first + op.index>>] = 0

ReplayInv ==
    /\ op.step = "beginning" => IsOwn(next)
    /\ op.step \in Sending => IsOwn(disk) /\ IsOwn(next)
    /\ op.step = "intending" => IsIntended(next)
    /\ op.step = "clear" => IsIntended(disk)
    /\ op.step \in {"checking", "sent", "receipt", "clear"} => writing = "idle"
    /\ SentIsKnown

\* Either document may be the one that is found after a crash.
HistoryInv ==
    /\ Shape(disk, sends) /\ Shape(next, sends)
    /\ writing # "started" => next = disk

RepairInv == TypeOK /\ OneHistoryUser /\ HistoryInv /\ ReplayInv

LEMMA HistoryStays ==
    ASSUME TypeOK, HistoryInv, UNCHANGED sends,
           UNCHANGED journalVars \/ WriteLands \/ Confirm \/ Fail \/ ReopenJournal
    PROVE  HistoryInv'
<1>1. CASE UNCHANGED journalVars
  BY <1>1 DEF HistoryInv, journalVars
<1>2. CASE WriteLands
  BY <1>2 DEF HistoryInv, WriteLands
<1>3. CASE Confirm
  BY <1>3 DEF HistoryInv, Confirm
<1>4. CASE Fail
  BY <1>4 DEF HistoryInv, Fail
<1>5. CASE ReopenJournal
  BY <1>5 DEF HistoryInv, ReopenJournal
<1>. QED
  BY <1>1, <1>2, <1>3, <1>4, <1>5

LEMMA HistoryMutates ==
    ASSUME HistoryInv, UNCHANGED sends, NEW document, Mutate(document), Shape(document, sends)
    PROVE  HistoryInv' /\ next' = document /\ disk' = disk /\ next = disk
  BY DEF HistoryInv, Mutate

LEMMA JobUpdated ==
    ASSUME TypeOK, HistoryInv, UNCHANGED sends, NEW id \in Ids, NEW job \in Job, Update(id, job),
           job.status \notin {"absent", "archived"},
           job.root = disk[id].root, job.parent = disk[id].parent, job.first = disk[id].first,
           job.continuation = disk[id].continuation,
           \/ NextIndex(job) = NextIndex(disk[id])
           \/ /\ IsLeaf(disk, id)
              /\ \A k \in NextIndex(job) .. Total : sends[<<job.root, k>>] = 0
    PROVE  /\ HistoryInv' /\ disk' = disk
           /\ next'[id] = job /\ Stored(next', id)
           /\ IsLeaf(next', id) <=> IsLeaf(disk, id)
<1>1. disk \in [Ids -> Job] /\ Shape(disk, sends) /\ Stored(disk, id)
  BY DEF TypeOK, JournalTyped, HistoryInv, Update
<1>2. Shape([disk EXCEPT ![id] = job], sends)
  BY <1>1, JobKeepsPlace
<1>3. HistoryInv' /\ next' = [disk EXCEPT ![id] = job] /\ disk' = disk
  BY <1>2, HistoryMutates DEF Update
<1>4. next'[id] = job
  BY <1>1, <1>3
<1>. QED
  BY <1>3, <1>4 DEF Stored, IsLeaf

LEMMA StatusAndPlace ==
    ASSUME NEW job \in Job
    PROVE  /\ LET intended == [job EXCEPT !.pending = TRUE] IN
              /\ intended \in Job
              /\ ~job.pending => NextIndex(intended) = NextIndex(job) + 1
              /\ intended.status = job.status /\ intended.root = job.root
              /\ intended.parent = job.parent /\ intended.first = job.first
              /\ intended.continuation = job.continuation /\ intended.pending
              /\ intended.outcomes = job.outcomes
           /\ LET withdrawn == [job EXCEPT !.pending = FALSE] IN
              /\ withdrawn \in Job
              /\ NextIndex(withdrawn) = job.first + Len(job.outcomes)
              /\ withdrawn.status = job.status /\ withdrawn.root = job.root
              /\ withdrawn.parent = job.parent /\ withdrawn.first = job.first
              /\ withdrawn.continuation = job.continuation
           /\ \A o \in Outcomes :
              LET received == [job EXCEPT !.pending = FALSE, !.outcomes = Append(@, o)] IN
              /\ received \in Job
              /\ job.pending => NextIndex(received) = NextIndex(job)
              /\ received.status = job.status /\ received.root = job.root
              /\ received.parent = job.parent /\ received.first = job.first
              /\ received.continuation = job.continuation
<1>1. /\ job.first \in Nat /\ job.outcomes \in Seq(Outcomes) /\ Len(job.outcomes) \in Nat
      /\ job.pending \in BOOLEAN
  BY DEF Job
<1>2. /\ [job EXCEPT !.pending = TRUE] \in Job /\ [job EXCEPT !.pending = FALSE] \in Job
      /\ \A o \in Outcomes : [job EXCEPT !.pending = FALSE, !.outcomes = Append(@, o)] \in Job
  BY JobChanged
<1>3. \A o \in Outcomes : Len(Append(job.outcomes, o)) = Len(job.outcomes) + 1
  BY <1>1
<1>4. LET intended == [job EXCEPT !.pending = TRUE] IN
      /\ ~job.pending => NextIndex(intended) = NextIndex(job) + 1
      /\ intended.status = job.status /\ intended.root = job.root
      /\ intended.parent = job.parent /\ intended.first = job.first
      /\ intended.continuation = job.continuation /\ intended.pending
      /\ intended.outcomes = job.outcomes
  BY <1>1 DEF Job, NextIndex
<1>5. LET withdrawn == [job EXCEPT !.pending = FALSE] IN
      /\ NextIndex(withdrawn) = job.first + Len(job.outcomes)
      /\ withdrawn.status = job.status /\ withdrawn.root = job.root
      /\ withdrawn.parent = job.parent /\ withdrawn.first = job.first
      /\ withdrawn.continuation = job.continuation
  BY <1>1 DEF Job, NextIndex
<1>6. ASSUME NEW o \in Outcomes
      PROVE  LET received == [job EXCEPT !.pending = FALSE, !.outcomes = Append(@, o)] IN
             /\ job.pending => NextIndex(received) = NextIndex(job)
             /\ received.status = job.status /\ received.root = job.root
             /\ received.parent = job.parent /\ received.first = job.first
             /\ received.continuation = job.continuation
  BY <1>1, <1>3 DEF Job, NextIndex
<1>. QED
  BY <1>2, <1>4, <1>5, <1>6

LEMMA IntentKeeps ==
    ASSUME TypeOK, HistoryInv, UNCHANGED sends, op'.id = op.id, op'.index = op.index, op.id \in Ids, op.index \in Nat,
           Intent(op.id, op.index), IsLeaf(disk, op.id)
    PROVE  HistoryInv' /\ disk' = disk /\ IsOwn(next)' /\ IsIntended(next)'
<1> DEFINE job == disk[op.id]
           intended == [job EXCEPT !.pending = TRUE]
<1>1. /\ job \in Job /\ Stored(disk, op.id) /\ ~job.pending /\ op.index = Len(job.outcomes)
      /\ Update(op.id, intended) /\ job.status = "running"
  BY DEF TypeOK, JournalTyped, Intent, Update
<1>2. Shape(disk, sends) /\ job.first \in Nat \ {0} /\ NextIndex(job) = job.first + op.index
  <2>1. Known(disk, op.id)
    BY <1>1 DEF Stored, Known
  <2>2. Shape(disk, sends)
    BY DEF HistoryInv
  <2>. QED
    BY <1>1, <2>1, <2>2 DEF Shape, Rooted, NextIndex, Job
<1>3. /\ intended \in Job /\ NextIndex(intended) = NextIndex(job) + 1
      /\ intended.status = job.status /\ intended.root = job.root /\ intended.parent = job.parent
      /\ intended.first = job.first /\ intended.continuation = job.continuation
      /\ intended.pending /\ intended.outcomes = job.outcomes
  BY <1>1, StatusAndPlace
<1>4. \A k \in NextIndex(job) .. Total : sends[<<job.root, k>>] = 0
  BY <1>1, <1>2 DEF Shape, SuffixIsUnsent
<1>5. NextIndex(intended) <= Total + 1
  <2>1. Parses([disk EXCEPT ![op.id] = intended])
    BY <1>1 DEF Update, Mutate
  <2>2. [disk EXCEPT ![op.id] = intended][op.id] = intended
    BY DEF TypeOK, JournalTyped
  <2>3. Stored([disk EXCEPT ![op.id] = intended], op.id)
    BY <1>1, <1>3, <2>2 DEF Stored
  <2>. QED
    BY <2>1, <2>2, <2>3 DEF Parses
<1> HIDE DEF intended, job
<1>6. NextIndex(job) \in Nat
  BY <1>1, NextIndexTyped
<1>7. \A k \in NextIndex(intended) .. Total : sends[<<intended.root, k>>] = 0
  BY <1>3, <1>4, <1>6
<1>8. /\ HistoryInv' /\ disk' = disk /\ next'[op.id] = intended /\ Stored(next', op.id)
      /\ IsLeaf(next', op.id)
  BY <1>1, <1>3, <1>7, JobUpdated DEF job
<1>9. job.first + op.index \in Indexes /\ sends[<<job.root, job.first + op.index>>] = 0
  BY <1>2, <1>3, <1>4, <1>5, <1>6 DEF Indexes
<1>. QED
  BY <1>1, <1>3, <1>8, <1>9 DEF IsOwn, IsIntended

LEMMA WithdrawKeeps ==
    ASSUME TypeOK, HistoryInv, UNCHANGED sends, op.id \in Ids, op.index \in Nat,
           Withdraw(op.id, op.index), IsLeaf(disk, op.id), IsIntended(disk)
    PROVE  HistoryInv'
<1> DEFINE job == disk[op.id]
           withdrawn == [job EXCEPT !.pending = FALSE]
<1>1. /\ job \in Job /\ Stored(disk, op.id) /\ job.pending /\ op.index = Len(job.outcomes)
      /\ Update(op.id, withdrawn)
  BY DEF TypeOK, JournalTyped, Withdraw, Update
<1>2. /\ withdrawn \in Job /\ NextIndex(withdrawn) = job.first + op.index
      /\ withdrawn.status = job.status /\ withdrawn.root = job.root
      /\ withdrawn.parent = job.parent /\ withdrawn.first = job.first
      /\ withdrawn.continuation = job.continuation
  BY <1>1, StatusAndPlace
<1>3. NextIndex(job) = job.first + op.index + 1 /\ job.first \in Nat
  BY <1>1 DEF NextIndex, Job
<1>4. sends[<<job.root, job.first + op.index>>] = 0
  BY DEF IsIntended
<1>5. \A k \in NextIndex(job) .. Total : sends[<<job.root, k>>] = 0
  BY <1>1 DEF HistoryInv, Shape, SuffixIsUnsent
<1>6. job.status \notin {"absent", "archived"}
  BY <1>1 DEF Stored
<1> HIDE DEF withdrawn, job
<1>7. \A k \in NextIndex(withdrawn) .. Total : sends[<<withdrawn.root, k>>] = 0
  <2> SUFFICES ASSUME NEW k \in (job.first + op.index) .. Total
               PROVE  sends[<<job.root, k>>] = 0
    BY <1>2
  <2>1. CASE k = job.first + op.index
    BY <1>4, <2>1
  <2>2. CASE k # job.first + op.index
    BY <1>3, <1>5, <2>2
  <2>. QED
    BY <2>1, <2>2
<1>. QED
  BY <1>1, <1>2, <1>6, <1>7, JobUpdated DEF job

\* Neither a receipt nor a finding nor the end of a job says more of what was sent.
LEMMA ReceiptKeeps ==
    ASSUME TypeOK, HistoryInv, UNCHANGED sends, op.id \in Ids, op.index \in Nat,
           NEW outcome \in Outcomes, Receipt(op.id, op.index, outcome)
    PROVE  /\ HistoryInv' /\ disk' = disk /\ Stored(next', op.id)
           /\ IsLeaf(next', op.id) <=> IsLeaf(disk, op.id)
<1> DEFINE job == disk[op.id]
           received == [job EXCEPT !.pending = FALSE, !.outcomes = Append(@, outcome)]
<1>1. job \in Job /\ Stored(disk, op.id) /\ job.pending /\ Update(op.id, received)
  BY DEF TypeOK, JournalTyped, Receipt, Update
<1>2. /\ received \in Job /\ NextIndex(received) = NextIndex(job)
      /\ received.status = job.status /\ received.root = job.root
      /\ received.parent = job.parent /\ received.first = job.first
      /\ received.continuation = job.continuation
  BY <1>1, StatusAndPlace, ZenonT(40)
<1>3. job.status \notin {"absent", "archived"}
  BY <1>1 DEF Stored
<1> HIDE DEF received, job
<1>. QED
  BY <1>1, <1>2, <1>3, JobUpdated DEF job

LEMMA FinishKeeps ==
    ASSUME TypeOK, HistoryInv, UNCHANGED sends, op.id \in Ids, NEW complete \in BOOLEAN,
           Finish(op.id, complete)
    PROVE  HistoryInv'
<1> DEFINE job == disk[op.id]
           finished == [job EXCEPT !.status = IF complete THEN "complete" ELSE "stopped"]
<1>1. job \in Job /\ Stored(disk, op.id) /\ Update(op.id, finished)
  BY DEF TypeOK, JournalTyped, Finish, Update
<1>2. /\ finished \in Job /\ NextIndex(finished) = NextIndex(job)
      /\ finished.status \notin {"absent", "archived"} /\ finished.root = job.root
      /\ finished.parent = job.parent /\ finished.first = job.first
      /\ finished.continuation = job.continuation
  <2> DEFINE s == IF complete THEN "complete" ELSE "stopped"
  <2>1. finished \in Job
    BY <1>1, JobChanged
  <2>2. finished = [job EXCEPT !.status = s] /\ s \notin {"absent", "archived"}
    OBVIOUS
  <2> HIDE DEF finished, s, job
  <2>. QED
    BY <1>1, <2>1, <2>2 DEF Job, NextIndex
<1> HIDE DEF finished, job
<1>. QED
  BY <1>1, <1>2, JobUpdated DEF job

LEMMA FindingKeeps ==
    ASSUME TypeOK, HistoryInv, UNCHANGED sends, NEW id \in Ids, NEW snapshot,
           RecordFinding(id, snapshot, Active)
    PROVE  HistoryInv'
<1> DEFINE job == disk[id]
           found == [job EXCEPT !.findings = @ + 1]
<1>1. job \in Job /\ Stored(disk, id) /\ Update(id, found)
  BY DEF TypeOK, JournalTyped, RecordFinding, Update
<1>2. /\ found \in Job /\ NextIndex(found) = NextIndex(job)
      /\ found.status = job.status /\ found.root = job.root
      /\ found.parent = job.parent /\ found.first = job.first
      /\ found.continuation = job.continuation
  <2>1. found \in Job
    BY <1>1, JobChanged
  <2> HIDE DEF job
  <2>. QED
    BY <1>1, <2>1 DEF Job, NextIndex
<1>3. job.status \notin {"absent", "archived"}
  BY <1>1 DEF Stored
<1> HIDE DEF found, job
<1>. QED
  BY <1>1, <1>2, <1>3, JobUpdated DEF job

LEMMA BeginKeeps ==
    ASSUME TypeOK, HistoryInv, UNCHANGED sends, op'.id = op.id, op'.index = op.index, op.id \in Ids,
           NEW parent \in Ids \union {None}, NEW snapshot \in Job, parent = None => snapshot = NoJob,
           Begin(op.id, parent, snapshot, Active)
    PROVE  HistoryInv' /\ IsOwn(next)'
<1> DEFINE id == op.id
           child == [NoJob EXCEPT !.status = "running",
                                  !.root = IF parent = None THEN id ELSE snapshot.root,
                                  !.first = NextIndex(snapshot), !.parent = parent]
           added == [disk EXCEPT ![id] = child]
<1>1. disk \in [Ids -> Job] /\ Shape(disk, sends) /\ ~Known(disk, id)
  BY DEF TypeOK, JournalTyped, HistoryInv, Begin, Known
<1>2. CASE parent = None
  <2>1. NextIndex(snapshot) = 1
    BY <1>2 DEF NextIndex, NoJob
  <2>2. child = NewJob(id, 1, None)
    BY <1>2, <2>1 DEF NewJob
  <2>3. Mutate(added)
    BY <1>2 DEF Begin
  <2> HIDE DEF child
  <2>4. Shape(added, sends)
    BY <1>1, <2>2, ChainBegins
  <2>5. HistoryInv' /\ next' = added
    BY <2>3, <2>4, HistoryMutates
  <2>6. next'[id] = child
    BY <1>1, <2>5
  <2>7. child.status = "running" /\ child.continuation = None
    BY <2>2, NewJobFacts
  <2>. QED
    BY <2>5, <2>6, <2>7 DEF IsOwn, Stored, IsLeaf
<1>3. CASE parent # None
  <2> DEFINE document == [added EXCEPT ![parent].continuation = id]
  <2>1. /\ parent \in Ids /\ Stored(disk, parent) /\ disk[parent] = snapshot
        /\ IsLeaf(disk, parent) /\ parent # id
    BY <1>1, <1>3 DEF Begin, IsLeaf, Stored, Known
  <2>2. child = NewJob(disk[parent].root, NextIndex(disk[parent]), parent)
    BY <1>3, <2>1 DEF NewJob
  <2>3. Mutate(document)
    BY <1>3 DEF Begin
  <2>4. NextIndex(disk[parent]) \in Nat
    BY <1>1, <2>1, NextIndexTyped
  <2> HIDE DEF child
  <2>5. Shape(document, sends)
    BY <1>1, <2>1, <2>2, ChainContinues
  <2>6. HistoryInv' /\ next' = document
    BY <2>3, <2>5, HistoryMutates
  <2>7. next'[id] = child
    BY <1>1, <2>1, <2>6
  <2>8. child.status = "running" /\ child.continuation = None
    BY <2>2, <2>4, NewJobFacts
  <2>. QED
    BY <2>6, <2>7, <2>8 DEF IsOwn, Stored, IsLeaf
<1>. QED
  BY <1>2, <1>3

LEMMA ArchiveKeeps ==
    ASSUME TypeOK, HistoryInv, UNCHANGED sends, NEW root \in Ids, Archive(root, Active)
    PROVE  HistoryInv'
<1> DEFINE document == [i \in Ids |-> IF i \in Chain(disk, root)
                                      THEN [disk[i] EXCEPT !.status = "archived"] ELSE disk[i]]
<1>1. disk \in [Ids -> Job] /\ Shape(disk, sends) /\ Stored(disk, root) /\ disk[root].parent = None
  BY DEF TypeOK, JournalTyped, HistoryInv, Archive
<1>2. disk[root].root = root
  BY <1>1 DEF Shape, Rooted, Stored, Known
<1>3. Shape(document, sends)
  BY <1>1, <1>2, ChainGoes
<1>4. Mutate(document)
  BY DEF Archive
<1>. QED
  BY <1>3, <1>4, HistoryMutates

\* The record that is sent is the one that the history calls uncertain.
LEMMA DispatchKeeps ==
    ASSUME TypeOK, HistoryInv, op.id \in Ids, op.index \in Nat, UNCHANGED <<disk, next>>, writing' = "idle",
           writing = "landed", IsOwn(next), IsIntended(next),
           sends' = [sends EXCEPT ![Record(op.id, op.index)] = @ + 1]
    PROVE  HistoryInv' /\ Record(op.id, op.index) \in Records
<1> DEFINE r == Record(op.id, op.index)
           job == disk[op.id]
<1>1. next = disk /\ Shape(disk, sends) /\ disk \in [Ids -> Job] /\ job \in Job
  BY DEF HistoryInv, TypeOK, JournalTyped
<1>2. /\ Stored(disk, op.id) /\ IsLeaf(disk, op.id) /\ job.pending /\ Len(job.outcomes) = op.index
      /\ job.first + op.index \in Indexes
  BY <1>1 DEF IsOwn, IsIntended
<1>3. r = <<job.root, job.first + op.index>> /\ NextIndex(job) = job.first + op.index + 1
      /\ job.first \in Nat
  BY <1>1, <1>2 DEF Record, NextIndex, Job
<1>4. job.root \in Ids /\ Known(disk, job.root)
  BY <1>1, <1>2 DEF Shape, Rooted, Stored, Known
<1>5. r \in Records
  BY <1>2, <1>3, <1>4 DEF Records
<1>6. \A i \in Ids, k \in Indexes : <<i, k>> # r => sends'[<<i, k>>] = sends[<<i, k>>]
  BY DEF TypeOK, Records
<1> HIDE DEF r, job
<1>7. FreshIsUnsent(disk, sends')
  BY <1>1, <1>3, <1>4, <1>6 DEF Shape, FreshIsUnsent
<1>8. SuffixIsUnsent(disk, sends')
  <2> SUFFICES ASSUME NEW i \in Ids, Stored(disk, i), IsLeaf(disk, i),
                      NEW k \in NextIndex(disk[i]) .. Total
               PROVE  sends'[<<disk[i].root, k>>] = 0
    BY DEF SuffixIsUnsent
  <2>1. sends[<<disk[i].root, k>>] = 0
    BY <1>1 DEF Shape, SuffixIsUnsent
  <2>2. disk[i].root \in Ids /\ disk[i].first \in Nat \ {0}
    BY <1>1 DEF Shape, Rooted, Stored, Known
  <2>3. NextIndex(disk[i]) \in Nat /\ disk[i].first <= NextIndex(disk[i])
    BY <1>1, IndexBounds
  <2>4. k \in Indexes
    BY <2>2, <2>3 DEF Indexes
  <2>5. CASE disk[i].root = disk[op.id].root
    <3>1. i = op.id
      BY <1>1, <1>2, <2>5 DEF Shape, OneLeaf, SameChain
    <3>2. k >= NextIndex(job)
      BY <2>3, <3>1 DEF job
    <3>3. k # job.first + op.index
      BY <1>2, <1>3, <3>2 DEF Indexes
    <3>4. <<disk[i].root, k>> # r
      BY <1>3, <3>3
    <3>. QED
      BY <1>6, <2>1, <2>2, <2>4, <3>4
  <2>6. CASE disk[i].root # disk[op.id].root
    BY <1>3, <1>6, <2>1, <2>2, <2>4, <2>6 DEF job
  <2>. QED
    BY <2>5, <2>6
<1>9. Shape(disk, sends')
  BY <1>1, <1>7, <1>8 DEF Shape
<1>. QED
  BY <1>1, <1>5, <1>9 DEF HistoryInv, r

LEMMA RepairInit == Init => RepairInv
<1> SUFFICES ASSUME Init PROVE RepairInv
  OBVIOUS
<1>1. /\ disk = [i \in Ids |-> NoJob] /\ next = disk /\ writing = "idle" /\ fenced = FALSE
      /\ plan = [i \in Ids |-> NoPlan] /\ plans = <<>> /\ op = NoOp /\ rec = NoTask
      /\ sends = [r \in Records |-> 0] /\ broker = [r \in Records |-> "none"] /\ bounds \in Bounds
  BY DEF Init, JournalInit
<1>2. NoPlan \in LinkedPlan
  BY NoJobTyped DEF NoPlan, LinkedPlan, Plan
<1>3. PlansTyped /\ JournalTyped
  BY <1>1, <1>2, NoJobTyped DEF PlansTyped, JournalTyped
<1>4. plans \in Seq(Ids) /\ op \in Op /\ rec \in Task
  <2>1. <<>> \in Seq(Ids)
    OBVIOUS
  <2>. QED
    BY <1>1, <2>1, NoOpTyped, NoTaskTyped
<1>5. BrokerTyped /\ BoundsTyped
  BY <1>1 DEF BrokerTyped, BoundsTyped
<1>6. TypeOK
  BY <1>3, <1>4, <1>5, TypesSplit
<1>7. OneHistoryUser /\ ReplayInv
  BY <1>1 DEF OneHistoryUser, ReplayInv, NoOp, Sending, SentIsKnown
<1>8. \A i \in Ids : ~Known(disk, i)
  BY <1>1 DEF Known, NoJob
<1>9. Shape(disk, sends)
  BY <1>1, <1>8 DEF Shape, Rooted, OneLeaf, InTurn, FreshIsUnsent, SuffixIsUnsent, Known, Stored, Records
<1>. QED
  BY <1>1, <1>6, <1>7, <1>9 DEF RepairInv, HistoryInv

\* A step that leaves the replay and its record alone.
LEMMA ReplayRests ==
    ASSUME ReplayInv, UNCHANGED <<op, sends>>,
           \/ UNCHANGED journalVars
           \/ WriteLands
           \/ op.step = "idle"
    PROVE  ReplayInv'
<1>1. CASE UNCHANGED journalVars
  BY <1>1 DEF ReplayInv, IsOwn, IsIntended, SentIsKnown, Record, journalVars
<1>2. CASE WriteLands
  <2>1. /\ writing = "started" /\ disk' = next /\ next' = next /\ UNCHANGED <<op, sends>>
        /\ op.step \notin {"checking", "sent", "receipt", "clear"}
    BY <1>2 DEF WriteLands, ReplayInv
  <2>2. IsIntended(next) => IsIntended(next)'
    BY <2>1 DEF IsIntended
  <2>3. IsOwn(next) => IsOwn(next)' /\ IsOwn(disk)'
    BY <2>1 DEF IsOwn
  <2>. QED
    BY <2>1, <2>2, <2>3 DEF ReplayInv, SentIsKnown
<1>3. CASE op.step = "idle"
  BY <1>3 DEF ReplayInv, Sending, SentIsKnown
<1>. QED
  BY <1>1, <1>2, <1>3

\* What the replay does next is one of the steps that rely on nothing.
LEMMA ReplaySettles ==
    ASSUME op'.step \in {"idle", "begin", "clearing", "closing", "finishing"}
    PROVE  ReplayInv'
  BY DEF ReplayInv, Sending, SentIsKnown

LEMMA ReplayStepKeeps ==
    ASSUME RepairInv, ReplaySteps
    PROVE  HistoryInv' /\ ReplayInv' /\ OneHistoryUser'
<1>1. /\ TypeOK /\ HistoryInv /\ ReplayInv /\ OneHistoryUser /\ op \in Op
      /\ op.step # "idle" => op.id \in Ids
      /\ op.index \in Nat /\ op.complete \in BOOLEAN /\ op.outcome \in Outcomes
  BY TypesSplit DEF RepairInv, Op
<1>2. op.step # "idle" /\ op.id \in Ids /\ rec.step = "idle"
  <2>1. op.step # "idle"
    BY DEF ReplaySteps, BeginJob, JobBegun, BatchEnds, JournalRefuses, IntendRecord, Dispatch, HoldBack,
           WithdrawIntent, WriteSettles, RecordReceipt, RecordSettled, BatchSettled, CommitFails,
           FinishJob, EndReplay
  <2>. QED
    BY <1>1, <2>1 DEF OneHistoryUser
<1>3. rec' = rec
  BY DEF ReplaySteps, BeginJob, JobBegun, BatchEnds, JournalRefuses, IntendRecord, Dispatch, HoldBack,
         WithdrawIntent, WriteSettles, RecordReceipt, RecordSettled, BatchSettled, CommitFails,
         FinishJob, EndReplay, opRest, recoveryVars
<1>4. OneHistoryUser'
  BY <1>2, <1>3 DEF OneHistoryUser
<1>5. \A s : op' = [op EXCEPT !.step = s] =>
               op'.step = s /\ op'.id = op.id /\ op'.index = op.index
  BY <1>1 DEF Op
<1>6. CASE BeginJob
  <2> DEFINE p == plan[op.id]
  <2>1. p \in LinkedPlan
    BY <1>1, <1>2, TypesSplit DEF PlansTyped
  <2>2. p.parent \in Ids \union {None} /\ p.snapshot \in Job /\ (p.parent = None => p.snapshot = NoJob)
    BY <2>1 DEF LinkedPlan, Plan
  <2>3. Begin(op.id, p.parent, p.snapshot, Active) /\ op' = [op EXCEPT !.step = "beginning"] /\ sends' = sends
    BY <1>6 DEF BeginJob
  <2>4. op'.step = "beginning" /\ op'.id = op.id /\ op'.index = op.index
    BY <1>5, <2>3
  <2> HIDE DEF p
  <2>5. HistoryInv' /\ IsOwn(next)'
    BY <1>1, <1>2, <2>2, <2>3, <2>4, BeginKeeps
  <2>. QED
    BY <1>4, <2>4, <2>5 DEF ReplayInv, Sending, SentIsKnown
<1>7. CASE JobBegun
  <2>1. Confirm /\ sends' = sends /\ op.step = "beginning" /\ op'.step = "checking" /\ op'.id = op.id
    BY <1>1, <1>7 DEF JobBegun, Op
  <2>2. HistoryInv'
    BY <1>1, <2>1, HistoryStays
  <2>3. writing' = "idle" /\ disk' = next /\ next' = next
    BY <1>1, <2>1 DEF Confirm, HistoryInv
  <2>4. IsOwn(disk)' /\ IsOwn(next)'
    BY <1>1, <2>1, <2>3 DEF ReplayInv, IsOwn
  <2>. QED
    BY <1>4, <2>1, <2>2, <2>3, <2>4 DEF ReplayInv, Sending, SentIsKnown
<1>8. CASE BatchEnds \/ JournalRefuses \/ BatchSettled \/ CommitFails
  <2>1. op'.step = "closing" /\ sends' = sends
    BY <1>8 DEF BatchEnds, JournalRefuses, BatchSettled, CommitFails, Stop, StopWith, NoOp
  <2>2. UNCHANGED journalVars \/ Confirm \/ Fail
    BY <1>8 DEF BatchEnds, JournalRefuses, BatchSettled, CommitFails, Stop
  <2>. QED
    BY <1>1, <1>4, <2>1, <2>2, HistoryStays, ReplaySettles
<1>9. CASE IntendRecord
  <2>1. /\ op.step = "checking" /\ Intent(op.id, op.index) /\ sends' = sends
        /\ op'.step = "intending" /\ op'.id = op.id /\ op'.index = op.index
    BY <1>5, <1>9 DEF IntendRecord
  <2>2. IsOwn(disk)
    BY <1>1, <2>1 DEF ReplayInv, Sending
  <2>3. HistoryInv' /\ disk' = disk /\ IsOwn(next)' /\ IsIntended(next)'
    BY <1>1, <1>2, <2>1, <2>2, IntentKeeps DEF IsOwn
  <2>4. IsOwn(disk)'
    BY <2>1, <2>2, <2>3 DEF IsOwn
  <2>. QED
    BY <1>4, <2>1, <2>3, <2>4 DEF ReplayInv, SentIsKnown
<1>10. CASE Dispatch
  <2>1. /\ op.step = "intending" /\ Confirm /\ op'.step = "sent" /\ op'.id = op.id
        /\ op'.index = op.index /\ sends' = [sends EXCEPT ![Record(op.id, op.index)] = @ + 1]
    BY <1>5, <1>10 DEF Dispatch
  <2>2. IsOwn(disk) /\ IsOwn(next) /\ IsIntended(next)
    BY <1>1, <2>1 DEF ReplayInv, Sending
  <2>3. writing = "landed" /\ writing' = "idle" /\ disk' = disk /\ next' = next
    BY <2>1 DEF Confirm
  <2>4. HistoryInv' /\ Record(op.id, op.index) \in Records
    BY <1>1, <1>2, <2>1, <2>2, <2>3, DispatchKeeps
  <2>5. IsOwn(disk)' /\ IsOwn(next)' /\ SentIsKnown'
    BY <2>1, <2>2, <2>3, <2>4 DEF IsOwn, SentIsKnown, Record
  <2>. QED
    BY <1>4, <2>1, <2>3, <2>4, <2>5 DEF ReplayInv
<1>11. CASE HoldBack
  <2>1. /\ op.step = "intending" /\ Confirm /\ op'.step = "clear" /\ op'.id = op.id
        /\ op'.index = op.index /\ sends' = sends
    BY <1>5, <1>11 DEF HoldBack
  <2>2. IsOwn(disk) /\ IsOwn(next) /\ IsIntended(next)
    BY <1>1, <2>1 DEF ReplayInv, Sending
  <2>3. writing' = "idle" /\ disk' = next /\ next' = next
    BY <1>1, <2>1 DEF Confirm, HistoryInv
  <2>4. HistoryInv'
    BY <1>1, <2>1, HistoryStays
  <2>5. IsOwn(disk)' /\ IsOwn(next)' /\ IsIntended(disk)'
    BY <2>1, <2>2, <2>3 DEF IsOwn, IsIntended
  <2>. QED
    BY <1>4, <2>1, <2>3, <2>4, <2>5 DEF ReplayInv, SentIsKnown
<1>12. CASE WithdrawIntent
  <2>1. op.step = "clear" /\ Withdraw(op.id, op.index) /\ op'.step = "clearing" /\ sends' = sends
    BY <1>5, <1>12 DEF WithdrawIntent
  <2>2. IsLeaf(disk, op.id) /\ IsIntended(disk)
    BY <1>1, <2>1 DEF ReplayInv, Sending, IsOwn
  <2>3. HistoryInv'
    BY <1>1, <1>2, <2>1, <2>2, WithdrawKeeps
  <2>. QED
    BY <1>4, <2>1, <2>3, ReplaySettles
<1>13. CASE WriteSettles
  <2>1. /\ op.step = "sent" /\ UNCHANGED journalVars /\ sends' = sends /\ op'.step = "receipt"
        /\ op'.id = op.id
    BY <1>1, <1>13 DEF WriteSettles, Op
  <2>2. IsOwn(disk) /\ IsOwn(next) /\ writing = "idle"
    BY <1>1, <2>1 DEF ReplayInv, Sending
  <2>3. HistoryInv' /\ IsOwn(disk)' /\ IsOwn(next)' /\ writing' = "idle"
    BY <1>1, <2>1, <2>2, HistoryStays DEF IsOwn, journalVars
  <2>. QED
    BY <1>4, <2>1, <2>3 DEF ReplayInv, SentIsKnown
<1>14. CASE RecordReceipt
  <2>1. /\ op.step = "receipt" /\ Receipt(op.id, op.index, op.outcome) /\ sends' = sends
        /\ op'.step = "recording" /\ op'.id = op.id
    BY <1>5, <1>14 DEF RecordReceipt
  <2>2. IsOwn(disk)
    BY <1>1, <2>1 DEF ReplayInv, Sending
  <2>3. /\ HistoryInv' /\ disk' = disk /\ Stored(next', op.id)
        /\ IsLeaf(next', op.id) <=> IsLeaf(disk, op.id)
    BY <1>1, <1>2, <2>1, ReceiptKeeps
  <2>4. IsOwn(disk)' /\ IsOwn(next)'
    BY <2>1, <2>2, <2>3 DEF IsOwn
  <2>. QED
    BY <1>4, <2>1, <2>3, <2>4 DEF ReplayInv, SentIsKnown
<1>15. CASE RecordSettled
  <2>1. op.step = "recording" /\ Confirm /\ sends' = sends /\ op'.step = "checking" /\ op'.id = op.id
    BY <1>1, <1>15 DEF RecordSettled, Op
  <2>2. IsOwn(disk) /\ IsOwn(next)
    BY <1>1, <2>1 DEF ReplayInv, Sending
  <2>3. writing' = "idle" /\ disk' = disk /\ next' = next
    BY <2>1 DEF Confirm
  <2>4. HistoryInv' /\ IsOwn(disk)' /\ IsOwn(next)'
    BY <1>1, <2>1, <2>2, <2>3, HistoryStays DEF IsOwn
  <2>. QED
    BY <1>4, <2>1, <2>3, <2>4 DEF ReplayInv, SentIsKnown
<1>16. CASE FinishJob
  <2>1. Finish(op.id, op.complete) /\ op'.step = "finishing" /\ sends' = sends
    BY <1>5, <1>16 DEF FinishJob
  <2>. QED
    BY <1>1, <1>2, <1>4, <2>1, FinishKeeps, ReplaySettles
<1>17. CASE EndReplay
  <2>1. op'.step = "idle" /\ sends' = sends /\ (Confirm \/ Fail \/ UNCHANGED journalVars)
    BY <1>17 DEF EndReplay, NoOp
  <2>. QED
    BY <1>1, <1>4, <2>1, HistoryStays, ReplaySettles
<1>. QED
  BY <1>6, <1>7, <1>8, <1>9, <1>10, <1>11, <1>12, <1>13, <1>14, <1>15, <1>16, <1>17 DEF ReplaySteps

\* The steps of the plans and of the callers leave the history to others.
LEMMA HistoryRests ==
    ASSUME RepairInv, UNCHANGED <<op, sends>>, UNCHANGED journalVars \/ WriteLands
    PROVE  HistoryInv' /\ ReplayInv'
  BY HistoryStays, ReplayRests DEF RepairInv

LEMMA PlanStepKeeps ==
    ASSUME RepairInv, NEW i \in Ids, PlanSteps(i) \/ TargetCloses(i) \/ Expire(i)
    PROVE  HistoryInv' /\ ReplayInv' /\ OneHistoryUser'
<1>1. UNCHANGED <<op, sends>> /\ UNCHANGED journalVars
  BY DEF PlanSteps, OpenFails, OpenSucceeds, CheckFails, Publish, StartEviction, PublishAfterEviction,
         EvictionFails, EndDiscard, TargetCloses, Expire, brokerVars
<1>2. rec' = rec \/ rec' = NoTask
  BY DEF PlanSteps, OpenFails, OpenSucceeds, CheckFails, Publish, StartEviction, PublishAfterEviction,
         EvictionFails, EndDiscard, TargetCloses, Expire, recoveryVars, TaskAfter
<1>3. OneHistoryUser'
  BY <1>1, <1>2 DEF RepairInv, OneHistoryUser, NoTask
<1>. QED
  BY <1>1, <1>3, HistoryRests, SMTT(20)

LEMMA TaskStepKeeps ==
    ASSUME RepairInv, TaskSteps
    PROVE  HistoryInv' /\ ReplayInv' /\ OneHistoryUser'
<1>1. /\ TypeOK /\ HistoryInv /\ ReplayInv /\ OneHistoryUser
      /\ rec.step # "idle" => rec.job \in Ids
  BY TypesSplit DEF RepairInv, Task
<1>2. rec.step # "idle" /\ op' = op /\ sends' = sends
  BY DEF TaskSteps, TaskRefused, ArchiveChain, Observe, ObservationEnds, RecordObservation, TaskCommits,
         ReviewContinuation, recRest, brokerVars
<1>3. op.step = "idle" /\ op'.step = "idle" /\ rec.job \in Ids
  BY <1>1, <1>2 DEF OneHistoryUser
<1>4. ReplayInv' /\ OneHistoryUser'
  BY <1>3, ReplaySettles DEF OneHistoryUser
<1>5. CASE ArchiveChain
  BY <1>1, <1>2, <1>3, <1>4, <1>5, ArchiveKeeps DEF ArchiveChain
<1>6. CASE RecordObservation
  BY <1>1, <1>2, <1>3, <1>4, <1>6, FindingKeeps DEF RecordObservation
<1>7. CASE ~ArchiveChain /\ ~RecordObservation
  <2>1. UNCHANGED journalVars \/ Confirm \/ Fail
    BY <1>7 DEF TaskSteps, TaskRefused, Observe, ObservationEnds, TaskCommits, ReviewContinuation
  <2>. QED
    BY <1>1, <1>2, <1>4, <2>1, HistoryStays
<1>. QED
  BY <1>5, <1>6, <1>7

LEMMA OtherStepKeeps ==
    ASSUME RepairInv, InvalidationSteps \/ JournalWrites \/ Environment
                      \/ \E r \in Records : BrokerDecides(r)
    PROVE  HistoryInv' /\ ReplayInv' /\ OneHistoryUser'
<1>1. /\ TypeOK /\ HistoryInv /\ ReplayInv /\ OneHistoryUser
  BY DEF RepairInv
<1>2. CASE InvalidationSteps
  <2>1. UNCHANGED <<op, sends>> /\ UNCHANGED journalVars /\ rec' = rec
    BY <1>2 DEF InvalidationSteps, ReplayDrained, ReaderDrained, InvalidationEnds, recRest, recoveryVars,
                brokerVars
  <2>. QED
    BY <1>1, <2>1, HistoryRests DEF OneHistoryUser
<1>3. CASE JournalWrites
  <2>1. UNCHANGED <<op, sends>> /\ WriteLands /\ rec' = rec
    BY <1>3 DEF JournalWrites, replayVars, recoveryVars, brokerVars
  <2>. QED
    BY <1>1, <2>1, HistoryRests DEF OneHistoryUser
<1>4. ASSUME NEW r \in Records, BrokerDecides(r)
      PROVE  HistoryInv' /\ ReplayInv' /\ OneHistoryUser'
  <2>1. UNCHANGED <<op, sends>> /\ UNCHANGED journalVars /\ rec' = rec
    BY <1>4 DEF BrokerDecides, replayVars, recoveryVars
  <2>. QED
    BY <1>1, <2>1, HistoryRests DEF OneHistoryUser
<1>5. ASSUME NEW i \in Ids, Review(i) \/ Cancel(i) \/ LoseAuthority(i)
      PROVE  HistoryInv' /\ ReplayInv' /\ OneHistoryUser'
  <2>1. UNCHANGED <<op, sends>> /\ UNCHANGED journalVars /\ rec' = rec
    BY <1>5 DEF Review, Cancel, LoseAuthority, recoveryVars, brokerVars
  <2>. QED
    BY <1>1, <2>1, HistoryRests DEF OneHistoryUser
<1>6. ASSUME NEW i \in Ids, Apply(i)
      PROVE  HistoryInv' /\ ReplayInv' /\ OneHistoryUser'
  <2>1. op'.step = "begin" /\ sends' = sends /\ UNCHANGED journalVars
    BY <1>6 DEF Apply, NoOp, brokerVars
  <2>2. rec'.step = "idle"
    BY <1>6 DEF Apply, ReplayAvailable, recoveryVars
  <2>. QED
    BY <1>1, <2>1, <2>2, HistoryStays, ReplaySettles DEF OneHistoryUser
<1>7. ASSUME NEW i \in Ids, NEW kind, Recover(kind, i)
      PROVE  HistoryInv' /\ ReplayInv' /\ OneHistoryUser'
  <2>1. UNCHANGED <<op, sends>> /\ UNCHANGED journalVars /\ op.step = "idle"
    BY <1>7 DEF Recover, RecoveryAvailable, recRest, brokerVars
  <2>. QED
    BY <1>1, <2>1, HistoryRests DEF OneHistoryUser
<1>8. CASE Invalidate
  <2>1. UNCHANGED <<op, sends>> /\ UNCHANGED journalVars /\ rec' = rec
    BY <1>8 DEF Invalidate, recRest, recoveryVars, brokerVars
  <2>. QED
    BY <1>1, <2>1, HistoryRests DEF OneHistoryUser
<1>9. CASE Crash
  <2>1. op'.step = "idle" /\ sends' = sends /\ ReopenJournal
    BY <1>9 DEF Crash, NoOp, brokerVars
  <2>. QED
    BY <1>1, <2>1, HistoryStays, ReplaySettles DEF OneHistoryUser
<1>10. CASE Environment
  BY <1>5, <1>6, <1>7, <1>8, <1>9, <1>10 DEF Environment
<1>. QED
  BY <1>2, <1>3, <1>4, <1>10

LEMMA RepairStep == RepairInv /\ [Next]_vars => RepairInv'
<1> SUFFICES ASSUME RepairInv, [Next]_vars PROVE RepairInv'
  OBVIOUS
<1>1. TypeOK /\ SentIsKnown
  BY DEF RepairInv, ReplayInv
<1>2. ASSUME NEW i \in Ids, PlanSteps(i) \/ TargetCloses(i) \/ Expire(i)
      PROVE  RepairInv'
  BY <1>1, <1>2, PlanStepTyped, PlanStepKeeps DEF RepairInv
<1>3. CASE ReplaySteps
  BY <1>1, <1>3, ReplayStepTyped, ReplayStepKeeps DEF RepairInv
<1>4. CASE TaskSteps
  BY <1>1, <1>4, TaskStepTyped, TaskStepKeeps DEF RepairInv
<1>5. CASE InvalidationSteps \/ JournalWrites \/ Environment \/ \E r \in Records : BrokerDecides(r)
  BY <1>1, <1>5, OtherStepTyped, OtherStepKeeps DEF RepairInv
<1>6. CASE UNCHANGED vars
  <2>1. UNCHANGED <<op, sends>> /\ UNCHANGED journalVars /\ rec' = rec /\ plan' = plan /\ plans' = plans
        /\ UNCHANGED <<brokerVars, bounds>>
    BY <1>6 DEF vars, journalVars, brokerVars
  <2>2. PlansTyped /\ plans \in Seq(Ids)
    BY <1>1, TypesSplit
  <2>3. TypeOK'
    BY <1>1, <2>1, <2>2, PlansChange DEF PlansTyped
  <2>4. OneHistoryUser'
    BY <2>1 DEF RepairInv, OneHistoryUser
  <2>. QED
    BY <2>1, <2>3, <2>4, HistoryRests DEF RepairInv
<1>. QED
  BY <1>2, <1>3, <1>4, <1>5, <1>6 DEF Next

\* The inductive invariant behind the two results that follow.
THEOREM RepairInvariant == Spec => []RepairInv
  BY RepairInit, RepairStep, PTL DEF Spec

\* A replay and a recovery task never use the history at the same time.
THEOREM HistoryHasOneUser == Spec => []OneHistoryUser
<1>1. RepairInv => OneHistoryUser
  BY DEF RepairInv
<1>. QED
  BY <1>1, RepairInvariant, PTL

\* For any number of records, plans, continuations, crashes and failed commits:
\* what a continuation may send was never dispatched.
THEOREM UnsentStaysUnsent == Spec => []UnsentIsUnsent
<1>1. RepairInv => UnsentIsUnsent
  BY DEF RepairInv, HistoryInv, Shape, SuffixIsUnsent, UnsentIsUnsent, IsLeaf
<1>. QED
  BY <1>1, RepairInvariant, PTL

---------------------------------------------------------------------------
\* The plans. A review holds its destination open until it is published or
\* discarded. A published plan whose destination was closed is not applied any
\* more: it was revoked, its close failed, or the review it makes room for is
\* still there. A replay runs beside no review, so nothing makes it make room.
ReviewsHoldOpen ==
    \A i \in Ids :
        /\ plan[i].phase \in {"unused", "opening"} => plan[i].target = "none"
        /\ plan[i].phase \in {"checking", "evicting"} => plan[i].target = "open"
VictimsWereKept ==
    \A i \in Ids : plan[i].phase = "evicting" =>
        plan[i].victim \in Ids /\ plan[plan[i].victim].phase \in {"published", "gone"}
KeptWerePublished == \A n \in DOMAIN plans : plan[plans[n]].phase \in {"published", "gone"}
IsVictim(i) == \E j \in Ids : plan[j].phase = "evicting" /\ plan[j].victim = i
IsApplicable(p) == p.phase = "published" /\ p.valid /\ ~p.applied
ApplicableIsOpen ==
    \A i \in Ids : IsApplicable(plan[i]) => plan[i].target = "open" \/ CleanupUnconfirmed \/ IsVictim(i)
ReplayHoldsPlan ==
    op.step # "idle" => Reviews = {} /\ plan[op.id].phase = "published" /\ plan[op.id].applied

PlanInv ==
    /\ ReviewsHoldOpen /\ VictimsWereKept /\ KeptWerePublished /\ ApplicableIsOpen
    /\ ReplayHoldsPlan /\ DestinationOutlivesReplay

LEMMA PlanFields ==
    ASSUME NEW p \in LinkedPlan
    PROVE  /\ Closing(p).phase = p.phase /\ Closing(p).valid = p.valid /\ Closing(p).applied = p.applied
           /\ Closing(p).victim = p.victim /\ (Closing(p).target = p.target \/ p.target = "open")
           /\ Revoked(p).phase = p.phase /\ Revoked(p).valid = FALSE /\ Revoked(p).applied = p.applied
           /\ Revoked(p).victim = p.victim /\ Revoked(p).target = p.target
           /\ Gone(p).phase = "gone" /\ Gone(p).valid = FALSE /\ Gone(p).target = p.target
           /\ Discard(p).phase = "discarding" /\ Discard(p).valid = FALSE
           /\ Discard(p).target = p.target \/ p.target = "open"
           /\ Cancelled(p).phase = p.phase /\ Cancelled(p).valid = FALSE
           /\ Cancelled(p).applied = p.applied /\ Cancelled(p).victim = p.victim
           /\ Cancelled(p).target = p.target \/ (p.target = "open" /\ ~p.applied)
  BY DEF LinkedPlan, Plan, Closing, Revoked, Gone, Discard, Cancelled, NoPlan

LEMMA ReviewsAreIdle == 
    ASSUME PlanInv, NEW i \in Ids, plan[i].phase \in {"opening", "checking", "evicting"}
    PROVE  op.step = "idle"
  BY DEF PlanInv, ReplayHoldsPlan, Reviews

\* What is applied goes on or ends.
OpGoesOn ==
    op'.step # "idle" =>
        /\ op.step # "idle" /\ op'.id = op.id
        /\ op.step \in {"closing", "finishing"} => op'.step \in {"closing", "finishing"}

\* One plan moves on, and may be published.
LEMMA PlanMoves ==
    ASSUME TypeOK, PlanInv, NEW i \in Ids, NEW p \in LinkedPlan, plan' = [plan EXCEPT ![i] = p],
           plans' = plans \/ (p.phase = "published" /\ plans' = Append(plans, i)), op' = op \/ OpGoesOn,
           plan[i].target = "failed" => p.target = "failed",
           p.phase \in {"opening", "checking", "evicting"} => op.step = "idle",
           p.phase \in {"unused", "opening"} => p.target = "none",
           p.phase = "checking" => p.target = "open",
           p.phase = "evicting" => (plan[i].phase = "evicting" /\ p.target = plan[i].target
                                    /\ p.victim = plan[i].victim),
           plan[i].phase = "evicting" => (p.phase = "evicting" \/ CleanupUnconfirmed),
           plan[i].phase \in {"published", "gone"} => p.phase \in {"published", "gone"},
           IsApplicable(p) => (p.target = "open" \/ (IsApplicable(plan[i]) /\ plan[i].target # "open")),
           (op'.step # "idle" /\ op'.id = i) =>
              (p.phase = "published" /\ p.applied
               /\ (p.target = plan[i].target \/ op'.step \in {"closing", "finishing"}))
    PROVE  PlanInv'
<1>1. PlansTyped /\ plan \in [Ids -> LinkedPlan] /\ plans \in Seq(Ids)
      /\ (op.step # "idle" => op.id \in Ids)
  BY TypesSplit DEF PlansTyped, Op
<1>2. plan'[i] = p /\ \A j \in Ids : j # i => plan'[j] = plan[j]
  BY <1>1
<1>3. CleanupUnconfirmed => CleanupUnconfirmed'
  BY <1>2 DEF CleanupUnconfirmed
<1>4. ReviewsHoldOpen'
  BY <1>2 DEF PlanInv, ReviewsHoldOpen
<1>5. VictimsWereKept'
  BY <1>2 DEF PlanInv, VictimsWereKept
<1>6. KeptWerePublished'
  <2>1. \A n \in DOMAIN plans : plan'[plans[n]].phase \in {"published", "gone"}
    <3>1. \A n \in DOMAIN plans : plans[n] \in Ids
      BY <1>1
    <3>. QED
      BY <1>2, <3>1 DEF PlanInv, KeptWerePublished
  <2>2. CASE plans' = plans
    BY <2>1, <2>2 DEF KeptWerePublished
  <2>3. CASE p.phase = "published" /\ plans' = Append(plans, i)
    <3>1. \A n \in DOMAIN plans' : plans'[n] = i \/ (n \in DOMAIN plans /\ plans'[n] = plans[n])
      BY <1>1, <2>3
    <3>. QED
      BY <1>2, <2>1, <2>3, <3>1 DEF KeptWerePublished
  <2>. QED
    BY <2>2, <2>3
<1>7. ApplicableIsOpen'
  <2> SUFFICES ASSUME NEW j \in Ids, IsApplicable(plan[j])'
               PROVE  plan'[j].target = "open" \/ CleanupUnconfirmed' \/ IsVictim(j)'
    BY DEF ApplicableIsOpen
  <2>1. plan'[j].target = "open" \/ (IsApplicable(plan[j]) /\ plan[j].target # "open")
    <3>1. CASE j = i
      BY <1>2, <3>1 DEF IsApplicable
    <3>2. CASE j # i
      <4>1. plan'[j] = plan[j] /\ IsApplicable(plan[j])
        BY <1>2, <3>2 DEF IsApplicable
      <4>. QED
        BY <4>1
    <3>. QED
      BY <3>1, <3>2
  <2>2. IsApplicable(plan[j]) /\ plan[j].target # "open" => CleanupUnconfirmed \/ IsVictim(j)
    BY DEF PlanInv, ApplicableIsOpen
  <2>3. IsVictim(j) => IsVictim(j)' \/ CleanupUnconfirmed
    <3>1. ASSUME NEW k \in Ids, plan[k].phase = "evicting", plan[k].victim = j
          PROVE  CleanupUnconfirmed \/ (plan'[k].phase = "evicting" /\ plan'[k].victim = j)
      <4>1. CASE k = i
        BY <1>2, <3>1, <4>1
      <4>2. CASE k # i
        BY <1>2, <3>1, <4>2
      <4>. QED
        BY <4>1, <4>2
    <3>. QED
      BY <3>1 DEF IsVictim
  <2>. QED
    BY <1>3, <2>1, <2>2, <2>3
<1>10. OpGoesOn
  BY DEF OpGoesOn
<1>8. ReplayHoldsPlan'
  BY <1>1, <1>2, <1>10 DEF PlanInv, ReplayHoldsPlan, Reviews, OpGoesOn
<1>9. DestinationOutlivesReplay'
  BY <1>1, <1>2, <1>10 DEF PlanInv, DestinationOutlivesReplay, OpGoesOn
<1>. QED
  BY <1>4, <1>5, <1>6, <1>7, <1>8, <1>9 DEF PlanInv

\* A review that makes room starts to close the oldest plan.
LEMMA EvictionStarts ==
    ASSUME TypeOK, PlanInv, NEW i \in Ids, StartEviction(i)
    PROVE  PlanInv'
<1> DEFINE oldest == Head(plans)
<1>1. PlansTyped /\ plan \in [Ids -> LinkedPlan] /\ plans \in Seq(Ids) /\ plans # <<>>
  BY TypesSplit, RepairAssumption DEF PlansTyped, StartEviction
<1>2. oldest \in Ids /\ plan[oldest].phase \in {"published", "gone"} /\ oldest # i
  <2>1. 1 \in DOMAIN plans /\ oldest = plans[1] /\ oldest \in Ids
    BY <1>1
  <2>. QED
    BY <2>1 DEF PlanInv, KeptWerePublished, StartEviction
<1> HIDE DEF oldest
<1>3. plan' = [[plan EXCEPT ![oldest] = Closing(plan[oldest])] EXCEPT ![i].phase = "evicting", ![i].victim = oldest]
  BY <1>1, <1>2 DEF StartEviction, oldest
<1>4. plan'[oldest] = Closing(plan[oldest])
  BY <1>1, <1>2, <1>3
<1>5. plan'[i].phase = "evicting" /\ plan'[i].victim = oldest /\ plan'[i].target = "open"
      /\ ~IsApplicable(plan'[i])
  <2>1. plan'[i] = [[plan[i] EXCEPT !.phase = "evicting"] EXCEPT !.victim = oldest]
    BY <1>1, <1>2, <1>3
  <2>2. plan[i] \in LinkedPlan /\ plan[i].target = "open"
    BY <1>1 DEF PlanInv, ReviewsHoldOpen, StartEviction
  <2>. QED
    BY <2>1, <2>2 DEF LinkedPlan, Plan, IsApplicable
<1>6. \A j \in Ids : (j # i /\ j # oldest) => plan'[j] = plan[j]
  BY <1>1, <1>2, <1>3
<1>7. /\ plan'[oldest].phase = plan[oldest].phase
      /\ plan[oldest].target = "failed" => plan'[oldest].target = "failed"
  <2>1. plan[oldest] \in LinkedPlan
    BY <1>1, <1>2
  <2> DEFINE p == plan[oldest]
  <2>2. Closing(p).phase = p.phase /\ (Closing(p).target = p.target \/ p.target = "open")
    BY <2>1, PlanFields
  <2>. QED
    BY <1>4, <2>2
<1>8. op.step = "idle" /\ op' = op /\ plans' = plans
  BY ReviewsAreIdle DEF StartEviction
<1>9. CleanupUnconfirmed => CleanupUnconfirmed'
  <2>1. plan[i].target = "open"
    BY DEF PlanInv, ReviewsHoldOpen, StartEviction
  <2>. QED
    BY <1>6, <1>7, <2>1 DEF CleanupUnconfirmed
<1>10. ReviewsHoldOpen' /\ VictimsWereKept'
  <2>1. \A j \in Ids : j # i => plan'[j].phase = plan[j].phase /\ (plan'[j] = plan[j] \/ j = oldest)
    BY <1>6, <1>7
  <2>2. ReviewsHoldOpen'
    BY <1>2, <1>5, <2>1 DEF PlanInv, ReviewsHoldOpen
  <2>3. VictimsWereKept'
    <3> SUFFICES ASSUME NEW j \in Ids, plan'[j].phase = "evicting"
                 PROVE  plan'[j].victim \in Ids /\ plan'[plan'[j].victim].phase \in {"published", "gone"}
      BY DEF VictimsWereKept
    <3>1. CASE j = i
      BY <1>2, <1>5, <1>7, <3>1
    <3>2. CASE j # i
      <4>1. plan'[j] = plan[j] /\ plan[j].phase = "evicting"
        BY <1>2, <2>1, <3>2
      <4>2. plan[j].victim \in Ids /\ plan[plan[j].victim].phase \in {"published", "gone"}
        BY <4>1 DEF PlanInv, VictimsWereKept
      <4>3. plan[j].victim # i
        BY <4>2 DEF StartEviction
      <4>. QED
        BY <2>1, <4>1, <4>2, <4>3
    <3>. QED
      BY <3>1, <3>2
  <2>. QED
    BY <2>2, <2>3
<1>11. KeptWerePublished'
  <2>1. \A n \in DOMAIN plans : plans[n] \in Ids /\ plans[n] # i
    BY <1>1, SMTT(20) DEF PlanInv, KeptWerePublished, StartEviction
  <2>. QED
    BY <1>2, <1>6, <1>7, <1>8, <2>1 DEF PlanInv, KeptWerePublished
<1>12. ApplicableIsOpen'
  <2> SUFFICES ASSUME NEW j \in Ids, IsApplicable(plan[j])'
               PROVE  plan'[j].target = "open" \/ CleanupUnconfirmed' \/ IsVictim(j)'
    BY DEF ApplicableIsOpen
  <2>1. CASE j = oldest
    BY <1>5, <2>1 DEF IsVictim
  <2>2. CASE j # oldest
    <3>1. j # i /\ plan'[j] = plan[j]
      BY <1>5, <1>6, <2>2
    <3>2. IsApplicable(plan[j])
      BY <3>1 DEF IsApplicable
    <3>3. plan[j].target = "open" \/ CleanupUnconfirmed \/ IsVictim(j)
      BY <3>2 DEF PlanInv, ApplicableIsOpen
    <3>4. IsVictim(j) => IsVictim(j)'
      BY <1>2, <1>6 DEF IsVictim, StartEviction
    <3>. QED
      BY <1>9, <3>1, <3>3, <3>4
  <2>. QED
    BY <2>1, <2>2
<1>13. ReplayHoldsPlan' /\ DestinationOutlivesReplay'
  BY <1>8 DEF ReplayHoldsPlan, DestinationOutlivesReplay
<1>. QED
  BY <1>10, <1>11, <1>12, <1>13 DEF PlanInv

\* The oldest plan is gone, and the review takes its place.
LEMMA EvictionEnds ==
    ASSUME TypeOK, PlanInv, NEW i \in Ids, PublishAfterEviction(i)
    PROVE  PlanInv'
<1> DEFINE victim == plan[i].victim
<1>1. PlansTyped /\ plan \in [Ids -> LinkedPlan] /\ plans \in Seq(Ids)
  BY TypesSplit DEF PlansTyped
<1>2. victim \in Ids /\ plan[victim].phase \in {"published", "gone"} /\ victim # i
      /\ plan[victim].target = "closed" /\ plan[i].target = "open"
  BY DEF PlanInv, VictimsWereKept, ReviewsHoldOpen, PublishAfterEviction
<1> HIDE DEF victim
<1>3. plan' = [[plan EXCEPT ![victim] = Gone(plan[victim])] EXCEPT ![i].phase = "published", ![i].victim = None]
  BY <1>1, <1>2 DEF PublishAfterEviction, victim
<1>4. plan'[victim].phase = "gone" /\ plan'[victim].target = "closed"
  <2>1. plan'[victim] = Gone(plan[victim])
    BY <1>1, <1>2, <1>3
  <2>2. plan[victim] \in LinkedPlan
    BY <1>1, <1>2
  <2>3. Gone(plan[victim]).phase = "gone" /\ Gone(plan[victim]).target = plan[victim].target
    BY <2>2, PlanFields
  <2>. QED
    BY <1>2, <2>1, <2>3
<1>5. plan'[i].phase = "published" /\ plan'[i].target = "open"
  <2>1. plan'[i] = [[plan[i] EXCEPT !.phase = "published"] EXCEPT !.victim = None]
    BY <1>1, <1>2, <1>3
  <2>2. plan[i] \in LinkedPlan
    BY <1>1
  <2>. QED
    BY <1>2, <2>1, <2>2 DEF LinkedPlan, Plan
<1>6. \A j \in Ids : (j # i /\ j # victim) => plan'[j] = plan[j]
  BY <1>1, <1>2, <1>3
<1>7. op.step = "idle" /\ op' = op
  BY ReviewsAreIdle DEF PublishAfterEviction
<1>8. CleanupUnconfirmed => CleanupUnconfirmed'
  BY <1>2, <1>6 DEF CleanupUnconfirmed
<1>9. ReviewsHoldOpen'
  BY <1>4, <1>5, <1>6 DEF PlanInv, ReviewsHoldOpen
<1>10. VictimsWereKept'
  <2> SUFFICES ASSUME NEW j \in Ids, plan'[j].phase = "evicting"
               PROVE  plan'[j].victim \in Ids /\ plan'[plan'[j].victim].phase \in {"published", "gone"}
    BY DEF VictimsWereKept
  <2>1. plan'[j] = plan[j]
    BY <1>4, <1>5, <1>6
  <2>2. plan[j].victim \in Ids /\ plan[plan[j].victim].phase \in {"published", "gone"}
    BY <2>1 DEF PlanInv, VictimsWereKept
  <2>. QED
    BY <1>4, <1>5, <1>6, <2>1, <2>2
<1>11. KeptWerePublished'
  <2> DEFINE left == IF plans # <<>> /\ Head(plans) = victim THEN Tail(plans) ELSE plans
  <2>1. left \in Seq(Ids) /\ \A n \in DOMAIN left : \E m \in DOMAIN plans : left[n] = plans[m]
    <3>1. ASSUME plans # <<>>
          PROVE  Tail(plans) \in Seq(Ids)
                 /\ \A n \in DOMAIN Tail(plans) : n + 1 \in DOMAIN plans /\ Tail(plans)[n] = plans[n + 1]
      BY <1>1, <3>1
    <3>. QED
      BY <1>1, <3>1
  <2>2. plans' = Append(left, i)
    BY DEF PublishAfterEviction, victim
  <2> HIDE DEF left
  <2>3. \A n \in DOMAIN plans' : plans'[n] = i \/ \E m \in DOMAIN plans : plans'[n] = plans[m]
    BY <2>1, <2>2
  <2>4. \A m \in DOMAIN plans : plans[m] \in Ids /\ plan[plans[m]].phase \in {"published", "gone"}
    BY <1>1 DEF PlanInv, KeptWerePublished
  <2>5. \A m \in DOMAIN plans : plan'[plans[m]].phase \in {"published", "gone"}
    BY <1>4, <1>5, <1>6, <2>4
  <2>. QED
    BY <1>5, <2>3, <2>5 DEF KeptWerePublished
<1>12. ApplicableIsOpen'
  <2> SUFFICES ASSUME NEW j \in Ids, IsApplicable(plan[j])'
               PROVE  plan'[j].target = "open" \/ CleanupUnconfirmed' \/ IsVictim(j)'
    BY DEF ApplicableIsOpen
  <2>1. CASE j = i
    BY <1>5, <2>1
  <2>2. CASE j # i
    <3>1. j # victim /\ plan'[j] = plan[j]
      BY <1>4, <1>6, <2>2 DEF IsApplicable
    <3>2. IsApplicable(plan[j])
      BY <3>1 DEF IsApplicable
    <3>3. plan[j].target = "open" \/ CleanupUnconfirmed \/ IsVictim(j)
      BY <3>2 DEF PlanInv, ApplicableIsOpen
    <3>4. IsVictim(j) => IsVictim(j)'
      <4>1. ASSUME NEW k \in Ids, plan[k].phase = "evicting", plan[k].victim = j
            PROVE  plan'[k] = plan[k]
        BY <1>2, <1>6, <3>1, <4>1 DEF victim
      <4>. QED
        BY <4>1 DEF IsVictim
    <3>. QED
      BY <1>8, <3>1, <3>3, <3>4
  <2>. QED
    BY <2>1, <2>2
<1>13. ReplayHoldsPlan' /\ DestinationOutlivesReplay'
  BY <1>7 DEF ReplayHoldsPlan, DestinationOutlivesReplay
<1>. QED
  BY <1>9, <1>10, <1>11, <1>12, <1>13 DEF PlanInv

LEMMA OnePlanStepKeeps ==
    ASSUME TypeOK, PlanInv, NEW i \in Ids, PlanSteps(i) \/ TargetCloses(i) \/ Expire(i)
    PROVE  PlanInv'
<1> DEFINE p == plan[i]
<1>1. PlansTyped /\ p \in LinkedPlan /\ plan \in [Ids -> LinkedPlan]
  BY TypesSplit DEF PlansTyped
<1>2. (p.phase \in {"evicting", "checking"} => p.target = "open") /\ (p.phase = "opening" => p.target = "none")
  BY DEF PlanInv, ReviewsHoldOpen
<1>3. op.step # "idle" => Reviews = {} /\ plan[op.id].phase = "published" /\ plan[op.id].applied
  BY DEF PlanInv, ReplayHoldsPlan
<1>4. p.phase \in {"opening", "checking", "evicting"} => op.step = "idle"
  BY <1>3 DEF Reviews
<1>5. op.step # "idle" /\ op.id = i => p.phase = "published" /\ p.applied
  BY <1>3
<1> HIDE DEF p
<1>6. CASE OpenFails(i)
  <2>1. p.phase = "opening" /\ op' = op /\ plans' = plans
    BY <1>6 DEF OpenFails, p
  <2>2. PICK target \in {"none", "failed"} : plan' = [plan EXCEPT ![i] = Gone([p EXCEPT !.target = target])]
    BY <1>6, <1>1 DEF OpenFails, p
  <2> DEFINE q == Gone([p EXCEPT !.target = target])
  <2>3. q \in LinkedPlan /\ q.phase = "gone" /\ q.valid = FALSE
    BY <1>1, PlanForms, PlanFields
  <2> HIDE DEF q
  <2>. QED
    BY <1>2, <1>4, <2>1, <2>2, <2>3, PlanMoves DEF q, p, IsApplicable
<1>7. CASE OpenSucceeds(i)
  <2> DEFINE q == [[p EXCEPT !.phase = "checking"] EXCEPT !.target = "open"]
  <2>1. p.phase = "opening" /\ op' = op /\ plans' = plans
    BY <1>7 DEF OpenSucceeds, p
  <2>2. plan' = [plan EXCEPT ![i] = q]
    BY <1>7, <1>1 DEF OpenSucceeds, p
  <2>3. q \in LinkedPlan /\ q.phase = "checking" /\ q.target = "open"
    <3>1. [p EXCEPT !.phase = "checking"] \in LinkedPlan
      BY <1>1, PlanForms
    <3>2. q \in LinkedPlan
      BY <3>1, PlanForms
    <3>. QED
      BY <1>1, <3>1, <3>2 DEF LinkedPlan, Plan
  <2> HIDE DEF q
  <2>. QED
    BY <1>2, <1>4, <2>1, <2>2, <2>3, PlanMoves DEF p, IsApplicable
<1>8. CASE CheckFails(i)
  <2>1. p.phase = "checking" /\ op' = op /\ plans' = plans /\ plan' = [plan EXCEPT ![i] = Discard(p)]
    BY <1>8 DEF CheckFails, p
  <2>2. Discard(p) \in LinkedPlan /\ Discard(p).phase = "discarding" /\ Discard(p).valid = FALSE
    BY <1>1, PlanForms, PlanFields
  <2>. QED
    BY <1>2, <1>4, <2>1, <2>2, PlanMoves DEF p, IsApplicable
<1>9. CASE EvictionFails(i)
  <2>1. p.phase = "evicting" /\ op' = op /\ plans' = plans /\ plan' = [plan EXCEPT ![i] = Discard(p)]
    BY <1>9 DEF EvictionFails, p
  <2>2. Discard(p) \in LinkedPlan /\ Discard(p).phase = "discarding" /\ Discard(p).valid = FALSE
    BY <1>1, PlanForms, PlanFields
  <2>3. CleanupUnconfirmed
    <3>1. plan[i].victim \in Ids
      BY <2>1 DEF PlanInv, VictimsWereKept, p
    <3>. QED
      BY <1>9, <3>1 DEF EvictionFails, CleanupUnconfirmed
  <2>. QED
    BY <1>2, <1>4, <2>1, <2>2, <2>3, PlanMoves DEF p, IsApplicable
<1>10. CASE Publish(i)
  <2> DEFINE q == [p EXCEPT !.phase = "published"]
  <2>1. p.phase = "checking" /\ op' = op /\ plans' = Append(plans, i) /\ plan' = [plan EXCEPT ![i] = q]
    BY <1>1, <1>10 DEF Publish, p
  <2>2. q \in LinkedPlan /\ q.phase = "published" /\ q.target = p.target
    <3>1. q \in LinkedPlan
      BY <1>1, PlanForms
    <3>. QED
      BY <1>1, <3>1 DEF LinkedPlan, Plan
  <2> HIDE DEF q
  <2>. QED
    BY <1>2, <1>4, <2>1, <2>2, PlanMoves DEF p, IsApplicable
<1>11. CASE EndDiscard(i)
  <2>1. p.phase = "discarding" /\ op' = op /\ plans' = plans /\ plan' = [plan EXCEPT ![i] = Gone(p)]
    BY <1>11 DEF EndDiscard, p
  <2>2. Gone(p) \in LinkedPlan /\ Gone(p).phase = "gone" /\ Gone(p).valid = FALSE /\ Gone(p).target = p.target
    BY <1>1, PlanForms, PlanFields
  <2>. QED
    BY <1>5, <2>1, <2>2, PlanMoves DEF p, IsApplicable
<1>12. CASE TargetCloses(i)
  <2>1. p.target = "closing" /\ op' = op /\ plans' = plans
    BY <1>12 DEF TargetCloses, p
  <2>2. PICK target \in {"closed", "failed"} : plan' = [plan EXCEPT ![i] = [p EXCEPT !.target = target]]
    BY <1>1, <1>12 DEF TargetCloses, p
  <2> DEFINE q == [p EXCEPT !.target = target]
  <2>3. /\ q \in LinkedPlan /\ q.phase = p.phase /\ q.target = target /\ q.valid = p.valid
        /\ q.applied = p.applied /\ q.victim = p.victim
    <3>1. q \in LinkedPlan
      BY <1>1, PlanForms
    <3>. QED
      BY <1>1, <3>1 DEF LinkedPlan, Plan
  <2>4. plan' = [plan EXCEPT ![i] = q]
    BY <2>2
  <2>5. op.step \in {"idle", "closing", "finishing"} \/ op.id # i
    BY <2>1 DEF PlanInv, DestinationOutlivesReplay, p
  <2>6. p.phase \notin {"unused", "opening", "checking", "evicting"}
    BY <2>1 DEF PlanInv, ReviewsHoldOpen, p
  <2> HIDE DEF q
  <2>. QED
    BY <1>5, <2>1, <2>3, <2>4, <2>5, <2>6, PlanMoves DEF p, IsApplicable
<1>13. CASE Expire(i)
  <2> DEFINE q == Closing(Revoked(p))
  <2>1. p.phase = "published" /\ ~p.applied /\ p.target = "open" /\ op' = op /\ plans' = plans
        /\ plan' = [plan EXCEPT ![i] = q]
    BY <1>13 DEF Expire, p
  <2>2. q \in LinkedPlan /\ q.phase = p.phase /\ q.valid = FALSE
    <3>1. Revoked(p) \in LinkedPlan /\ Revoked(p).phase = p.phase /\ Revoked(p).valid = FALSE
      BY <1>1, PlanForms, PlanFields
    <3>. QED
      BY <3>1, PlanForms, PlanFields
  <2> HIDE DEF q
  <2>. QED
    BY <1>5, <2>1, <2>2, PlanMoves DEF p, IsApplicable
<1>. QED
  BY <1>6, <1>7, <1>8, <1>9, <1>10, <1>11, <1>12, <1>13, EvictionStarts, EvictionEnds DEF PlanSteps

LEMMA ReplayStepKeepsPlans ==
    ASSUME TypeOK, PlanInv, ReplaySteps
    PROVE  PlanInv'
<1>1. PlansTyped /\ plan \in [Ids -> LinkedPlan] /\ op \in Op
  BY TypesSplit DEF PlansTyped
<1>2. op.step # "idle" /\ op.id \in Ids /\ plans' = plans
  BY <1>1 DEF Op, ReplaySteps, BeginJob, JobBegun, BatchEnds, JournalRefuses, IntendRecord, Dispatch,
     HoldBack, WithdrawIntent, WriteSettles, RecordReceipt, RecordSettled, BatchSettled, CommitFails,
     FinishJob, EndReplay, opRest
<1> DEFINE i == op.id
           p == plan[i]
           q == Closing(Revoked(p))
<1>3. p \in LinkedPlan /\ p.phase = "published" /\ p.applied
  BY <1>1, <1>2 DEF PlanInv, ReplayHoldsPlan
<1>4. ASSUME NEW complete \in BOOLEAN, StopWith(complete)
      PROVE  PlanInv'
  <2>1. plan' = [plan EXCEPT ![i] = q] /\ op'.step = "closing" /\ op'.id = i
    BY <1>4 DEF StopWith, NoOp
  <2>2. q \in LinkedPlan /\ q.phase = p.phase /\ q.valid = FALSE /\ q.applied = p.applied
        /\ (p.target = "failed" => q.target = "failed")
    <3>1. Revoked(p) \in LinkedPlan /\ Revoked(p).phase = p.phase /\ Revoked(p).valid = FALSE
          /\ Revoked(p).applied = p.applied /\ Revoked(p).target = p.target
      BY <1>3, PlanForms, PlanFields
    <3>. QED
      BY <3>1, PlanForms, PlanFields
  <2>3. OpGoesOn
    BY <1>2, <2>1 DEF OpGoesOn
  <2> HIDE DEF i, q
  <2>. QED
    BY <1>2, <1>3, <2>1, <2>2, <2>3, PlanMoves DEF p, i, IsApplicable
<1>5. ASSUME plan' = plan, OpGoesOn
      PROVE  PlanInv'
  <2>1. plan' = [plan EXCEPT ![i] = p]
    BY <1>1, <1>2, <1>5
  <2>2. p.phase \notin {"unused", "opening", "checking", "evicting"}
    BY <1>3
  <2> HIDE DEF i
  <2>. QED
    BY <1>2, <1>3, <1>5, <2>1, <2>2, PlanMoves DEF p, i, IsApplicable
<1>6. (\E complete \in BOOLEAN : StopWith(complete)) \/ (plan' = plan /\ OpGoesOn)
  <2>1. ASSUME NEW s \in {"beginning", "intending", "sent", "recording", "clear", "clearing", "finishing"},
               op' = [op EXCEPT !.step = s],
               op.step = "closing" => s = "finishing", op.step # "finishing"
        PROVE  OpGoesOn
    BY <1>1, <1>2, <2>1 DEF OpGoesOn, Op
  <2>2. CASE BeginJob
    BY <2>1, <2>2 DEF BeginJob
  <2>3. CASE JobBegun
    BY <1>1, <1>2, <2>3 DEF JobBegun, OpGoesOn, Op
  <2>4. CASE BatchEnds \/ JournalRefuses \/ BatchSettled \/ CommitFails
    BY <2>4 DEF BatchEnds, JournalRefuses, BatchSettled, CommitFails, Stop
  <2>5. CASE IntendRecord
    BY <2>1, <2>5 DEF IntendRecord
  <2>6. CASE Dispatch
    BY <2>1, <2>6 DEF Dispatch
  <2>7. CASE HoldBack
    BY <2>1, <2>7 DEF HoldBack
  <2>8. CASE WithdrawIntent
    BY <2>1, <2>8 DEF WithdrawIntent
  <2>9. CASE WriteSettles
    BY <1>1, <1>2, <2>9 DEF WriteSettles, OpGoesOn, Op
  <2>10. CASE RecordReceipt
    BY <2>1, <2>10 DEF RecordReceipt
  <2>11. CASE RecordSettled
    BY <1>1, <1>2, <2>11 DEF RecordSettled, OpGoesOn, Op
  <2>12. CASE FinishJob
    BY <2>1, <2>12 DEF FinishJob
  <2>13. CASE EndReplay
    BY <2>13 DEF EndReplay, OpGoesOn, NoOp
  <2>. QED
    BY <2>2, <2>3, <2>4, <2>5, <2>6, <2>7, <2>8, <2>9, <2>10, <2>11, <2>12, <2>13 DEF ReplaySteps
<1>. QED
  BY <1>4, <1>5, <1>6

\* A new review begins beside no replay.
LEMMA ReviewKeepsPlans ==
    ASSUME TypeOK, PlanInv, NEW i \in Ids, NEW parent \in Ids \union {None}, NEW snapshot \in Job,
           parent = None => snapshot = NoJob, StartReview(i, parent, snapshot), UNCHANGED <<plans, op>>
    PROVE  PlanInv'
<1> DEFINE p == [NoPlan EXCEPT !.phase = "opening", !.valid = TRUE, !.parent = parent,
                               !.snapshot = snapshot]
<1>1. p \in LinkedPlan /\ p.phase = "opening" /\ p.target = "none"
  BY DEF NoPlan, LinkedPlan, Plan
<1>2. plan' = [plan EXCEPT ![i] = p] /\ op.step = "idle" /\ plan[i].phase = "unused"
  BY DEF StartReview
<1>3. plan[i].target = "none"
  BY <1>2 DEF PlanInv, ReviewsHoldOpen
<1> HIDE DEF p
<1>. QED
  BY <1>1, <1>2, <1>3, PlanMoves DEF IsApplicable

\* A replay begins beside no review: its destination is open.
LEMMA ApplyKeepsPlans ==
    ASSUME TypeOK, PlanInv, NEW i \in Ids, Apply(i)
    PROVE  PlanInv'
<1> DEFINE p == [plan[i] EXCEPT !.applied = TRUE]
<1>1. plan \in [Ids -> LinkedPlan] /\ plans \in Seq(Ids)
  BY TypesSplit DEF PlansTyped
<1>2. p.phase = "published" /\ p.target = plan[i].target /\ p.applied /\ p.victim = plan[i].victim
      /\ plan[i].phase = "published" /\ plan'[i] = p /\ \A j \in Ids : j # i => plan'[j] = plan[j]
  BY <1>1 DEF Apply, LinkedPlan, Plan
<1>3. Reviews = {} /\ ~CleanupUnconfirmed /\ IsApplicable(plan[i]) /\ op.step = "idle" /\ plans' = plans
      /\ op'.id = i
  BY DEF Apply, IsApplicable, NoOp
<1>4. plan[i].target = "open"
  BY <1>3 DEF PlanInv, ApplicableIsOpen, IsVictim, Reviews
<1> HIDE DEF p
<1>5. ReviewsHoldOpen' /\ VictimsWereKept' /\ DestinationOutlivesReplay'
  <2>1. ReviewsHoldOpen'
    BY <1>2, <1>4 DEF PlanInv, ReviewsHoldOpen
  <2>2. \A j \in Ids : plan'[j].phase = plan[j].phase
    BY <1>2
  <2>3. VictimsWereKept'
    BY <1>3, <2>2 DEF VictimsWereKept, Reviews
  <2>4. DestinationOutlivesReplay'
    BY <1>2, <1>3, <1>4 DEF DestinationOutlivesReplay
  <2>. QED
    BY <2>1, <2>3, <2>4
<1>6. KeptWerePublished'
  <2>1. \A n \in DOMAIN plans : plans[n] \in Ids
    BY <1>1
  <2>. QED
    BY <1>2, <1>3, <2>1 DEF PlanInv, KeptWerePublished
<1>7. ApplicableIsOpen'
  <2>1. \A j \in Ids : IsApplicable(plan[j]) => plan[j].target = "open"
    BY <1>3 DEF PlanInv, ApplicableIsOpen, IsVictim, Reviews
  <2>. QED
    BY <1>2, <2>1 DEF ApplicableIsOpen, IsApplicable
<1>8. ReplayHoldsPlan'
  BY <1>2, <1>3 DEF ReplayHoldsPlan, Reviews
<1>. QED
  BY <1>5, <1>6, <1>7, <1>8 DEF PlanInv

\* An invalidation revokes: what is applied closes its destination itself.
LEMMA InvalidateKeepsPlans ==
    ASSUME TypeOK, PlanInv, Invalidate
    PROVE  PlanInv'
<1>1. plan \in [Ids -> LinkedPlan] /\ plans \in Seq(Ids) /\ op' = op /\ plans' = plans
      /\ (op.step # "idle" => op.id \in Ids)
  BY TypesSplit DEF PlansTyped, Op, Invalidate, recRest
<1>2. \A j \in Ids : plan'[j] \in {plan[j], Revoked(plan[j]), Cancelled(plan[j])}
                     /\ (j \in Reviews => plan'[j] = Revoked(plan[j]))
  BY <1>1 DEF Invalidate
<1>3. \A j \in Ids : /\ plan'[j].phase = plan[j].phase /\ plan'[j].applied = plan[j].applied
                     /\ plan'[j].victim = plan[j].victim /\ (plan'[j] = plan[j] \/ plan'[j].valid = FALSE)
                     /\ plan[j].target # "open" => plan'[j].target = plan[j].target
                     /\ plan[j].applied => plan'[j].target = plan[j].target
  <2> SUFFICES ASSUME NEW j \in Ids
               PROVE  /\ plan'[j].phase = plan[j].phase /\ plan'[j].applied = plan[j].applied
                      /\ plan'[j].victim = plan[j].victim /\ (plan'[j] = plan[j] \/ plan'[j].valid = FALSE)
                      /\ plan[j].target # "open" => plan'[j].target = plan[j].target
                      /\ plan[j].applied => plan'[j].target = plan[j].target
    OBVIOUS
  <2> DEFINE p == plan[j]
  <2>1. p \in LinkedPlan /\ plan'[j] \in {p, Revoked(p), Cancelled(p)}
    BY <1>1, <1>2
  <2> HIDE DEF p
  <2>2. /\ Revoked(p).phase = p.phase /\ Revoked(p).valid = FALSE
        /\ Revoked(p).applied = p.applied /\ Revoked(p).victim = p.victim /\ Revoked(p).target = p.target
    BY <2>1, PlanFields
  <2>3. /\ Cancelled(p).phase = p.phase /\ Cancelled(p).valid = FALSE /\ Cancelled(p).victim = p.victim
        /\ Cancelled(p).applied = p.applied
        /\ Cancelled(p).target = p.target \/ (p.target = "open" /\ ~p.applied)
    BY <2>1, PlanFields
  <2>. QED
    BY <2>1, <2>2, <2>3 DEF p
<1>4. ReviewsHoldOpen'
  <2> SUFFICES ASSUME NEW j \in Ids
               PROVE  /\ plan'[j].phase \in {"unused", "opening"} => plan'[j].target = "none"
                      /\ plan'[j].phase \in {"checking", "evicting"} => plan'[j].target = "open"
    BY DEF ReviewsHoldOpen
  <2>1. plan[j].phase \in {"unused", "opening"} => plan[j].target = "none"
    BY DEF PlanInv, ReviewsHoldOpen
  <2>2. plan[j].phase \in {"checking", "evicting"} => plan'[j].target = plan[j].target
    <3>1. plan[j] \in LinkedPlan
      BY <1>1
    <3>2. Revoked(plan[j]).target = plan[j].target
      BY <3>1, PlanFields
    <3>. QED
      BY <1>2, <3>2 DEF Reviews
  <2>. QED
    BY <1>3, <2>1, <2>2 DEF PlanInv, ReviewsHoldOpen
<1>5. VictimsWereKept'
  <2> SUFFICES ASSUME NEW j \in Ids, plan'[j].phase = "evicting"
               PROVE  plan'[j].victim \in Ids /\ plan'[plan'[j].victim].phase \in {"published", "gone"}
    BY DEF VictimsWereKept
  <2>1. plan[j].phase = "evicting" /\ plan'[j].victim = plan[j].victim
    BY <1>3
  <2>2. plan[j].victim \in Ids /\ plan[plan[j].victim].phase \in {"published", "gone"}
    BY <2>1 DEF PlanInv, VictimsWereKept
  <2>3. plan'[plan[j].victim].phase = plan[plan[j].victim].phase
    BY <1>3, <2>2
  <2>. QED
    BY <2>1, <2>2, <2>3
<1>6. KeptWerePublished'
  <2>1. \A n \in DOMAIN plans : plans[n] \in Ids
    BY <1>1
  <2>. QED
    BY <1>1, <1>3, <2>1 DEF PlanInv, KeptWerePublished
<1>7. ApplicableIsOpen'
  <2>1. CleanupUnconfirmed => CleanupUnconfirmed'
    BY <1>3 DEF CleanupUnconfirmed
  <2>2. \A j \in Ids : IsVictim(j) => IsVictim(j)'
    BY <1>3 DEF IsVictim
  <2>3. \A j \in Ids : IsApplicable(plan[j])' => plan'[j] = plan[j] /\ IsApplicable(plan[j])
    BY <1>3 DEF IsApplicable
  <2>. QED
    BY <2>1, <2>2, <2>3 DEF PlanInv, ApplicableIsOpen
<1>8. ReplayHoldsPlan' /\ DestinationOutlivesReplay'
  BY <1>1, <1>3 DEF PlanInv, ReplayHoldsPlan, DestinationOutlivesReplay, Reviews
<1>. QED
  BY <1>4, <1>5, <1>6, <1>7, <1>8 DEF PlanInv

LEMMA PlanInvInit == Init => PlanInv
  BY DEF Init, PlanInv, ReviewsHoldOpen, VictimsWereKept, KeptWerePublished, ApplicableIsOpen, IsApplicable,
     ReplayHoldsPlan, DestinationOutlivesReplay, NoPlan, NoOp

LEMMA PlanStep == TypeOK /\ PlanInv /\ [Next]_vars => PlanInv'
<1> SUFFICES ASSUME TypeOK, PlanInv, [Next]_vars PROVE PlanInv'
  OBVIOUS
<1>1. plan \in [Ids -> LinkedPlan] /\ rec \in Task /\ disk \in [Ids -> Job]
  BY TypesSplit DEF PlansTyped, JournalTyped
<1>2. ASSUME UNCHANGED <<plan, plans, op>>
      PROVE  PlanInv'
  BY <1>2 DEF PlanInv, ReviewsHoldOpen, VictimsWereKept, KeptWerePublished, ApplicableIsOpen, IsApplicable,
     IsVictim, CleanupUnconfirmed, ReplayHoldsPlan, Reviews, DestinationOutlivesReplay
<1>3. ASSUME NEW i \in Ids, ReviewContinuation(i)
      PROVE  PlanInv'
  <2>1. rec.job \in Ids /\ rec.job # None
    BY <1>1, <1>3 DEF ReviewContinuation, Task
  <2>2. disk[rec.job] \in Job
    BY <1>1, <2>1
  <2>. QED
    BY <1>3, <2>1, <2>2, ReviewKeepsPlans DEF ReviewContinuation, recRest
<1>4. CASE TaskSteps
  <2>1. TaskRefused \/ ArchiveChain \/ Observe \/ ObservationEnds \/ RecordObservation \/ TaskCommits
        => UNCHANGED <<plan, plans, op>>
    BY DEF TaskRefused, ArchiveChain, Observe, ObservationEnds, RecordObservation, TaskCommits, recRest
  <2>. QED
    BY <1>2, <1>3, <1>4, <2>1 DEF TaskSteps
<1>5. CASE InvalidationSteps \/ JournalWrites \/ \E r \in Records : BrokerDecides(r)
  BY <1>2, <1>5 DEF InvalidationSteps, ReplayDrained, ReaderDrained, InvalidationEnds, JournalWrites,
     BrokerDecides, replayVars, recRest
<1>6. ASSUME NEW i \in Ids, Review(i)
      PROVE  PlanInv'
  BY <1>6, NoJobTyped, ReviewKeepsPlans DEF Review
<1>7. ASSUME NEW i \in Ids, Cancel(i) \/ LoseAuthority(i)
      PROVE  PlanInv'
  <2> DEFINE p == plan[i]
  <2>1. op' = op /\ plans' = plans /\ p \in LinkedPlan
    BY <1>1, <1>7 DEF Cancel, LoseAuthority
  <2>2. op.step # "idle" => Reviews = {} /\ plan[op.id].phase = "published" /\ plan[op.id].applied
    BY DEF PlanInv, ReplayHoldsPlan
  <2>3. /\ p.phase \in {"unused", "opening"} => p.target = "none"
        /\ p.phase \in {"checking", "evicting"} => p.target = "open"
        /\ p.phase \in {"opening", "checking", "evicting"} => op.step = "idle"
        /\ (op.step # "idle" /\ op.id = i) => (p.phase = "published" /\ p.applied)
    BY <2>2 DEF PlanInv, ReviewsHoldOpen, Reviews
  <2> HIDE DEF p
  <2>4. CASE Cancel(i)
    <3>1. plan' = [plan EXCEPT ![i] = Cancelled(p)] /\ p.phase = "published"
      BY <2>4 DEF Cancel, p
    <3>2. /\ Cancelled(p) \in LinkedPlan /\ Cancelled(p).phase = p.phase /\ Cancelled(p).valid = FALSE
          /\ Cancelled(p).applied = p.applied
          /\ Cancelled(p).target = p.target \/ (p.target = "open" /\ ~p.applied)
      BY <2>1, PlanForms, PlanFields
    <3>. QED
      BY <2>1, <2>3, <3>1, <3>2, PlanMoves DEF p, IsApplicable
  <2>5. CASE LoseAuthority(i)
    <3>1. plan' = [plan EXCEPT ![i] = Revoked(p)]
      BY <2>5 DEF LoseAuthority, p
    <3>2. /\ Revoked(p) \in LinkedPlan /\ Revoked(p).phase = p.phase /\ Revoked(p).valid = FALSE
          /\ Revoked(p).applied = p.applied /\ Revoked(p).victim = p.victim /\ Revoked(p).target = p.target
      BY <2>1, PlanForms, PlanFields
    <3>. QED
      BY <2>1, <2>3, <3>1, <3>2, PlanMoves DEF p, IsApplicable
  <2>. QED
    BY <1>7, <2>4, <2>5
<1>8. CASE Crash
  <2>1. op'.step = "idle" /\ plans' = <<>>
    BY <1>8 DEF Crash, NoOp
  <2>2. \A j \in Ids : plan'[j].phase \in {"unused", "gone"} /\ plan'[j].target = "none"
    BY <1>8 DEF Crash, NoPlan
  <2>3. KeptWerePublished'
    <3>1. DOMAIN plans' = {}
      BY <2>1
    <3>. QED
      BY <3>1 DEF KeptWerePublished
  <2>4. ReviewsHoldOpen' /\ VictimsWereKept' /\ ApplicableIsOpen'
    BY <2>2 DEF ReviewsHoldOpen, VictimsWereKept, ApplicableIsOpen, IsApplicable
  <2>5. ReplayHoldsPlan' /\ DestinationOutlivesReplay'
    BY <2>1 DEF ReplayHoldsPlan, DestinationOutlivesReplay
  <2>. QED
    BY <2>3, <2>4, <2>5 DEF PlanInv
<1>9. CASE Environment
  <2>1. ASSUME NEW i \in Ids, NEW kind, Recover(kind, i)
        PROVE  PlanInv'
    BY <1>2, <2>1 DEF Recover, recRest
  <2>. QED
    BY <1>6, <1>7, <1>8, <1>9, <2>1, ApplyKeepsPlans, InvalidateKeepsPlans DEF Environment
<1>10. CASE UNCHANGED vars
  BY <1>2, <1>10 DEF vars
<1>. QED
  BY <1>4, <1>5, <1>9, <1>10, OnePlanStepKeeps, ReplayStepKeepsPlans DEF Next

\* While a replay sends, its destination stays open, whatever is reviewed,
\* evicted, expired, cancelled, invalidated or revoked beside it, for any number
\* of plans and reviews.
THEOREM DestinationStaysOpen == Spec => []DestinationOutlivesReplay
<1>1. Spec => []TypeOK
  <2>1. RepairInv => TypeOK
    BY DEF RepairInv
  <2>. QED
    BY <2>1, RepairInvariant, PTL
<1>2. Spec => []PlanInv
  BY <1>1, PlanInvInit, PlanStep, PTL DEF Spec
<1>3. PlanInv => DestinationOutlivesReplay
  BY DEF PlanInv
<1>. QED
  BY <1>2, <1>3, PTL


---------------------------------------------------------------------------
\* The turn of a record in its job.
LEMMA Turn ==
    ASSUME NEW first \in Nat, NEW n \in Nat, NEW k \in Nat, first <= k, k < first + n
    PROVE  k - first + 1 \in 1 .. n
  OBVIOUS

\* What a history says of a record.
LEMMA OneCovers ==
    ASSUME NEW document \in [Ids -> Job], InTurn(document), NEW r \in Records,
           NEW i \in Ids, NEW j \in Ids, Covers(document, i, r), Covers(document, j, r)
    PROVE  i = j
<1>1. /\ NextIndex(document[i]) \in Nat /\ NextIndex(document[j]) \in Nat
      /\ document[i].first \in Nat /\ document[j].first \in Nat /\ r[2] \in Nat
  BY IndexBounds DEF Records, Indexes
<1>2. Known(document, i) /\ Known(document, j) /\ SameChain(document, i, j)
  BY DEF Covers, Known, SameChain
<1>. QED
  BY <1>1, <1>2 DEF Covers, InTurn

LEMMA EntryFacts ==
    ASSUME NEW document \in [Ids -> Job], InTurn(document)
    PROVE  /\ DOMAIN EntryOf(document) = Records
           /\ \A r \in Records :
                 /\ IsForgotten(document, r) => EntryOf(document)[r] = "forgotten"
                 /\ ~IsForgotten(document, r) =>
                    /\ \A i \in Ids : Covers(document, i, r) => EntryOf(document)[r] = Says(document, i, r[2])
                    /\ (\A i \in Ids : ~Covers(document, i, r)) => EntryOf(document)[r] = "unsent"
<1>1. ASSUME NEW r \in Records, NEW i \in Ids, Covers(document, i, r)
      PROVE  (CHOOSE j \in Ids : Covers(document, j, r)) = i
  BY <1>1, OneCovers
<1>. QED
  BY <1>1 DEF EntryOf

\* Two histories that forget and cover the same say the same.
LEMMA SameEntry ==
    ASSUME NEW old \in [Ids -> Job], NEW new \in [Ids -> Job], InTurn(old), InTurn(new), NEW r \in Records,
           IsForgotten(old, r) <=> IsForgotten(new, r),
           \A i \in Ids : /\ Covers(old, i, r) <=> Covers(new, i, r)
                          /\ Covers(old, i, r) => Says(old, i, r[2]) = Says(new, i, r[2])
    PROVE  EntryOf(old)[r] = EntryOf(new)[r]
<1>1. CASE IsForgotten(old, r)
  BY <1>1, EntryFacts
<1>2. CASE ~IsForgotten(old, r) /\ \E i \in Ids : Covers(old, i, r)
  BY <1>2, EntryFacts
<1>3. CASE ~IsForgotten(old, r) /\ \A i \in Ids : ~Covers(old, i, r)
  BY <1>3, EntryFacts
<1>. QED
  BY <1>1, <1>2, <1>3

LEMMA EntryEquality ==
    ASSUME NEW old, NEW new, \A r \in Records : EntryOf(old)[r] = EntryOf(new)[r]
    PROVE  EntryOf(new) = EntryOf(old)
<1>1. /\ EntryOf(old) = [r \in Records |-> EntryOf(old)[r]]
      /\ EntryOf(new) = [r \in Records |-> EntryOf(new)[r]]
  BY DEF EntryOf
<1>. QED
  BY <1>1

\* A stored job that changes in place.
LEMMA JobSaysTheSame ==
    ASSUME NEW old \in [Ids -> Job], NEW new \in [Ids -> Job], InTurn(old), InTurn(new),
           NEW id \in Ids, Stored(old, id), Stored(new, id),
           \A i \in Ids : i # id => new[i] = old[i],
           NEW r \in Records, Covers(old, id, r) <=> Covers(new, id, r),
           Covers(old, id, r) => Says(old, id, r[2]) = Says(new, id, r[2])
    PROVE  EntryOf(old)[r] = EntryOf(new)[r]
<1>1. \A i \in Ids : /\ Covers(old, i, r) <=> Covers(new, i, r)
                     /\ Covers(old, i, r) => Says(old, i, r[2]) = Says(new, i, r[2])
  <2> SUFFICES ASSUME NEW i \in Ids
               PROVE  /\ Covers(old, i, r) <=> Covers(new, i, r)
                      /\ Covers(old, i, r) => Says(old, i, r[2]) = Says(new, i, r[2])
    OBVIOUS
  <2>1. CASE i = id
    BY <2>1
  <2>2. CASE i # id
    BY <2>2 DEF Covers, Says
  <2>. QED
    BY <2>1, <2>2
<1>2. r[1] \in Ids
  BY DEF Records
<1>3. IsForgotten(old, r) <=> IsForgotten(new, r)
  BY <1>2 DEF IsForgotten, Stored
<1>. QED
  BY <1>1, <1>3, SameEntry

\* The histories before and after an intent, and before and after a receipt.
AddsIntent(clear, marked, id) ==
    /\ Stored(clear, id) /\ Stored(marked, id) /\ IsLeaf(clear, id)
    /\ \A i \in Ids : i # id => marked[i] = clear[i]
    /\ ~clear[id].pending /\ marked[id].pending /\ marked[id].outcomes = clear[id].outcomes
    /\ marked[id].root = clear[id].root /\ marked[id].first = clear[id].first

AddsReceipt(old, new, id, outcome) ==
    /\ Stored(old, id) /\ Stored(new, id)
    /\ \A i \in Ids : i # id => new[i] = old[i]
    /\ old[id].pending /\ ~new[id].pending
    /\ new[id].outcomes = Append(old[id].outcomes, outcome)
    /\ new[id].root = old[id].root /\ new[id].first = old[id].first

TurnOf(document, id) == <<document[id].root, document[id].first + Len(document[id].outcomes)>>

\* Between a record that is not intended and one that is, only it differs.
LEMMA IntentSays ==
    ASSUME NEW clear \in [Ids -> Job], NEW marked \in [Ids -> Job], Shape(clear, sends), Shape(marked, sends),
           NEW id \in Ids, AddsIntent(clear, marked, id),
           NEW r \in Records, r = TurnOf(clear, id)
    PROVE  /\ EntryOf(clear)[r] = "unsent" /\ EntryOf(marked)[r] = "uncertain"
           /\ \A q \in Records : q # r => EntryOf(marked)[q] = EntryOf(clear)[q]
<1>0. /\ Stored(clear, id) /\ Stored(marked, id) /\ IsLeaf(clear, id)
      /\ \A i \in Ids : i # id => marked[i] = clear[i]
      /\ ~clear[id].pending /\ marked[id].pending /\ marked[id].outcomes = clear[id].outcomes
      /\ marked[id].root = clear[id].root /\ marked[id].first = clear[id].first
      /\ r = <<clear[id].root, clear[id].first + Len(clear[id].outcomes)>>
  BY DEF AddsIntent, TurnOf
<1>1. /\ InTurn(clear) /\ InTurn(marked)
      /\ clear[id].first \in Nat /\ Len(clear[id].outcomes) \in Nat
      /\ Known(clear, id) /\ clear[id].status # "absent" /\ marked[id].status # "absent"
  BY <1>0 DEF Shape, Job, Stored, Known
<1>2. /\ NextIndex(clear[id]) = clear[id].first + Len(clear[id].outcomes)
      /\ NextIndex(marked[id]) = NextIndex(clear[id]) + 1
  BY <1>0, <1>1 DEF NextIndex
<1>3. r[1] = clear[id].root /\ r[2] = NextIndex(clear[id]) /\ r[2] \in Nat
  BY <1>0, <1>1, <1>2, SMTT(20)
<1>4. ~IsForgotten(clear, r) /\ ~IsForgotten(marked, r)
  <2>1. r[1] \in Ids /\ clear[r[1]].status # "archived" /\ marked[r[1]].status # "archived"
    <3>1. Known(marked, id)
      BY <1>0, <1>1 DEF Known
    <3>. QED
      BY <1>0, <1>1, <1>3, <3>1 DEF Shape, Rooted, Stored
  <2>. QED
    BY <1>0, <2>1 DEF IsForgotten
<1>5. \A i \in Ids : ~Covers(clear, i, r)
  <2> SUFFICES ASSUME NEW i \in Ids, Covers(clear, i, r) PROVE FALSE
    OBVIOUS
  <2>1. Known(clear, i) /\ SameChain(clear, i, id) /\ r[2] < NextIndex(clear[i]) /\ NextIndex(clear[i]) \in Nat
    BY <1>0, <1>3, IndexBounds DEF Covers, Known, SameChain
  <2>2. i # id
    BY <1>0, <1>3, <2>1
  <2>3. NextIndex(clear[i]) <= clear[id].first
    BY <1>0, <1>1, <2>1, <2>2 DEF InTurn
  <2>. QED
    BY <1>0, <1>1, <1>2, <1>3, <2>1, <2>3, SMTT(20)
<1>6. Covers(marked, id, r) /\ Says(marked, id, r[2]) = "uncertain"
  <2>1. Covers(marked, id, r)
    BY <1>0, <1>1, <1>2, <1>3, SMTT(20) DEF Covers
  <2>2. r[2] - marked[id].first + 1 \notin DOMAIN marked[id].outcomes
    <3>1. r[2] - marked[id].first + 1 = Len(marked[id].outcomes) + 1
      BY <1>0, <1>1, <1>2, <1>3, SMTT(30)
    <3>2. marked[id].outcomes \in Seq(Outcomes)
      BY <1>0 DEF Job
    <3>3. DOMAIN marked[id].outcomes = 1 .. Len(marked[id].outcomes) /\ Len(marked[id].outcomes) \in Nat
      BY <1>0, <3>2
    <3>. QED
      BY <1>0, <3>1, <3>3
  <2>. QED
    BY <1>0, <2>1, <2>2 DEF Says
<1>7. ASSUME NEW q \in Records, q # r
      PROVE  EntryOf(marked)[q] = EntryOf(clear)[q]
  <2>1. q[1] # r[1] \/ q[2] # r[2]
    BY <1>0, <1>7 DEF Records
  <2>2. q[2] \in Nat
    BY <1>0 DEF Records, Indexes
  <2>3. Covers(clear, id, q) <=> Covers(marked, id, q)
    BY <1>0, <1>1, <1>2, <1>3, <2>1, <2>2, SMTT(30) DEF Covers
  <2>4. Says(clear, id, q[2]) = Says(marked, id, q[2])
    BY <1>0 DEF Says
  <2>. QED
    BY <1>0, <1>1, <2>3, <2>4, JobSaysTheSame, SMTT(20)
<1>. QED
  BY <1>1, <1>4, <1>5, <1>6, <1>7, EntryFacts

\* A receipt enters its outcome, or leaves the record uncertain.
LEMMA ReceiptSays ==
    ASSUME NEW old \in [Ids -> Job], NEW new \in [Ids -> Job], Shape(old, sends), Shape(new, sends),
           NEW id \in Ids, NEW outcome \in Outcomes, AddsReceipt(old, new, id, outcome),
           NEW r \in Records, r = TurnOf(old, id)
    PROVE  /\ EntryOf(old)[r] = "uncertain"
           /\ EntryOf(new)[r] = IF outcome = "unknown" THEN "uncertain" ELSE outcome
           /\ \A q \in Records : q # r => EntryOf(new)[q] = EntryOf(old)[q]
<1> DEFINE n == Len(old[id].outcomes)
<1>0. /\ Stored(old, id) /\ Stored(new, id)
      /\ \A i \in Ids : i # id => new[i] = old[i]
      /\ old[id].pending /\ ~new[id].pending
      /\ new[id].outcomes = Append(old[id].outcomes, outcome)
      /\ new[id].root = old[id].root /\ new[id].first = old[id].first
      /\ r = <<old[id].root, old[id].first + n>>
  BY DEF AddsReceipt, TurnOf
<1>1. /\ InTurn(old) /\ InTurn(new) /\ old[id].first \in Nat /\ n \in Nat
      /\ Known(old, id) /\ old[id].status # "absent" /\ new[id].status # "absent"
      /\ old[id].outcomes \in Seq(Outcomes)
  <2>1. InTurn(old) /\ InTurn(new)
    BY <1>0 DEF Shape
  <2>2. old[id] \in Job
    BY <1>0 DEF Shape, Job, Stored, Known
  <2>3. old[id].first \in Nat /\ n \in Nat /\ old[id].outcomes \in Seq(Outcomes)
    BY <2>2 DEF Job
  <2>4. Known(old, id) /\ old[id].status # "absent" /\ new[id].status # "absent"
    BY <1>0 DEF Stored, Known
  <2>. QED
    BY <2>1, <2>3, <2>4
<1>2. /\ Len(new[id].outcomes) = n + 1 /\ new[id].outcomes[n + 1] = outcome
      /\ DOMAIN new[id].outcomes = 1 .. (n + 1) /\ DOMAIN old[id].outcomes = 1 .. n
      /\ \A m \in 1 .. n : new[id].outcomes[m] = old[id].outcomes[m]
  BY <1>0, <1>1
<1>3. NextIndex(old[id]) = old[id].first + n + 1 /\ NextIndex(new[id]) = old[id].first + n + 1
  BY <1>0, <1>1, <1>2, SMTT(20) DEF NextIndex
<1>4. r[1] = old[id].root /\ r[2] = old[id].first + n
  BY <1>0
<1> HIDE DEF n
<1>5. ~IsForgotten(old, r) /\ ~IsForgotten(new, r)
  <2>1. r[1] \in Ids /\ old[r[1]].status # "archived" /\ new[r[1]].status # "archived"
    <3>1. Known(new, id)
      BY <1>0, <1>1 DEF Known
    <3>. QED
      BY <1>0, <1>1, <1>4, <3>1, SMTT(30) DEF Shape, Rooted, Stored
  <2>. QED
    BY <1>0, <2>1 DEF IsForgotten
<1>6. Covers(old, id, r) /\ Covers(new, id, r)
  BY <1>0, <1>1, <1>3, <1>4, SMTT(20) DEF Covers
<1>7. Says(old, id, r[2]) = "uncertain"
  <2>1. r[2] - old[id].first + 1 = n + 1
    BY <1>0, <1>1, <1>4
  <2>. QED
    BY <1>0, <1>1, <1>2, <2>1 DEF Says
<1>8. Says(new, id, r[2]) = IF outcome = "unknown" THEN "uncertain" ELSE outcome
  <2>1. r[2] - new[id].first + 1 = n + 1
    BY <1>0, <1>1, <1>4, SMTT(20)
  <2>. QED
    BY <1>0, <1>1, <1>2, <2>1, SMTT(30) DEF Says
<1>9. ASSUME NEW q \in Records, q # r
      PROVE  EntryOf(new)[q] = EntryOf(old)[q]
  <2>1. q[1] # r[1] \/ q[2] # r[2]
    BY <1>0, <1>9 DEF Records
  <2>2. q[2] \in Nat
    BY <1>0 DEF Records, Indexes
  <2>3. Covers(old, id, q) <=> Covers(new, id, q)
    BY <1>0, <1>1, <1>3 DEF Covers
  <2>4. ASSUME Covers(old, id, q)
        PROVE  Says(old, id, q[2]) = Says(new, id, q[2])
    <3>1. q[1] = r[1] /\ old[id].first <= q[2] /\ q[2] < NextIndex(old[id])
      BY <1>0, <1>4, <2>4 DEF Covers
    <3>2. q[2] # old[id].first + n
      BY <1>0, <1>4, <2>1, <3>1
    <3>3. q[2] < old[id].first + n
      <4>1. old[id].first + n \in Nat /\ q[2] < (old[id].first + n) + 1
        BY <1>0, <1>1, <1>3, <3>1, SMTT(20)
      <4>. QED
        BY <1>0, <2>2, <3>2, <4>1
    <3>4. q[2] - old[id].first + 1 \in 1 .. n
      BY <1>0, <1>1, <2>2, <3>1, <3>3, Turn
    <3>. QED
      BY <1>0, <1>1, <1>2, <3>4, SMTT(30) DEF Says
  <2>5. InTurn(old) /\ InTurn(new) /\ Stored(old, id) /\ Stored(new, id)
    BY <1>0, <1>1
  <2>6. \A i \in Ids : i # id => new[i] = old[i]
    BY <1>0
  <2>. QED
    BY <2>3, <2>4, <2>5, <2>6, JobSaysTheSame, ZenonT(30)
<1>. QED
  BY <1>1, <1>5, <1>6, <1>7, <1>8, <1>9, EntryFacts

\* The end of a job or a finding says nothing of its records.
LEMMA RestSays ==
    ASSUME NEW old \in [Ids -> Job], NEW new \in [Ids -> Job], Shape(old, sends), Shape(new, sends),
           NEW id \in Ids, Stored(old, id), Stored(new, id),
           \A i \in Ids : i # id => new[i] = old[i],
           new[id].pending = old[id].pending, new[id].outcomes = old[id].outcomes,
           new[id].root = old[id].root, new[id].first = old[id].first
    PROVE  EntryOf(new) = EntryOf(old)
<1>1. InTurn(old) /\ InTurn(new) /\ old[id].status # "absent" /\ new[id].status # "absent"
  BY DEF Shape, Stored
<1>2. NextIndex(new[id]) = NextIndex(old[id])
  BY DEF NextIndex
<1>3. ASSUME NEW r \in Records
      PROVE  EntryOf(old)[r] = EntryOf(new)[r]
  <2>1. Covers(old, id, r) <=> Covers(new, id, r)
    BY <1>1, <1>2 DEF Covers
  <2>2. Says(old, id, r[2]) = Says(new, id, r[2])
    BY DEF Says
  <2>. QED
    BY <1>1, <2>1, <2>2, JobSaysTheSame
<1>. QED
  BY <1>3, EntryEquality

\* A job that begins covers no record yet.
LEMMA NewJobSays ==
    ASSUME NEW old \in [Ids -> Job], NEW new \in [Ids -> Job], Shape(old, sends), Shape(new, sends),
           NEW id \in Ids, ~Known(old, id), new[id].status = "running", NextIndex(new[id]) = new[id].first,
           \A i \in Ids : i # id => /\ new[i].status = old[i].status /\ new[i].root = old[i].root
                                    /\ new[i].first = old[i].first /\ new[i].outcomes = old[i].outcomes
                                    /\ new[i].pending = old[i].pending
    PROVE  EntryOf(new) = EntryOf(old)
<1>1. InTurn(old) /\ InTurn(new) /\ old[id].status = "absent"
  BY DEF Shape, Known
<1>2. ASSUME NEW r \in Records
      PROVE  EntryOf(old)[r] = EntryOf(new)[r]
  <2>1. r[1] \in Ids /\ r[2] \in Nat /\ new[id].first \in Nat
    BY SMTT(20) DEF Records, Indexes, Job
  <2>2. IsForgotten(old, r) <=> IsForgotten(new, r)
    BY <1>1, <2>1 DEF IsForgotten
  <2>3. ASSUME NEW i \in Ids
        PROVE  /\ Covers(old, i, r) <=> Covers(new, i, r)
               /\ Covers(old, i, r) => Says(old, i, r[2]) = Says(new, i, r[2])
    <3>1. CASE i = id
      BY <1>1, <2>1, <3>1 DEF Covers
    <3>2. CASE i # id
      <4>1. NextIndex(new[i]) = NextIndex(old[i])
        BY <3>2 DEF NextIndex
      <4>. QED
        BY <3>2, <4>1 DEF Covers, Says
    <3>. QED
      BY <3>1, <3>2
  <2>. QED
    BY <1>1, <2>2, <2>3, SameEntry
<1>. QED
  BY <1>2, EntryEquality

\* A chain that goes is forgotten, and nothing of it was uncertain.
LEMMA ChainSays ==
    ASSUME NEW old \in [Ids -> Job], NEW new \in [Ids -> Job], Shape(old, sends), Shape(new, sends),
           NEW root \in Ids, Stored(old, root), old[root].root = root,
           \A i \in Chain(old, root) : ~IsUncertain(old[i]),
           new = [i \in Ids |-> IF i \in Chain(old, root) THEN [old[i] EXCEPT !.status = "archived"]
                                ELSE old[i]]
    PROVE  /\ \A k \in Indexes : EntryOf(old)[<<root, k>>] # "uncertain"
           /\ EntryOf(new) = [r \in Records |-> IF r[1] = root THEN "forgotten" ELSE EntryOf(old)[r]]
<1>1. InTurn(old) /\ InTurn(new) /\ Rooted(old)
  BY DEF Shape
<1>2. \A i \in Ids :
         /\ new[i].root = old[i].root /\ new[i].first = old[i].first
         /\ new[i].outcomes = old[i].outcomes
         /\ NextIndex(new[i]) = NextIndex(old[i])
         /\ new[i].status = IF Stored(old, i) /\ old[i].root = root THEN "archived"
                            ELSE old[i].status
  BY DEF Chain, Job, NextIndex
<1>3. ASSUME NEW k \in Indexes
      PROVE  EntryOf(old)[<<root, k>>] # "uncertain"
  <2> DEFINE r == <<root, k>>
  <2>1. r \in Records /\ k \in Nat
    BY DEF Records, Indexes
  <2>2. ~IsForgotten(old, r)
    BY DEF IsForgotten, Stored
  <2>3. CASE \A i \in Ids : ~Covers(old, i, r)
    BY <1>1, <2>1, <2>2, <2>3, EntryFacts
  <2>4. ASSUME NEW i \in Ids, Covers(old, i, r)
        PROVE  EntryOf(old)[r] # "uncertain"
    <3>1. Stored(old, i) /\ old[i].root = root /\ old[i].first <= k /\ k < NextIndex(old[i])
      BY <1>1, <2>4 DEF Covers, Rooted, Stored, Known
    <3>2. ~IsUncertain(old[i])
      BY <3>1 DEF Chain
    <3>3. old[i].first \in Nat /\ old[i].outcomes \in Seq(Outcomes) /\ Len(old[i].outcomes) \in Nat
      BY SMTT(20) DEF Job
    <3>4. NextIndex(old[i]) = old[i].first + Len(old[i].outcomes)
      BY <3>2, <3>3 DEF NextIndex, IsUncertain
    <3>5. k - old[i].first + 1 \in DOMAIN old[i].outcomes
      BY <2>1, <3>1, <3>3, <3>4, SMTT(20)
    <3>6. Says(old, i, k) # "uncertain"
      <4> DEFINE n == k - old[i].first + 1
      <4>1. n \in DOMAIN old[i].outcomes /\ old[i].outcomes[n] \in Outcomes
        BY <3>3, <3>5
      <4>2. old[i].outcomes[n] # "unknown"
        BY <3>2, <4>1 DEF IsUncertain
      <4>3. Says(old, i, k) = old[i].outcomes[n]
        BY <4>1, <4>2 DEF Says
      <4>. QED
        BY <4>1, <4>3 DEF Outcomes
    <3>. QED
      BY <1>1, <2>1, <2>2, <2>4, <3>6, EntryFacts
  <2>. QED
    BY <2>3, <2>4
<1>4. ASSUME NEW r \in Records, r[1] = root
      PROVE  EntryOf(new)[r] = "forgotten"
  <2>1. IsForgotten(new, r)
    BY <1>2, <1>4 DEF IsForgotten
  <2>. QED
    BY <1>1, <2>1, EntryFacts
<1>5. ASSUME NEW r \in Records, r[1] # root
      PROVE  EntryOf(new)[r] = EntryOf(old)[r]
  <2>1. r[1] \in Ids
    BY DEF Records
  <2>2. IsForgotten(old, r) <=> IsForgotten(new, r)
    BY <1>2, <1>5, <2>1 DEF IsForgotten
  <2>3. ASSUME NEW i \in Ids
        PROVE  /\ Covers(old, i, r) <=> Covers(new, i, r)
               /\ Covers(old, i, r) => Says(old, i, r[2]) = Says(new, i, r[2])
    BY <1>2, <1>5 DEF Covers, Says
  <2>. QED
    BY <1>1, <2>2, <2>3, SameEntry
<1>6. EntryOf(new) = [r \in Records |-> EntryOf(new)[r]]
  BY DEF EntryOf
<1>. QED
  BY <1>3, <1>4, <1>5, <1>6

\* A record that is intended is uncertain.
LEMMA PendingSays ==
    ASSUME NEW document \in [Ids -> Job], Shape(document, sends), NEW id \in Ids, Stored(document, id),
           document[id].pending, NEW r \in Records, r = TurnOf(document, id)
    PROVE  EntryOf(document)[r] = "uncertain"
<1> DEFINE n == Len(document[id].outcomes)
<1>1. /\ InTurn(document) /\ document[id].first \in Nat /\ n \in Nat /\ Known(document, id)
      /\ document[id].status # "absent" /\ DOMAIN document[id].outcomes = 1 .. n
      /\ r = <<document[id].root, document[id].first + n>>
  BY DEF Shape, Job, Stored, Known, TurnOf
<1>2. NextIndex(document[id]) = document[id].first + n + 1
  BY <1>1 DEF NextIndex
<1> HIDE DEF n
<1>3. r[1] \in Ids /\ document[r[1]].status # "archived"
  BY <1>1 DEF Shape, Rooted, Stored
<1>4. ~IsForgotten(document, r)
  BY <1>3 DEF IsForgotten
<1>5. Covers(document, id, r)
  BY <1>1, <1>2 DEF Covers
<1>6. Says(document, id, r[2]) = "uncertain"
  <2>1. r[2] - document[id].first + 1 = n + 1
    BY <1>1
  <2>. QED
    BY <1>1, <2>1 DEF Says
<1>. QED
  BY <1>1, <1>4, <1>5, <1>6, EntryFacts

---------------------------------------------------------------------------
\* A step of the ledger from the entries e to f, or none.
Move(e, f, sent, stored) ==
    \/ f = e
    \/ \E r \in Records :
          /\ e[r] = "unsent" /\ sent[r] = 0
          /\ f = [e EXCEPT ![r] = "uncertain"]
    \/ \E r \in Records :
          /\ e[r] = "uncertain" /\ sent[r] = 0
          /\ f = [e EXCEPT ![r] = "unsent"]
    \/ \E r \in Records :
          /\ e[r] = "uncertain" /\ sent[r] = 1 /\ stored[r] # "none"
          /\ f = [e EXCEPT ![r] = stored[r]]
    \/ \E root \in Ids :
          /\ \A k \in Indexes : e[<<root, k>>] # "uncertain"
          /\ f = [r \in Records |-> IF r[1] = root THEN "forgotten" ELSE e[r]]

\* The commit that is under way will be a step of the ledger.
MoveInv == writing = "started" => Move(EntryOf(disk), EntryOf(next), sends, broker)

\* A record that was dispatched is uncertain until its receipt.
SentInv ==
    op.step \in {"sent", "receipt"} =>
        /\ disk[op.id].pending /\ Len(disk[op.id].outcomes) = op.index
        /\ Record(op.id, op.index) \in Records /\ sends[Record(op.id, op.index)] = 1
        /\ op.step = "receipt" => op.outcome \in {"unknown", broker[Record(op.id, op.index)]}

LedgerInv == RepairInv /\ MoveInv /\ SentInv

Quiet == UNCHANGED <<sends, broker>> /\ disk' = disk

\* Both ends of a mutation have the shape of a history.
LEMMA Ends ==
    ASSUME RepairInv, RepairInv', Quiet
    PROVE  /\ disk \in [Ids -> Job] /\ next' \in [Ids -> Job]
           /\ Shape(disk, sends) /\ Shape(next', sends)
<1>1. disk \in [Ids -> Job] /\ Shape(disk, sends)
  BY DEF RepairInv, TypeOK, JournalTyped, HistoryInv
<1>2. next' \in [Ids -> Job]
  BY DEF RepairInv, TypeOK, JournalTyped
<1>3. HistoryInv' /\ sends' = sends
  BY DEF RepairInv, Quiet
<1>4. Shape(next', sends)
  BY <1>3 DEF HistoryInv
<1>. QED
  BY <1>1, <1>2, <1>4

LEMMA EntryChange ==
    ASSUME NEW old, NEW new, NEW r \in Records, NEW v, EntryOf(new)[r] = v,
           \A q \in Records : q # r => EntryOf(new)[q] = EntryOf(old)[q]
    PROVE  EntryOf(new) = [EntryOf(old) EXCEPT ![r] = v]
<1>1. /\ EntryOf(old) = [q \in Records |-> EntryOf(old)[q]]
      /\ EntryOf(new) = [q \in Records |-> EntryOf(new)[q]]
  BY DEF EntryOf
<1>. QED
  BY <1>1

\* What an update of the journal changes.
LEMMA UpdateChanges ==
    ASSUME TypeOK, NEW id \in Ids, NEW job, Update(id, job)
    PROVE  /\ disk' = disk /\ Stored(disk, id)
           /\ next'[id] = job /\ \A i \in Ids : i # id => next'[i] = disk[i]
  BY DEF TypeOK, JournalTyped, Update, Mutate

LEMMA IntentMoves ==
    ASSUME RepairInv, RepairInv', UNCHANGED <<sends, broker>>, op.step = "checking",
           op'.step = "intending", op'.id = op.id, op'.index = op.index,
           op.id \in Ids, Intent(op.id, op.index)
    PROVE  MoveInv'
<1> DEFINE id == op.id
           r == TurnOf(disk, id)
<1>1. /\ TypeOK /\ Update(id, [disk[id] EXCEPT !.pending = TRUE]) /\ ~disk[id].pending
      /\ op.index = Len(disk[id].outcomes)
  BY DEF RepairInv, Intent
<1>2. /\ disk' = disk /\ Stored(disk, id) /\ next'[id] = [disk[id] EXCEPT !.pending = TRUE]
      /\ \A i \in Ids : i # id => next'[i] = disk[i]
  BY <1>1, UpdateChanges
<1>3. /\ disk \in [Ids -> Job] /\ next' \in [Ids -> Job] /\ Shape(disk, sends) /\ Shape(next', sends)
  BY <1>2, Ends DEF Quiet
<1>4. /\ next'[id].pending /\ next'[id].outcomes = disk[id].outcomes /\ next'[id].root = disk[id].root
      /\ next'[id].first = disk[id].first
  BY <1>2, <1>3 DEF Job
<1>5. IsLeaf(disk, id) /\ Stored(next', id) /\ sends[r] = 0 /\ r \in Records
  <2>1. IsOwn(disk)
    BY DEF RepairInv, ReplayInv, Sending
  <2>2. IsOwn(next)' /\ IsIntended(next)'
    BY DEF RepairInv, ReplayInv, Sending
  <2>3. Stored(next', id) /\ sends[r] = 0 /\ r[2] \in Indexes
    BY <1>1, <1>4, <2>2 DEF IsOwn, IsIntended, TurnOf
  <2>4. disk[id].root \in Ids
    BY <1>2, <1>3 DEF Shape, Rooted, Stored, Known
  <2>. QED
    BY <2>1, <2>3, <2>4 DEF IsOwn, Records, TurnOf
<1>10. AddsIntent(disk, next', id)
  BY <1>1, <1>2, <1>4, <1>5 DEF AddsIntent
<1>6. /\ EntryOf(disk)[r] = "unsent" /\ EntryOf(next')[r] = "uncertain"
      /\ \A q \in Records : q # r => EntryOf(next')[q] = EntryOf(disk)[q]
  BY <1>3, <1>5, <1>10, IntentSays, ZenonT(20)
<1>7. EntryOf(next') = [EntryOf(disk) EXCEPT ![r] = "uncertain"]
  BY <1>5, <1>6, EntryChange, SMTT(20)
<1>8. Move(EntryOf(disk), EntryOf(next'), sends, broker)
  BY <1>5, <1>6, <1>7 DEF Move
<1>. QED
  BY <1>2, <1>8 DEF MoveInv

LEMMA WithdrawMoves ==
    ASSUME RepairInv, RepairInv', UNCHANGED <<sends, broker>>, op.step = "clear",
           op.id \in Ids, Withdraw(op.id, op.index)
    PROVE  MoveInv'
<1> DEFINE id == op.id
           r == TurnOf(disk, id)
<1>1. /\ TypeOK /\ Update(id, [disk[id] EXCEPT !.pending = FALSE]) /\ disk[id].pending
      /\ op.index = Len(disk[id].outcomes)
  BY DEF RepairInv, Withdraw
<1>2. /\ disk' = disk /\ Stored(disk, id) /\ next'[id] = [disk[id] EXCEPT !.pending = FALSE]
      /\ \A i \in Ids : i # id => next'[i] = disk[i]
  BY <1>1, UpdateChanges
<1>3. /\ disk \in [Ids -> Job] /\ next' \in [Ids -> Job] /\ Shape(disk, sends) /\ Shape(next', sends)
  BY <1>2, Ends DEF Quiet
<1>4. /\ ~next'[id].pending /\ next'[id].outcomes = disk[id].outcomes /\ next'[id].root = disk[id].root
      /\ next'[id].first = disk[id].first /\ next'[id].status = disk[id].status
      /\ next'[id].continuation = disk[id].continuation
  BY <1>2, <1>3 DEF Job
<1>5. IsOwn(disk) /\ IsIntended(disk)
  BY DEF RepairInv, ReplayInv, Sending
<1>6. IsLeaf(next', id) /\ Stored(next', id) /\ sends[r] = 0 /\ r \in Records
  <2>1. sends[r] = 0 /\ r[2] \in Indexes
    BY <1>1, <1>5 DEF IsIntended, TurnOf
  <2>2. disk[id].root \in Ids
    BY <1>2, <1>3 DEF Shape, Rooted, Stored, Known
  <2>. QED
    BY <1>2, <1>4, <1>5, <2>1, <2>2 DEF IsOwn, IsLeaf, Stored, Records, TurnOf
<1>10. AddsIntent(next', disk, id) /\ r = TurnOf(next', id)
  BY <1>1, <1>2, <1>4, <1>6 DEF AddsIntent, TurnOf
<1> HIDE DEF r
<1>7. /\ EntryOf(next')[r] = "unsent" /\ EntryOf(disk)[r] = "uncertain"
      /\ \A q \in Records : q # r => EntryOf(disk)[q] = EntryOf(next')[q]
  <2>1. PICK clear \in [Ids -> Job] : clear = next'
    BY <1>3
  <2>2. /\ Shape(clear, sends) /\ AddsIntent(clear, disk, id) /\ r = TurnOf(clear, id)
        /\ r \in Records
    BY <1>3, <1>6, <1>10, <2>1
  <2>3. disk \in [Ids -> Job] /\ Shape(disk, sends) /\ id \in Ids
    BY <1>3
  <2> HIDE DEF id
  <2>4. /\ EntryOf(clear)[r] = "unsent" /\ EntryOf(disk)[r] = "uncertain"
        /\ \A q \in Records : q # r => EntryOf(disk)[q] = EntryOf(clear)[q]
    BY <2>2, <2>3, IntentSays
  <2>. QED
    BY <2>1, <2>4
<1>8. EntryOf(next') = [EntryOf(disk) EXCEPT ![r] = "unsent"]
  BY <1>6, <1>7, EntryChange
<1>9. Move(EntryOf(disk), EntryOf(next'), sends, broker)
  BY <1>6, <1>7, <1>8 DEF Move
<1>. QED
  BY <1>2, <1>9 DEF MoveInv

LEMMA ReceiptMoves ==
    ASSUME RepairInv, RepairInv', SentInv, UNCHANGED <<sends, broker>>, op.step = "receipt",
           op.id \in Ids, op.outcome \in Outcomes, Receipt(op.id, op.index, op.outcome)
    PROVE  MoveInv'
<1> DEFINE id == op.id
           r == Record(id, op.index)
           received == [disk[id] EXCEPT !.pending = FALSE, !.outcomes = Append(@, op.outcome)]
<1>1. TypeOK /\ Update(id, received) /\ disk[id].pending /\ op.index = Len(disk[id].outcomes)
  BY DEF RepairInv, Receipt
<1>2. /\ disk' = disk /\ Stored(disk, id) /\ next'[id] = received
      /\ \A i \in Ids : i # id => next'[i] = disk[i]
  BY <1>1, UpdateChanges
<1>3. /\ disk \in [Ids -> Job] /\ next' \in [Ids -> Job] /\ Shape(disk, sends) /\ Shape(next', sends)
  BY <1>2, Ends DEF Quiet
<1>4. /\ ~next'[id].pending /\ next'[id].outcomes = Append(disk[id].outcomes, op.outcome)
      /\ next'[id].root = disk[id].root /\ next'[id].first = disk[id].first
      /\ next'[id].status = disk[id].status
  BY <1>2, <1>3, SMTT(30) DEF Job
<1>5. /\ r \in Records /\ sends[r] = 1 /\ op.outcome \in {"unknown", broker[r]}
  BY DEF SentInv
<1>6. r = TurnOf(disk, id) /\ AddsReceipt(disk, next', id, op.outcome)
  BY <1>1, <1>2, <1>4 DEF Record, Stored, TurnOf, AddsReceipt
<1> HIDE DEF r, received
<1>7. /\ EntryOf(disk)[r] = "uncertain"
      /\ EntryOf(next')[r] = IF op.outcome = "unknown" THEN "uncertain" ELSE op.outcome
      /\ \A q \in Records : q # r => EntryOf(next')[q] = EntryOf(disk)[q]
  <2>1. id \in Ids
    OBVIOUS
  <2> HIDE DEF id
  <2>. QED
    BY <1>3, <1>5, <1>6, <2>1, ReceiptSays
<1>8. CASE op.outcome = "unknown"
  <2>1. EntryOf(next') = EntryOf(disk)
    BY <1>7, <1>8, EntryEquality
  <2>. QED
    BY <1>2, <2>1 DEF MoveInv, Move
<1>9. CASE op.outcome # "unknown"
  <2>1. EntryOf(next') = [EntryOf(disk) EXCEPT ![r] = broker[r]]
    BY <1>5, <1>7, <1>9, EntryChange
  <2>2. broker[r] # "none"
    BY <1>5, <1>9 DEF Outcomes
  <2>3. Move(EntryOf(disk), EntryOf(next'), sends, broker)
    BY <1>5, <1>7, <2>1, <2>2 DEF Move
  <2>. QED
    BY <1>2, <2>3 DEF MoveInv
<1>. QED
  BY <1>8, <1>9

\* The other mutations of the history.
LEMMA OtherMoves ==
    ASSUME RepairInv, RepairInv', Quiet, EntryOf(next') = EntryOf(disk)
    PROVE  MoveInv'
  BY DEF MoveInv, Move, Quiet

LEMMA RestMoves ==
    ASSUME RepairInv, RepairInv', UNCHANGED <<sends, broker>>, NEW id \in Ids,
           \/ \E complete \in BOOLEAN : Finish(id, complete)
           \/ \E snapshot \in Job : RecordFinding(id, snapshot, Active)
    PROVE  Quiet /\ MoveInv'
<1>1. PICK job : /\ Update(id, job) /\ job.status \notin {"absent", "archived"}
                 /\ job.pending = disk[id].pending /\ job.outcomes = disk[id].outcomes
                 /\ job.root = disk[id].root /\ job.first = disk[id].first
  <2>1. disk[id] \in Job
    BY DEF RepairInv, TypeOK, JournalTyped
  <2>2. ASSUME NEW complete \in BOOLEAN, Finish(id, complete)
        PROVE  \E job : /\ Update(id, job) /\ job.status \notin {"absent", "archived"}
                        /\ job.pending = disk[id].pending /\ job.outcomes = disk[id].outcomes
                        /\ job.root = disk[id].root /\ job.first = disk[id].first
    <3> DEFINE job == [disk[id] EXCEPT !.status = IF complete THEN "complete" ELSE "stopped"]
    <3>1. /\ job.status \notin {"absent", "archived"}
          /\ job.pending = disk[id].pending /\ job.outcomes = disk[id].outcomes
          /\ job.root = disk[id].root /\ job.first = disk[id].first
      BY <2>1 DEF Job
    <3>2. Update(id, job)
      BY <2>2 DEF Finish
    <3>. QED
      BY <3>1, <3>2
  <2>3. ASSUME NEW snapshot \in Job, RecordFinding(id, snapshot, Active)
        PROVE  \E job : /\ Update(id, job) /\ job.status \notin {"absent", "archived"}
                        /\ job.pending = disk[id].pending /\ job.outcomes = disk[id].outcomes
                        /\ job.root = disk[id].root /\ job.first = disk[id].first
    <3> DEFINE job == [disk[id] EXCEPT !.findings = @ + 1]
    <3>1. Update(id, job)
      BY <2>3 DEF RecordFinding
    <3>2. /\ job.status \notin {"absent", "archived"}
          /\ job.pending = disk[id].pending /\ job.outcomes = disk[id].outcomes
          /\ job.root = disk[id].root /\ job.first = disk[id].first
      BY <2>1, <3>1 DEF Job, Update, Stored
    <3>. QED
      BY <3>1, <3>2
  <2>. QED
    BY <2>2, <2>3
<1>2. /\ disk' = disk /\ Stored(disk, id) /\ next'[id] = job
      /\ \A i \in Ids : i # id => next'[i] = disk[i]
  BY <1>1, UpdateChanges DEF RepairInv
<1>3. Quiet /\ Stored(next', id)
  BY <1>1, <1>2 DEF Quiet, Stored
<1>4. /\ disk \in [Ids -> Job] /\ next' \in [Ids -> Job] /\ Shape(disk, sends) /\ Shape(next', sends)
  BY <1>3, Ends
<1>5. EntryOf(next') = EntryOf(disk)
  BY <1>1, <1>2, <1>3, <1>4, RestSays
<1>. QED
  BY <1>3, <1>5, OtherMoves

LEMMA BeginMoves ==
    ASSUME RepairInv, RepairInv', UNCHANGED <<sends, broker>>, NEW id \in Ids,
           NEW parent \in Ids \union {None}, NEW snapshot \in Job, Begin(id, parent, snapshot, Active)
    PROVE  Quiet /\ MoveInv'
<1> DEFINE child == [NoJob EXCEPT !.status = "running",
                                  !.root = IF parent = None THEN id ELSE snapshot.root,
                                  !.first = NextIndex(snapshot), !.parent = parent]
           added == [disk EXCEPT ![id] = child]
<1>1. Quiet /\ ~Known(disk, id) /\ (parent # None => Known(disk, parent))
  BY DEF Begin, Mutate, Quiet, Known, Stored
<1>2. next' = IF parent = None THEN added ELSE [added EXCEPT ![parent].continuation = id]
  BY DEF Begin, Mutate
<1>3. /\ disk \in [Ids -> Job] /\ next' \in [Ids -> Job] /\ Shape(disk, sends) /\ Shape(next', sends)
  BY <1>1, Ends
<1>4. child.status = "running" /\ NextIndex(child) = child.first
  <2>1. /\ child.status = "running" /\ child.outcomes = <<>> /\ child.pending = FALSE
        /\ child.first = NextIndex(snapshot)
    BY DEF NoJob
  <2>2. NextIndex(snapshot) \in Nat
    BY NextIndexTyped
  <2> HIDE DEF child
  <2>. QED
    BY <2>1, <2>2 DEF NextIndex
<1> HIDE DEF child
<1>5. next'[id] = child
  BY <1>1, <1>2, <1>3
<1>6. \A i \in Ids : i # id => /\ next'[i].status = disk[i].status /\ next'[i].root = disk[i].root
                               /\ next'[i].first = disk[i].first /\ next'[i].outcomes = disk[i].outcomes
                               /\ next'[i].pending = disk[i].pending
  BY <1>2, <1>3, ZenonT(30) DEF Job
<1>7. EntryOf(next') = EntryOf(disk)
  BY <1>1, <1>3, <1>4, <1>5, <1>6, NewJobSays
<1>. QED
  BY <1>1, <1>7, OtherMoves

LEMMA ArchiveMoves ==
    ASSUME RepairInv, RepairInv', UNCHANGED <<sends, broker>>, NEW root \in Ids, Archive(root, Active)
    PROVE  Quiet /\ MoveInv'
<1> DEFINE document == [i \in Ids |-> IF i \in Chain(disk, root)
                                      THEN [disk[i] EXCEPT !.status = "archived"] ELSE disk[i]]
<1>1. /\ Quiet /\ next' = document /\ Stored(disk, root) /\ disk[root].parent = None
      /\ \A i \in Chain(disk, root) : ~IsUncertain(disk[i])
  BY DEF Archive, Mutate, Quiet
<1> HIDE DEF document
<1>2. /\ disk \in [Ids -> Job] /\ next' \in [Ids -> Job] /\ Shape(disk, sends) /\ Shape(next', sends)
  BY <1>1, Ends
<1>3. disk[root].root = root
  BY <1>1, <1>2 DEF Shape, Rooted, Stored, Known
<1>4. next' = [i \in Ids |-> IF i \in Chain(disk, root) THEN [disk[i] EXCEPT !.status = "archived"]
                             ELSE disk[i]]
  BY <1>1 DEF document
<1>5. /\ \A k \in Indexes : EntryOf(disk)[<<root, k>>] # "uncertain"
      /\ EntryOf(next') = [r \in Records |-> IF r[1] = root THEN "forgotten" ELSE EntryOf(disk)[r]]
  BY <1>1, <1>2, <1>3, <1>4, ChainSays, SMTT(20)
<1>6. Move(EntryOf(disk), EntryOf(next'), sends, broker)
  BY <1>5 DEF Move
<1>. QED
  BY <1>1, <1>6 DEF MoveInv, Quiet

---------------------------------------------------------------------------
\* Every step of the code is a step of the ledger or none.
LedgerVars == <<Entry, sends, broker>>
LedgerStep == Ledger!Next \/ UNCHANGED LedgerVars

LEMMA QuietSteps == Quiet => LedgerStep
  BY DEF Quiet, LedgerStep, LedgerVars, Entry

LEMMA SentRests ==
    ASSUME SentInv, UNCHANGED <<op, disk, sends>>, op.step = "receipt" => broker' = broker
    PROVE  SentInv'
<1>1. Record(op.id, op.index)' = Record(op.id, op.index)
  BY DEF Record
<1>. QED
  BY <1>1 DEF SentInv

LEMMA SentIsOver ==
    ASSUME op'.step \notin {"sent", "receipt"}
    PROVE  SentInv'
  BY DEF SentInv

LEMMA MoveRests ==
    ASSUME MoveInv, Quiet, UNCHANGED journalVars \/ writing' = "idle"
    PROVE  MoveInv'
<1>1. CASE UNCHANGED journalVars
  BY <1>1 DEF MoveInv, Quiet, journalVars
<1>2. CASE writing' = "idle"
  BY <1>2 DEF MoveInv
<1>. QED
  BY <1>1, <1>2

LEMMA ReplayStepMoves ==
    ASSUME LedgerInv, RepairInv', ReplaySteps
    PROVE  MoveInv' /\ SentInv' /\ LedgerStep
<1>1. /\ TypeOK /\ RepairInv /\ MoveInv /\ SentInv /\ op \in Op
      /\ op.step # "idle" => op.id \in Ids
      /\ op.index \in Nat /\ op.complete \in BOOLEAN /\ op.outcome \in Outcomes
  BY TypesSplit DEF LedgerInv, RepairInv, Op
<1>2. broker' = broker
  BY DEF ReplaySteps, BeginJob, JobBegun, BatchEnds, JournalRefuses, IntendRecord, Dispatch, HoldBack,
         WithdrawIntent, WriteSettles, RecordReceipt, RecordSettled, BatchSettled, CommitFails,
         FinishJob, EndReplay, opRest
<1>3. \A s : op' = [op EXCEPT !.step = s] =>
               op'.step = s /\ op'.id = op.id /\ op'.index = op.index
  BY <1>1 DEF Op
<1>4. CASE BeginJob
  <2>1. op.step # "idle" /\ op.id \in Ids /\ sends' = sends
    BY <1>1, <1>4 DEF BeginJob
  <2>2. plan[op.id].parent \in Ids \union {None} /\ plan[op.id].snapshot \in Job
    BY <1>1, <2>1, TypesSplit DEF PlansTyped, LinkedPlan, Plan
  <2>3. Quiet /\ MoveInv'
    BY <1>1, <1>2, <1>4, <2>1, <2>2, BeginMoves DEF BeginJob
  <2>4. op'.step = "beginning"
    BY <1>3, <1>4 DEF BeginJob
  <2>. QED
    BY <2>3, <2>4, QuietSteps, SentIsOver
<1>5. CASE IntendRecord
  <2>1. /\ op.step = "checking" /\ Intent(op.id, op.index) /\ sends' = sends
        /\ op'.step = "intending" /\ op'.id = op.id /\ op'.index = op.index
    BY <1>3, <1>5 DEF IntendRecord
  <2>2. MoveInv'
    BY <1>1, <1>2, <2>1, IntentMoves
  <2>3. Quiet
    BY <1>2, <2>1 DEF Intent, Update, Mutate, Quiet
  <2>. QED
    BY <2>1, <2>2, <2>3, QuietSteps, SentIsOver
<1>6. CASE WithdrawIntent
  <2>1. op.step = "clear" /\ Withdraw(op.id, op.index) /\ sends' = sends /\ op'.step = "clearing"
    BY <1>3, <1>6 DEF WithdrawIntent
  <2>2. MoveInv'
    BY <1>1, <1>2, <2>1, WithdrawMoves
  <2>3. Quiet
    BY <1>2, <2>1 DEF Withdraw, Update, Mutate, Quiet
  <2>. QED
    BY <2>1, <2>2, <2>3, QuietSteps, SentIsOver
<1>7. CASE RecordReceipt
  <2>1. /\ op.step = "receipt" /\ Receipt(op.id, op.index, op.outcome) /\ sends' = sends
        /\ op'.step = "recording"
    BY <1>3, <1>7 DEF RecordReceipt
  <2>2. MoveInv'
    BY <1>1, <1>2, <2>1, ReceiptMoves
  <2>3. Quiet
    BY <1>2, <2>1 DEF Receipt, Update, Mutate, Quiet
  <2>. QED
    BY <2>1, <2>2, <2>3, QuietSteps, SentIsOver
<1>8. CASE FinishJob
  <2>1. op.step = "closing" /\ Finish(op.id, op.complete) /\ sends' = sends /\ op'.step = "finishing"
    BY <1>3, <1>8 DEF FinishJob
  <2>2. Quiet /\ MoveInv'
    BY <1>1, <1>2, <2>1, RestMoves
  <2>. QED
    BY <2>1, <2>2, QuietSteps, SentIsOver
<1>9. CASE Dispatch
  <2> DEFINE r == Record(op.id, op.index)
             job == disk[op.id]
  <2>1. /\ op.step = "intending" /\ Confirm /\ op'.step = "sent" /\ op'.id = op.id
        /\ op'.index = op.index /\ sends' = [sends EXCEPT ![r] = @ + 1]
    BY <1>3, <1>9 DEF Dispatch
  <2>2. disk' = disk /\ writing' = "idle" /\ next = disk /\ op.id \in Ids
    BY <1>1, <2>1 DEF Confirm, RepairInv, HistoryInv
  <2>3. IsOwn(disk) /\ IsIntended(disk)
    BY <1>1, <2>1, <2>2 DEF RepairInv, ReplayInv, Sending, IsOwn, IsIntended
  <2>4. /\ job.pending /\ Len(job.outcomes) = op.index /\ sends[r] = 0 /\ r = TurnOf(disk, op.id)
        /\ Stored(disk, op.id) /\ job \in Job /\ disk \in [Ids -> Job] /\ Shape(disk, sends)
    BY <1>1, <2>2, <2>3 DEF IsOwn, IsIntended, Record, TurnOf, TypeOK, JournalTyped, RepairInv, HistoryInv
  <2>5. SentIsKnown'
    BY DEF RepairInv, ReplayInv
  <2>6. r \in Records
    BY <2>1, <2>2, <2>5 DEF SentIsKnown, Record
  <2>7. EntryOf(disk)[r] = "uncertain"
    BY <1>1, <2>2, <2>4, <2>6, PendingSays
  <2> HIDE DEF r, job
  <2>8. sends' = [sends EXCEPT ![r] = 1] /\ sends'[r] = 1
    BY <1>1, <2>1, <2>4, <2>6 DEF TypeOK
  <2>9. Ledger!Send(r)
    BY <1>2, <2>2, <2>4, <2>7, <2>8 DEF Ledger!Send, Entry
  <2>10. LedgerStep
    BY <2>6, <2>9 DEF LedgerStep, Ledger!Next, Ledger!Records, Records
  <2>11. SentInv'
    <3>1. Record(op.id, op.index)' = r
      BY <2>1, <2>2 DEF r, Record
    <3>. QED
      BY <2>1, <2>2, <2>4, <2>6, <2>8, <3>1 DEF SentInv, job
  <2>12. MoveInv'
    BY <2>2 DEF MoveInv
  <2>. QED
    BY <2>10, <2>11, <2>12
<1>10. CASE WriteSettles
  <2>1. /\ op.step = "sent" /\ UNCHANGED journalVars /\ sends' = sends /\ op'.step = "receipt"
        /\ op'.id = op.id /\ op'.index = op.index
        /\ op'.outcome \in {broker[Record(op.id, op.index)], "unknown"}
    BY <1>1, <1>10 DEF WriteSettles, Op
  <2>2. Quiet
    BY <1>2, <2>1 DEF Quiet, journalVars
  <2>3. Record(op.id, op.index)' = Record(op.id, op.index)
    BY <2>1, <2>2 DEF Record, Quiet
  <2>4. SentInv'
    BY <1>1, <1>2, <2>1, <2>2, <2>3 DEF SentInv, Quiet
  <2>. QED
    BY <1>1, <2>1, <2>2, <2>4, QuietSteps, MoveRests
<1>11. CASE JobBegun \/ BatchEnds \/ JournalRefuses \/ HoldBack \/ RecordSettled \/ BatchSettled \/ CommitFails
            \/ EndReplay
  <2>1. sends' = sends /\ (UNCHANGED journalVars \/ Confirm \/ Fail)
    BY <1>11 DEF JobBegun, BatchEnds, JournalRefuses, HoldBack, RecordSettled, BatchSettled, CommitFails,
                 EndReplay, Stop
  <2>2. op'.step \notin {"sent", "receipt"}
    <3>1. CASE JobBegun \/ RecordSettled
      BY <1>1, <3>1 DEF JobBegun, RecordSettled, Op
    <3>2. CASE HoldBack
      BY <1>3, <3>2 DEF HoldBack
    <3>3. CASE BatchEnds \/ JournalRefuses \/ BatchSettled \/ CommitFails
      <4>1. op'.step = "closing"
        BY <3>3 DEF BatchEnds, JournalRefuses, BatchSettled, CommitFails, Stop, StopWith, NoOp
      <4>. QED
        BY <4>1
    <3>4. CASE EndReplay
      <4>1. op'.step = "idle"
        BY <3>4 DEF EndReplay, NoOp
      <4>. QED
        BY <4>1
    <3>. QED
      BY <1>11, <3>1, <3>2, <3>3, <3>4
  <2>3. disk' = disk /\ (UNCHANGED journalVars \/ writing' = "idle")
    BY <2>1 DEF journalVars, Confirm, Fail
  <2>4. Quiet
    BY <1>2, <2>1, <2>3 DEF Quiet
  <2>. QED
    BY <1>1, <2>2, <2>3, <2>4, QuietSteps, MoveRests, SentIsOver
<1>. QED
  BY <1>4, <1>5, <1>6, <1>7, <1>8, <1>9, <1>10, <1>11 DEF ReplaySteps

LEMMA TaskStepMoves ==
    ASSUME LedgerInv, RepairInv', TaskSteps
    PROVE  MoveInv' /\ SentInv' /\ LedgerStep
<1>1. /\ RepairInv /\ MoveInv /\ SentInv /\ OneHistoryUser /\ rec.snapshot \in Job
      /\ rec.step # "idle" => rec.job \in Ids
  BY TypesSplit DEF LedgerInv, RepairInv, Task
<1>2. rec.step # "idle" /\ op' = op /\ UNCHANGED <<sends, broker>>
  BY DEF TaskSteps, TaskRefused, ArchiveChain, Observe, ObservationEnds, RecordObservation, TaskCommits,
         ReviewContinuation, recRest, brokerVars
<1>3. op.step = "idle" /\ op'.step = "idle" /\ rec.job \in Ids
  BY <1>1, <1>2 DEF OneHistoryUser
<1>4. SentInv'
  BY <1>3, SentIsOver
<1>5. CASE ArchiveChain
  BY <1>1, <1>2, <1>3, <1>4, <1>5, ArchiveMoves, QuietSteps DEF ArchiveChain
<1>6. CASE RecordObservation
  BY <1>1, <1>2, <1>3, <1>4, <1>6, RestMoves, QuietSteps DEF RecordObservation
<1>7. CASE ~ArchiveChain /\ ~RecordObservation
  <2>1. UNCHANGED journalVars \/ Confirm \/ Fail
    BY <1>7 DEF TaskSteps, TaskRefused, Observe, ObservationEnds, TaskCommits, ReviewContinuation
  <2>2. Quiet /\ (UNCHANGED journalVars \/ writing' = "idle")
    BY <1>2, <2>1 DEF Quiet, journalVars, Confirm, Fail
  <2>. QED
    BY <1>1, <1>4, <2>2, MoveRests, QuietSteps
<1>. QED
  BY <1>5, <1>6, <1>7

\* The commit lands: this is the step of the ledger.
LEMMA LandingMoves ==
    ASSUME LedgerInv, JournalWrites
    PROVE  MoveInv' /\ SentInv' /\ LedgerStep
<1>1. /\ writing = "started" /\ writing' = "landed" /\ disk' = next
      /\ op' = op /\ UNCHANGED <<sends, broker>>
  BY DEF JournalWrites, WriteLands, replayVars, brokerVars
<1>2. op.step \notin {"sent", "receipt"}
  BY <1>1 DEF LedgerInv, RepairInv, ReplayInv
<1>3. MoveInv' /\ SentInv'
  BY <1>1, <1>2, SentIsOver DEF MoveInv
<1>4. Move(Entry, Entry', sends, broker)
  BY <1>1 DEF LedgerInv, MoveInv, Entry
<1>5. LedgerStep
  BY <1>1, <1>4 DEF Move, LedgerStep, LedgerVars, Ledger!Next, Ledger!Intend, Ledger!Withdraw, Ledger!Enter,
                    Ledger!Forget, Ledger!Records, Records
<1>. QED
  BY <1>3, <1>5

LEMMA BrokerMoves ==
    ASSUME LedgerInv, NEW r \in Records, BrokerDecides(r)
    PROVE  MoveInv' /\ SentInv' /\ LedgerStep
<1>1. /\ op.step = "sent" /\ r = Record(op.id, op.index) /\ broker[r] = "none"
      /\ \E verdict \in {"acknowledged", "rejected"} : broker' = [broker EXCEPT ![r] = verdict]
      /\ UNCHANGED journalVars /\ op' = op /\ sends' = sends
  BY DEF BrokerDecides, replayVars
<1>2. SentInv /\ writing = "idle" /\ disk' = disk /\ writing' = "idle"
  BY <1>1 DEF LedgerInv, RepairInv, ReplayInv, journalVars
<1>3. SentInv'
  BY <1>1, <1>2, SentRests
<1>4. MoveInv'
  BY <1>2 DEF MoveInv
<1>5. sends[r] = 1
  BY <1>1, <1>2 DEF SentInv
<1>6. Ledger!Decide(r)
  BY <1>1, <1>2, <1>5 DEF Ledger!Decide, Entry
<1>7. LedgerStep
  BY <1>6 DEF LedgerStep, Ledger!Next, Ledger!Records, Records
<1>. QED
  BY <1>3, <1>4, <1>7

LEMMA OtherStepMoves ==
    ASSUME LedgerInv, Quiet, UNCHANGED journalVars \/ writing' = "idle",
           op' = op \/ op'.step \notin {"sent", "receipt"}
    PROVE  MoveInv' /\ SentInv' /\ LedgerStep
<1>1. MoveInv' /\ LedgerStep
  BY MoveRests, QuietSteps DEF LedgerInv
<1>2. SentInv'
  BY SentIsOver, SentRests DEF LedgerInv, Quiet
<1>. QED
  BY <1>1, <1>2

LEMMA LedgerStepKeeps == LedgerInv /\ [Next]_vars => LedgerInv' /\ LedgerStep
<1> SUFFICES ASSUME LedgerInv, [Next]_vars PROVE LedgerInv' /\ LedgerStep
  OBVIOUS
<1>1. RepairInv'
  BY RepairStep DEF LedgerInv
<1>2. SUFFICES MoveInv' /\ SentInv' /\ LedgerStep
  BY <1>1 DEF LedgerInv
<1>3. CASE ReplaySteps
  BY <1>1, <1>3, ReplayStepMoves
<1>4. CASE TaskSteps
  BY <1>1, <1>4, TaskStepMoves
<1>5. CASE JournalWrites
  BY <1>5, LandingMoves
<1>6. CASE \E r \in Records : BrokerDecides(r)
  BY <1>6, BrokerMoves
<1>7. ASSUME NEW i \in Ids, PlanSteps(i) \/ TargetCloses(i) \/ Expire(i)
      PROVE  MoveInv' /\ SentInv' /\ LedgerStep
  <2>1. UNCHANGED <<op, sends, broker>> /\ UNCHANGED journalVars
    BY <1>7 DEF PlanSteps, OpenFails, OpenSucceeds, CheckFails, Publish, StartEviction, PublishAfterEviction,
                EvictionFails, EndDiscard, TargetCloses, Expire, brokerVars
  <2>. QED
    BY <2>1, OtherStepMoves, SMTT(20) DEF Quiet, journalVars
<1>8. CASE InvalidationSteps
  <2>1. UNCHANGED <<op, sends, broker>> /\ UNCHANGED journalVars
    BY <1>8 DEF InvalidationSteps, ReplayDrained, ReaderDrained, InvalidationEnds, recRest, brokerVars
  <2>. QED
    BY <2>1, OtherStepMoves DEF Quiet, journalVars
<1>9. CASE Environment
  <2>1. CASE Crash
    <3>1. disk' = disk /\ writing' = "idle" /\ op'.step = "idle" /\ UNCHANGED <<sends, broker>>
      BY <2>1 DEF Crash, ReopenJournal, NoOp, brokerVars
    <3>. QED
      BY <3>1, OtherStepMoves DEF Quiet
  <2>2. ASSUME NEW i \in Ids, Apply(i)
        PROVE  MoveInv' /\ SentInv' /\ LedgerStep
    <3>1. UNCHANGED journalVars /\ op'.step = "begin" /\ UNCHANGED <<sends, broker>>
      BY <2>2 DEF Apply, NoOp, brokerVars
    <3>. QED
      BY <3>1, OtherStepMoves DEF Quiet, journalVars
  <2>3. CASE ~Crash /\ ~\E i \in Ids : Apply(i)
    <3>1. UNCHANGED <<op, sends, broker>> /\ UNCHANGED journalVars
      BY <1>9, <2>3 DEF Environment, Review, Cancel, LoseAuthority, Recover, Invalidate, recRest, brokerVars
    <3>. QED
      BY <3>1, OtherStepMoves DEF Quiet, journalVars
  <2>. QED
    BY <2>1, <2>2, <2>3
<1>10. CASE UNCHANGED vars
  <2>1. UNCHANGED <<op, sends, broker>> /\ UNCHANGED journalVars
    BY <1>10 DEF vars, journalVars
  <2>. QED
    BY <2>1, OtherStepMoves DEF Quiet, journalVars
<1>. QED
  BY <1>3, <1>4, <1>5, <1>6, <1>7, <1>8, <1>9, <1>10 DEF Next

LEMMA LedgerBegins == Init => LedgerInv /\ Ledger!Init
<1> SUFFICES ASSUME Init PROVE LedgerInv /\ Ledger!Init
  OBVIOUS
<1>1. RepairInv
  BY RepairInit
<1>2. MoveInv /\ SentInv
  BY DEF Init, JournalInit, MoveInv, SentInv, NoOp
<1>3. disk = [i \in Ids |-> NoJob] /\ disk \in [Ids -> Job] /\ InTurn(disk)
  BY <1>1 DEF Init, JournalInit, RepairInv, TypeOK, JournalTyped, HistoryInv, Shape
<1>4. \A i \in Ids : disk[i].status = "absent"
  BY <1>3 DEF NoJob
<1>5. \A r \in Records : EntryOf(disk)[r] = "unsent"
  <2> SUFFICES ASSUME NEW r \in Records PROVE EntryOf(disk)[r] = "unsent"
    OBVIOUS
  <2>1. r[1] \in Ids
    BY DEF Records
  <2>2. ~IsForgotten(disk, r) /\ \A i \in Ids : ~Covers(disk, i, r)
    BY <1>4, <2>1 DEF IsForgotten, Covers
  <2>. QED
    BY <1>3, <2>2, EntryFacts
<1>6. Entry = [r \in Records |-> "unsent"]
  <2>1. EntryOf(disk) = [r \in Records |-> EntryOf(disk)[r]]
    BY DEF EntryOf
  <2>. QED
    BY <1>5, <2>1 DEF Entry
<1>7. Ledger!Init
  BY <1>6 DEF Init, Ledger!Init, Ledger!Records, Records
<1>. QED
  BY <1>1, <1>2, <1>7 DEF LedgerInv

\* For any number of records, continuations, crashes and failed commits, every
\* step of the replays, the recovery and the broker is a step of the ledger on
\* the disk or none: no record is sent twice or unannounced, what is entered is
\* what the broker said, and nothing uncertain is forgotten.
THEOREM RepairImplementsLedger == Spec => ImplementsLedger
<1>1. LedgerStep => [Ledger!Next]_<<Entry, sends, broker>>
  BY DEF LedgerStep, LedgerVars
<1>. QED
  BY <1>1, LedgerBegins, LedgerStepKeeps, PTL DEF Spec, ImplementsLedger, Ledger!Spec
=============================================================================
