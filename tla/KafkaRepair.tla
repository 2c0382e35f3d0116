---------------------------- MODULE KafkaRepair ----------------------------
(***************************************************************************)
(* KafkaRepair: reviewed replays of records into another cluster, their    *)
(* repair history and the recovery from it, over crashes of the host.      *)
(*                                                                         *)
(* A review opens a connection of its own to a saved destination and holds *)
(* it in a plan; applying the plan sends its records one by one, each      *)
(* between an intent and a receipt in the history; recovery continues what *)
(* an attempt never sent, records observations and archives. Every await   *)
(* of the code separates two actions. What answers it, the broker or the   *)
(* destination's client, answers or fails at will.                         *)
(***************************************************************************)
EXTENDS KafkaRepairJournal, SequencesExt

CONSTANTS
    MaxPlans,    \* the plans that are retained
    MaxReviews,  \* the reviews that may run at once
    Bounds       \* bound: what a behavior may hold, each a record: how many plans and
                 \* crashes, and what is called besides reviews, replays and cancellation

ASSUME RepairAssumption ==
    /\ {MaxPlans, MaxReviews} \subseteq Nat \ {0}
    /\ Bounds \subseteq [plans : Nat, crashes : Nat,
                       calls : SUBSET {"continue", "reconcile", "archive", "invalidate"}]

VARIABLES
    plan,     \* RecordReplayService: its reviews and plans
    plans,    \* the ids of the retained plans, oldest first
    op,       \* the replay that is being applied
    rec,      \* RepairRecoveryService: its pending task
    reader,   \* RepairReconciliationReader: its owner
    inval,    \* the invalidation that is draining both
    sends,    \* how often each record was dispatched
    broker,   \* what the broker did with each record
    bounds    \* what may still come

vars == <<disk, next, writing, fenced, plan, plans, op, rec, reader, inval, sends, broker, bounds>>
replayVars == <<plan, plans, op>>
recoveryVars == <<rec, reader>>
brokerVars == <<sends, broker>>

Records == Ids \X Indexes

NoPlan == [phase |-> "unused", valid |-> FALSE, target |-> "none", applied |-> FALSE,
           victim |-> None, parent |-> None, snapshot |-> NoJob]
NoOp == [step |-> "idle", id |-> None, index |-> 0, started |-> FALSE, complete |-> FALSE,
         outcome |-> "unknown"]
NoTask == [step |-> "idle", kind |-> "archive", job |-> None, plan |-> None, snapshot |-> NoJob]
NoReader == [step |-> "free", debt |-> "none"]
NoInval == [replay |-> "idle", reader |-> "done", reviews |-> {}, plans |-> {}]

Init ==
    /\ JournalInit
    /\ plan = [i \in Ids |-> NoPlan]
    /\ plans = <<>>
    /\ op = NoOp
    /\ rec = NoTask
    /\ reader = NoReader
    /\ inval = NoInval
    /\ sends = [r \in Records |-> 0]
    /\ broker = [r \in Records |-> "none"]
    /\ bounds \in Bounds

\* this.reviews and this.pendingReviews
Reviews == {i \in Ids : plan[i].phase \in {"opening", "checking", "evicting"}}
PendingReviews == Reviews \union {i \in Ids : plan[i].phase = "discarding"}

\* Mutants: a failed close does not settle; recovery does not ask for the replay;
\* a discarded review keeps its destination; a cancelled replay loses it.
IsReleasedCleanly(i) == plan[i].target = "closed"

IsReleased(i) == plan[i].target \in {"closed", "failed"}
CleanupUnconfirmed == \E i \in Ids : plan[i].target = "failed"

ReplayInvalidating == inval.replay = "draining"
RecoveryInvalidating == inval.replay # "idle"
\* Its closing flag stands only while the recovery is invalidating.
ReaderAvailable == reader.step = "free"

RecoveryAvailableEarly ==
    /\ ~RecoveryInvalidating /\ rec.step = "idle"
    /\ ~CleanupUnconfirmed /\ Reviews = {}
    /\ ReaderAvailable

RecoveryAvailable ==
    /\ ~RecoveryInvalidating /\ rec.step = "idle"
    /\ ~CleanupUnconfirmed /\ op.step = "idle" /\ Reviews = {}
    /\ ReaderAvailable

\* The facade asks it before a replay is reviewed or applied.
ReplayAvailable == ~RecoveryInvalidating /\ rec.step = "idle" /\ ReaderAvailable

\* The journal's active jobs.
Active == IF op.started THEN {op.id} ELSE {}

\* Record k of a job is record r of the first replay of its chain.
Record(id, index) == <<disk[id].root, disk[id].first + index>>

\* close(plan), with the memoized promise. NB: it clears the plan's timer too.
Closing(p) == IF p.target = "open" THEN [p EXCEPT !.target = "closing"] ELSE p
Revoked(p) == [p EXCEPT !.valid = FALSE]
Gone(p) == [NoPlan EXCEPT !.phase = "gone", !.target = p.target]

---------------------------------------------------------------------------
\* review: admitted, it opens the destination. A continuation brings its parent.
StartReview(i, parent, snapshot) ==
    /\ ~CleanupUnconfirmed /\ ~ReplayInvalidating
    /\ op.step = "idle" /\ Cardinality(Reviews) < MaxReviews
    /\ plan[i].phase = "unused"
    /\ Cardinality({j \in Ids : plan[j].phase # "unused"}) < bounds.plans
    /\ \A j \in Ids : j < i => plan[j].phase # "unused"
    /\ plan' = [plan EXCEPT ![i] = [NoPlan EXCEPT
                  !.phase = "opening", !.valid = TRUE, !.parent = parent, !.snapshot = snapshot]]

Review(i) ==
    /\ ReplayAvailable
    /\ StartReview(i, None, NoJob)
    /\ UNCHANGED <<journalVars, plans, op, recoveryVars, inval, brokerVars, bounds>>

\* The task of a continuation ends with its review.
TaskAfter(i) == IF rec.step = "reviewing" /\ rec.plan = i THEN NoTask ELSE rec

\* openReviewed closes what it opened too late, and says so if it could not.
OpenFails(i) ==
    /\ plan[i].phase = "opening"
    /\ \E target \in {"none", "failed"} :
          plan' = [plan EXCEPT ![i] = Gone([@ EXCEPT !.target = target])]
    /\ rec' = TaskAfter(i)
    /\ UNCHANGED <<journalVars, plans, op, reader, inval, brokerVars, bounds>>

OpenSucceeds(i) ==
    /\ plan[i].phase = "opening" /\ plan[i].valid
    /\ plan' = [plan EXCEPT ![i].phase = "checking", ![i].target = "open"]
    /\ UNCHANGED <<journalVars, plans, op, recoveryVars, inval, brokerVars, bounds>>

DiscardOpen(p) == [Revoked(p) EXCEPT !.phase = "gone"]

Discard(p) == Closing([Revoked(p) EXCEPT !.phase = "discarding"])

\* An encoding, a broker's answer or the authority was not what the review needs.
CheckFails(i) ==
    /\ plan[i].phase = "checking"
    /\ plan' = [plan EXCEPT ![i] = Discard(@)]
    /\ UNCHANGED <<journalVars, plans, op, recoveryVars, inval, brokerVars, bounds>>

Publish(i) ==
    /\ plan[i].phase = "checking" /\ plan[i].valid
    /\ Len(plans) < MaxPlans
    /\ plan' = [plan EXCEPT ![i].phase = "published"]
    /\ plans' = Append(plans, i)
    /\ rec' = TaskAfter(i)
    /\ UNCHANGED <<journalVars, op, reader, inval, brokerVars, bounds>>

\* The oldest plan makes room: await this.close(oldest).
StartEviction(i) ==
    /\ plan[i].phase = "checking" /\ plan[i].valid
    /\ Len(plans) >= MaxPlans
    /\ LET oldest == Head(plans) IN
       plan' = [[plan EXCEPT ![oldest] = Closing(@)] EXCEPT
                  ![i].phase = "evicting", ![i].victim = oldest]
    /\ UNCHANGED <<journalVars, plans, op, recoveryVars, inval, brokerVars, bounds>>

\* What was revoked during the await is published all the same. The other
\* review may have waited for the same plan and deleted it.
PublishAfterEviction(i) ==
    /\ plan[i].phase = "evicting"
    /\ plan[plan[i].victim].target = "closed"
    /\ plan' = [[plan EXCEPT ![plan[i].victim] = Gone(@)] EXCEPT
                  ![i].phase = "published", ![i].victim = None]
    /\ plans' = Append(IF plans # <<>> /\ Head(plans) = plan[i].victim THEN Tail(plans) ELSE plans, i)
    /\ rec' = TaskAfter(i)
    /\ UNCHANGED <<journalVars, op, reader, inval, brokerVars, bounds>>

EvictionFails(i) ==
    /\ plan[i].phase = "evicting"
    /\ plan[plan[i].victim].target = "failed"
    /\ plan' = [plan EXCEPT ![i] = Discard(@)]
    /\ UNCHANGED <<journalVars, plans, op, recoveryVars, inval, brokerVars, bounds>>

EndDiscard(i) ==
    /\ plan[i].phase = "discarding" /\ IsReleased(i)
    /\ plan' = [plan EXCEPT ![i] = Gone(@)]
    /\ rec' = TaskAfter(i)
    /\ UNCHANGED <<journalVars, plans, op, reader, inval, brokerVars, bounds>>

\* closeTarget
TargetCloses(i) ==
    /\ plan[i].target = "closing"
    /\ \E target \in {"closed", "failed"} : plan' = [plan EXCEPT ![i].target = target]
    /\ UNCHANGED <<journalVars, plans, op, recoveryVars, inval, brokerVars, bounds>>

\* The plan's timer, two minutes after it was published.
Expire(i) ==
    /\ plan[i].phase = "published" /\ ~plan[i].applied /\ plan[i].target = "open"
    /\ plan' = [plan EXCEPT ![i] = Closing(Revoked(@))]
    /\ UNCHANGED <<journalVars, plans, op, recoveryVars, inval, brokerVars, bounds>>

CancelledAtOnce(p) == Closing(Revoked(p))

\* An applied plan closes its destination itself.
Cancelled(p) == IF p.applied THEN Revoked(p) ELSE Closing(Revoked(p))

Cancel(i) ==
    /\ plan[i].phase = "published" /\ plan[i].valid
    /\ plan' = [plan EXCEPT ![i] = Cancelled(@)]
    /\ UNCHANGED <<journalVars, plans, op, recoveryVars, inval, brokerVars, bounds>>

\* The source connection or the destination's profile changes.
LoseAuthority(i) ==
    /\ plan[i].valid
    /\ plan' = [plan EXCEPT ![i] = Revoked(@)]
    /\ UNCHANGED <<journalVars, plans, op, recoveryVars, inval, brokerVars, bounds>>

---------------------------------------------------------------------------
\* apply: the plan's operation is memoized.
Apply(i) ==
    /\ ReplayAvailable
    /\ plan[i].phase = "published" /\ ~plan[i].applied /\ plan[i].valid
    /\ ~CleanupUnconfirmed /\ ~ReplayInvalidating
    /\ op.step = "idle" /\ Reviews = {}
    /\ plan' = [plan EXCEPT ![i].applied = TRUE]
    /\ op' = [NoOp EXCEPT !.step = "begin", !.id = i]
    /\ UNCHANGED <<journalVars, plans, recoveryVars, inval, brokerVars, bounds>>

opRest == <<plans, recoveryVars, inval, broker, bounds>>

\* The end of the batch, however it came: the destination is closed, and nobody
\* asks for the plan's authority any more.
StopWith(complete) ==
    /\ op' = [NoOp EXCEPT !.step = "closing", !.id = op.id, !.started = op.started,
                          !.complete = complete]
    /\ plan' = [plan EXCEPT ![op.id] = Closing(Revoked(@))]

Stop(complete) == StopWith(complete) /\ UNCHANGED <<journalVars, sends>>

BeginJob ==
    /\ op.step = "begin"
    /\ LET p == plan[op.id] IN Begin(op.id, p.parent, p.snapshot, Active)
    /\ op' = [op EXCEPT !.step = "beginning"]
    /\ UNCHANGED <<plan, sends, opRest>>

JobBegun ==
    /\ op.step = "beginning" /\ Confirm
    /\ op' = [op EXCEPT !.step = "checking", !.started = TRUE]
    /\ UNCHANGED <<plan, sends, opRest>>

\* The deadline, the expiry, a revocation or the check of the destination
\* ends the batch between two records.
BatchEnds == op.step = "checking" /\ Stop(FALSE) /\ UNCHANGED opRest

\* Any journal call of the replay may be refused or fail to load.
JournalRefuses ==
    /\ op.step \in {"begin", "clear", "receipt"}
    /\ Stop(FALSE)
    /\ UNCHANGED opRest

IntendRecord ==
    /\ op.step = "checking" /\ plan[op.id].valid
    /\ Intent(op.id, op.index)
    /\ op' = [op EXCEPT !.step = "intending"]
    /\ UNCHANGED <<plan, sends, opRest>>

\* Mutant: a failed commit of the intent does not hold the record back.
DispatchAnyway ==
    /\ op.step = "intending" /\ (Confirm \/ Fail)
    /\ plan[op.id].valid
    /\ sends' = [sends EXCEPT ![Record(op.id, op.index)] = @ + 1]
    /\ op' = [op EXCEPT !.step = "sent"]
    /\ UNCHANGED <<plan, opRest>>

\* tryDispatchWrite follows the confirmed intent without another await.
Dispatch ==
    /\ op.step = "intending" /\ Confirm
    /\ plan[op.id].valid
    /\ sends' = [sends EXCEPT ![Record(op.id, op.index)] = @ + 1]
    /\ op' = [op EXCEPT !.step = "sent"]
    /\ UNCHANGED <<plan, opRest>>

\* Too late: the intent is withdrawn.
HoldBack ==
    /\ op.step = "intending" /\ Confirm
    /\ op' = [op EXCEPT !.step = "clear"]
    /\ UNCHANGED <<plan, sends, opRest>>

WithdrawIntent ==
    /\ op.step = "clear"
    /\ Withdraw(op.id, op.index)
    /\ op' = [op EXCEPT !.step = "clearing"]
    /\ UNCHANGED <<plan, sends, opRest>>

\* The write settles; an answer that never came is unknown.
WriteSettles ==
    /\ op.step = "sent"
    /\ \E outcome \in {broker[Record(op.id, op.index)], "unknown"} \ {"none"} :
          op' = [op EXCEPT !.step = "receipt", !.outcome = outcome]
    /\ UNCHANGED <<plan, journalVars, sends, opRest>>

RecordReceipt ==
    /\ op.step = "receipt"
    /\ Receipt(op.id, op.index, op.outcome)
    /\ op' = [op EXCEPT !.step = "recording"]
    /\ UNCHANGED <<plan, sends, opRest>>

\* Of the records that were reviewed.
IsLast == NextIndex(plan[op.id].snapshot) + op.index = Total

\* Only an acknowledgement lets the next record go.
RecordSettled ==
    /\ op.step = "recording" /\ Confirm
    /\ op.outcome = "acknowledged" /\ ~IsLast
    /\ op' = [op EXCEPT !.step = "checking", !.index = @ + 1, !.outcome = "unknown"]
    /\ UNCHANGED <<plan, sends, opRest>>

BatchSettled ==
    /\ Confirm
    /\ \/ /\ op.step = "recording"
          /\ op.outcome = "acknowledged" => IsLast
          /\ StopWith(op.outcome = "acknowledged")
       \/ /\ op.step = "clearing"
          /\ StopWith(FALSE)
    /\ UNCHANGED <<sends, opRest>>

\* A failed commit ends the batch before anything more is sent.
CommitFails ==
    /\ op.step \in {"beginning", "intending", "clearing", "recording"} /\ Fail
    /\ StopWith(FALSE)
    /\ UNCHANGED <<sends, opRest>>

FinishJob ==
    /\ op.step = "closing" /\ IsReleased(op.id) /\ op.started
    /\ Finish(op.id, op.complete)
    /\ op' = [op EXCEPT !.step = "finishing"]
    /\ UNCHANGED <<plan, sends, opRest>>

\* active ends with the job finished, refused or uncertain.
EndReplay ==
    /\ \/ op.step = "finishing" /\ (Confirm \/ Fail)
       \/ op.step = "closing" /\ IsReleased(op.id) /\ UNCHANGED journalVars
    /\ op' = NoOp
    /\ UNCHANGED <<plan, sends, opRest>>

---------------------------------------------------------------------------
recRest == <<plans, op, brokerVars, bounds>>

\* run: one task at a time, and none beside a replay or an owned cleanup.
Recover(kind, id) ==
    /\ RecoveryAvailable
    /\ Stored(disk, id)
    /\ rec' = [NoTask EXCEPT !.step = "loading", !.kind = kind, !.job = id]
    /\ UNCHANGED <<journalVars, plan, reader, inval, recRest>>

\* The history could not be read, or not be used, or the authority was revoked.
TaskRefused ==
    /\ rec.step \in {"loading", "recording"}
    /\ rec' = NoTask
    /\ UNCHANGED <<journalVars, plan, reader, inval, recRest>>

\* review: the state of the parent is captured with the review.
ReviewContinuation(i) ==
    /\ rec.step = "loading" /\ rec.kind = "continue"
    /\ ~fenced /\ ~RecoveryInvalidating
    /\ MayContinue(rec.job, Active)
    /\ StartReview(i, rec.job, disk[rec.job])
    /\ rec' = [rec EXCEPT !.step = "reviewing", !.plan = i]
    /\ UNCHANGED <<journalVars, reader, inval, recRest>>

ArchiveChain ==
    /\ rec.step = "loading" /\ rec.kind = "archive"
    /\ Archive(rec.job, Active)
    /\ rec' = [rec EXCEPT !.step = "committing"]
    /\ UNCHANGED <<plan, reader, inval, recRest>>

\* reconcile: the reader observes the destination for a captured job.
Observe ==
    /\ rec.step = "loading" /\ rec.kind = "reconcile"
    /\ ~fenced /\ ~RecoveryInvalidating /\ ReaderAvailable
    /\ rec' = [rec EXCEPT !.step = "observing", !.snapshot = disk[rec.job]]
    /\ reader' = [NoReader EXCEPT !.step = "busy"]
    /\ UNCHANGED <<journalVars, plan, inval, recRest>>

\* The destination could not be opened and given back, the reader not be
\* stopped, or the destination not be closed after it: the owner stays with
\* its debt. The finding is recorded in either case.
ObservationEnds ==
    /\ rec.step = "observing"
    /\ reader' \in {NoReader} \union [step : {"owing"}, debt : {"opening", "reader", "target"}]
    /\ rec' = [rec EXCEPT !.step = "recording"]
    /\ UNCHANGED <<journalVars, plan, inval, recRest>>

RecordObservation ==
    /\ rec.step = "recording"
    /\ RecordFinding(rec.job, rec.snapshot, Active)
    /\ rec' = [rec EXCEPT !.step = "committing"]
    /\ UNCHANGED <<plan, reader, inval, recRest>>

TaskCommits ==
    /\ rec.step = "committing" /\ (Confirm \/ Fail)
    /\ rec' = NoTask
    /\ UNCHANGED <<plan, reader, inval, recRest>>

---------------------------------------------------------------------------
\* invalidate: reviews and plans are revoked at once, and waited for.
Invalidate ==
    /\ inval.replay = "idle"
    /\ inval' = [replay |-> "draining", reader |-> IF reader.step = "free" THEN "done" ELSE "waiting",
                 reviews |-> PendingReviews, plans |-> Range(plans)]
    /\ plan' = [i \in Ids |-> IF i \in Reviews THEN Revoked(plan[i])
                              ELSE IF i \in Range(plans) THEN Cancelled(plan[i])
                              ELSE plan[i]]
    /\ UNCHANGED <<journalVars, recoveryVars, recRest>>

ReplayDrained ==
    /\ inval.replay = "draining"
    /\ inval.reviews \intersect PendingReviews = {}
    /\ \A i \in inval.plans : IsReleased(i) /\ (op.id = i => op.step = "idle")
    /\ inval' = [inval EXCEPT !.replay = IF CleanupUnconfirmed THEN "failed" ELSE "done"]
    /\ UNCHANGED <<journalVars, plan, recoveryVars, recRest>>

\* retryCleanup, then target.close(), whose first failure is memoized.
ReaderDrained ==
    /\ inval.replay # "idle" /\ inval.reader = "waiting"
    /\ \/ /\ \/ reader.step = "free"
             \/ reader.step = "owing" /\ reader.debt = "reader"
          /\ reader' = NoReader
          /\ inval' = [inval EXCEPT !.reader = "done"]
       \/ /\ reader.step = "owing"
          /\ \/ reader' = reader
             \/ reader.debt = "reader" /\ reader' = [reader EXCEPT !.debt = "target"]
          /\ inval' = [inval EXCEPT !.reader = "failed"]
    /\ UNCHANGED <<journalVars, plan, rec, recRest>>

InvalidationSucceeds == inval.replay = "done" /\ inval.reader = "done" /\ rec.step = "idle"

InvalidationEnds ==
    /\ inval.replay \in {"done", "failed"} /\ inval.reader \in {"done", "failed"}
    /\ rec.step = "idle"
    /\ inval' = NoInval
    /\ UNCHANGED <<journalVars, plan, recoveryVars, recRest>>

---------------------------------------------------------------------------
\* The broker stores a record or refuses it. What it does after the answer was
\* lost, or the host with it, nobody sees.
BrokerDecides(r) ==
    /\ op.step = "sent" /\ r = Record(op.id, op.index)
    /\ broker[r] = "none"
    /\ \E verdict \in {"acknowledged", "rejected"} : broker' = [broker EXCEPT ![r] = verdict]
    /\ UNCHANGED <<journalVars, replayVars, recoveryVars, inval, sends, bounds>>

JournalWrites ==
    /\ WriteLands
    /\ UNCHANGED <<replayVars, recoveryVars, inval, brokerVars, bounds>>

\* The host stops at any moment and is started again: the jobs are all it finds.
Crash ==
    /\ bounds.crashes > 0
    /\ bounds' = [bounds EXCEPT !.crashes = @ - 1]
    /\ ReopenJournal
    /\ plan' = [i \in Ids |-> IF plan[i].phase = "unused" THEN NoPlan
                              ELSE [NoPlan EXCEPT !.phase = "gone"]]
    /\ plans' = <<>>
    /\ op' = NoOp /\ rec' = NoTask /\ reader' = NoReader /\ inval' = NoInval
    /\ UNCHANGED brokerVars

---------------------------------------------------------------------------
PlanSteps(i) ==
    \/ OpenFails(i) \/ OpenSucceeds(i) \/ CheckFails(i) \/ Publish(i) \/ StartEviction(i)
    \/ PublishAfterEviction(i) \/ EvictionFails(i) \/ EndDiscard(i)

ReplaySteps ==
    \/ BeginJob \/ JobBegun \/ BatchEnds \/ JournalRefuses \/ IntendRecord \/ Dispatch
    \/ HoldBack \/ WithdrawIntent \/ WriteSettles \/ RecordReceipt \/ RecordSettled
    \/ BatchSettled \/ CommitFails \/ FinishJob \/ EndReplay

TaskSteps ==
    \/ TaskRefused \/ ArchiveChain \/ Observe \/ ObservationEnds \/ RecordObservation \/ TaskCommits
    \/ \E i \in Ids : ReviewContinuation(i)

InvalidationSteps == ReplayDrained \/ ReaderDrained \/ InvalidationEnds

Environment ==
    \/ \E i \in Ids : Review(i) \/ Cancel(i) \/ LoseAuthority(i) \/ Apply(i)
    \/ \E i \in Ids, kind \in bounds.calls \ {"invalidate"} : Recover(kind, i)
    \/ "invalidate" \in bounds.calls /\ Invalidate
    \/ Crash

Next ==
    \/ \E i \in Ids : PlanSteps(i) \/ TargetCloses(i) \/ Expire(i)
    \/ ReplaySteps \/ TaskSteps \/ InvalidationSteps \/ JournalWrites
    \/ \E r \in Records : BrokerDecides(r)
    \/ Environment

Spec == Init /\ [][Next]_vars

\* Every await settles: the connection engine, the journal's file and the
\* reader bound theirs by time. The caller, the broker and the crash owe nothing.
FairSpec ==
    /\ Spec
    /\ \A i \in Ids : WF_vars(PlanSteps(i)) /\ WF_vars(TargetCloses(i)) /\ WF_vars(Expire(i))
    /\ WF_vars(ReplaySteps) /\ WF_vars(TaskSteps)
    /\ WF_vars(InvalidationSteps) /\ WF_vars(JournalWrites)
=============================================================================
