----------------------- MODULE KafkaRepairProperties -----------------------
(***************************************************************************)
(* What KafkaRepair promises.                                              *)
(***************************************************************************)
EXTENDS KafkaRepair

JournalTyped ==
    /\ {disk, next} \subseteq [Ids -> Job]
    /\ writing \in {"idle", "started", "landed"}
    /\ fenced \in BOOLEAN

PlanTyped == plan \in [Ids -> [phase : {"unused", "opening", "checking", "evicting", "discarding",
                                        "published", "gone"},
                               valid : BOOLEAN,
                               target : {"none", "open", "closing", "closed", "failed"},
                               applied : BOOLEAN, victim : Ids \union {None},
                               parent : Ids \union {None}, snapshot : Job]]
OpTyped == op \in [step : {"idle", "begin", "beginning", "checking", "intending", "sent", "receipt",
                           "recording", "clear", "clearing", "closing", "finishing"},
                   id : Ids \union {None}, index : Nat, started : BOOLEAN, complete : BOOLEAN,
                   outcome : Outcomes]
TaskTyped == rec \in [step : {"idle", "loading", "reviewing", "observing", "recording", "committing"},
                      kind : {"continue", "reconcile", "archive"}, job : Ids \union {None},
                      plan : Ids \union {None}, snapshot : Job]

\* A replay has a plan, and a task has a job.
WorkTyped ==
    /\ op.step # "idle" => op.id \in Ids
    /\ rec.step # "idle" => rec.job \in Ids
    /\ \A i \in Ids : plan[i].parent = None => plan[i].snapshot = NoJob

TypeOK ==
    /\ JournalTyped /\ PlanTyped /\ plans \in Seq(Ids) /\ OpTyped /\ TaskTyped /\ WorkTyped
    /\ sends \in [Records -> Nat]
    /\ broker \in [Records -> {"none", "acknowledged", "rejected"}]
    /\ bounds \in [plans : Nat, crashes : Nat,
                   calls : SUBSET {"continue", "reconcile", "archive", "invalidate"}]

\* What a continuation may send was never sent: of every job that has no
\* continuation yet, the records beyond nextIndex were never dispatched, in
\* this life of the host or before ("the frozen suffix never dispatched").
UnsentIsUnsent ==
    \A i \in Ids :
        Stored(disk, i) /\ disk[i].continuation = None =>
            \A k \in NextIndex(disk[i]) .. Total : sends[<<disk[i].root, k>>] = 0

\* While a replay sends, its destination stays open: no eviction, expiry,
\* cancellation or invalidation closes the connection under it.
DestinationOutlivesReplay ==
    op.step \notin {"idle", "closing", "finishing"} => plan[op.id].target = "open"

\* A replay and a recovery task never use the history at the same time.
OneHistoryUser == op.step = "idle" \/ rec.step = "idle"

\* What a history says of a record: by the job whose turn it was.
Says(document, i, k) ==
    LET job == document[i]
        n == k - job.first + 1
    IN IF n \in DOMAIN job.outcomes /\ job.outcomes[n] # "unknown" THEN job.outcomes[n]
       ELSE "uncertain"

Covers(document, i, r) ==
    /\ document[i].status # "absent" /\ document[i].root = r[1]
    /\ document[i].first <= r[2] /\ r[2] < NextIndex(document[i])

IsForgotten(document, r) == document[r[1]].status = "archived" /\ document[r[1]].root = r[1]

EntryOf(document) ==
    [r \in Records |->
        IF IsForgotten(document, r) THEN "forgotten"
        ELSE IF \E i \in Ids : Covers(document, i, r)
             THEN Says(document, CHOOSE i \in Ids : Covers(document, i, r), r[2])
             ELSE "unsent"]

Entry == EntryOf(disk)

\* The history on the disk implements the ledger, over every crash, failed
\* commit, continuation and archive: no record is sent twice or unannounced.
Ledger == INSTANCE RepairLedger WITH Roots <- Ids, entry <- Entry

ImplementsLedger == Ledger!Spec

\* "Temporary connections close on finish, cancel, expiry, source change and
\* application shutdown": a settled invalidation leaves no destination open.
InvalidationReleases ==
    [][(InvalidationSucceeds /\ inval'.replay = "idle") =>
          \A i \in Ids : plan[i].target # "open" \/ plan[i].valid]_vars

\* Every destination that was opened is given up, whoever forgot it.
DestinationsAreReleased ==
    \A i \in Ids : plan[i].target = "open" ~> plan[i].target # "open"

\* The replay settles, and so does an invalidation that waits for the reviews,
\* the replay, the observation and the recovery task at once.
WorkSettles ==
    /\ (op.step # "idle") ~> (op.step = "idle")
    /\ (inval.replay # "idle") ~> (inval.replay = "idle")
=============================================================================
