------------------------- MODULE KafkaRepairJournal -------------------------
(***************************************************************************)
(* KafkaRepairJournal: the protected repair history of one host. A job is  *)
(* what the host knows of one applied replay; it keeps its reviewed        *)
(* records, of which only the index matters here. A continuation takes     *)
(* over the records that its parent never sent.                            *)
(*                                                                         *)
(* The jobs survive the host, the owner of the history does not. The owner *)
(* changes the history one mutation at a time: it loads the document,      *)
(* changes and validates it, writes it, and reads it back. A failed commit *)
(* may have replaced the document or not, and fences this owner.           *)
(***************************************************************************)
EXTENDS Integers, Sequences, FiniteSets

CONSTANTS
    Ids,          \* the plan ids: a job has the id of its plan
    Total,        \* the records of a first replay
    MaxJobs,      \* REPAIR_JOB_LIMITS: the jobs of a document
    MaxFindings,  \* REPAIR_JOB_LIMITS: the findings of a job
    None          \* a null link

ASSUME JournalAssumption ==
    /\ Ids \subseteq Nat /\ 0 \notin Ids
    /\ Total \in Nat \ {0}
    /\ {MaxJobs, MaxFindings} \subseteq Nat
    /\ None = 0

VARIABLES
    disk,      \* the jobs in the protected document
    next,      \* the document being committed
    writing,   \* "idle", or how far the commit is: "started" or "landed"
    fenced     \* failed: a commit of this owner failed

journalVars == <<disk, next, writing, fenced>>

Indexes == 1 .. Total
Outcomes == {"acknowledged", "rejected", "unknown"}

NoJob == [status |-> "absent", root |-> None, first |-> 1, outcomes |-> <<>>, pending |-> FALSE,
          parent |-> None, continuation |-> None, findings |-> 0]

\* root and first are not stored: they follow from the parents. The revision
\* and the times are left out: they change only with something else.
Job == [status : {"absent", "running", "stopped", "complete", "archived"},
        root : Ids \union {None}, first : Nat, outcomes : Seq(Outcomes), pending : BOOLEAN,
        parent : Ids \union {None}, continuation : Ids \union {None}, findings : Nat]

JournalInit ==
    /\ disk = [i \in Ids |-> NoJob]
    /\ next = disk
    /\ writing = "idle"
    /\ fenced = FALSE

Stored(document, i) == document[i].status \notin {"absent", "archived"}

\* Mutant: an intent whose receipt is missing counts as not sent.
NextWithoutPending(job) == job.first + Len(job.outcomes)

\* nextIndex: the first record that was definitely not sent. It counts from
\* the first record of the first replay of the chain.
NextIndex(job) == job.first + Len(job.outcomes) + (IF job.pending THEN 1 ELSE 0)

\* The links are paired, so a chain is the jobs that descend from its root.
Chain(document, root) == {i \in Ids : Stored(document, i) /\ document[i].root = root}

IsComplete(job) ==
    /\ ~job.pending
    /\ job.first + Len(job.outcomes) = Total + 1
    /\ \A k \in DOMAIN job.outcomes : job.outcomes[k] = "acknowledged"

LinksArePaired(document) ==
    \A i \in Ids : Stored(document, i) =>
        LET job == document[i] IN
        /\ job.parent # None =>
              Stored(document, job.parent) /\ document[job.parent].continuation = i
        /\ job.continuation # None =>
              Stored(document, job.continuation) /\ document[job.continuation].parent = i

\* parseRepairJournalDocument validates what is loaded and what is to be written.
Parses(document) ==
    /\ \A i \in Ids : Stored(document, i) =>
          /\ NextIndex(document[i]) <= Total + 1
          /\ document[i].status = "complete" => IsComplete(document[i])
    /\ LinksArePaired(document)

\* mutate: change the loaded document and start to commit the result. Being
\* refused, or unable to load, changes nothing.
Mutate(document) ==
    /\ ~fenced /\ writing = "idle"
    /\ Parses(document)
    /\ next' = document
    /\ writing' = "started"
    /\ UNCHANGED <<disk, fenced>>

Update(id, job) ==
    /\ Stored(disk, id)
    /\ Mutate([disk EXCEPT ![id] = job])

---------------------------------------------------------------------------
\* The atomic rename replaces the document.
WriteLands ==
    /\ writing = "started"
    /\ writing' = "landed"
    /\ disk' = next
    /\ UNCHANGED <<next, fenced>>

Confirm ==
    /\ writing = "landed"
    /\ writing' = "idle"
    /\ UNCHANGED <<disk, next, fenced>>

Fail ==
    /\ writing \in {"started", "landed"}
    /\ writing' = "idle"
    /\ next' = disk
    /\ fenced' = TRUE
    /\ UNCHANGED disk

\* A restarted host opens the history that it finds.
ReopenJournal ==
    /\ writing' = "idle"
    /\ next' = disk
    /\ fenced' = FALSE
    /\ UNCHANGED disk

---------------------------------------------------------------------------
\* begin(review, continuation): a continuation is bound to the state in which
\* its parent was reviewed, and takes its place in the same commit.
Begin(id, parent, snapshot, active) ==
    LET root == IF parent = None THEN id ELSE snapshot.root
        child == [NoJob EXCEPT !.status = "running", !.root = root, !.first = NextIndex(snapshot),
                               !.parent = parent]
        added == [disk EXCEPT ![id] = child]
    IN
    /\ disk[id].status = "absent"
    /\ Cardinality({i \in Ids : Stored(disk, i)}) < MaxJobs
    /\ parent # None =>
          /\ Stored(disk, parent) /\ parent \notin active
          /\ disk[parent] = snapshot
          /\ snapshot.continuation = None /\ NextIndex(snapshot) <= Total
    /\ Mutate(IF parent = None THEN added ELSE [added EXCEPT ![parent].continuation = id])

\* intent(id, index)
Intent(id, index) ==
    /\ ~disk[id].pending
    /\ index = Len(disk[id].outcomes)
    /\ disk[id].status = "running"
    /\ Update(id, [disk[id] EXCEPT !.pending = TRUE])

\* receipt(id, index, outcome)
Receipt(id, index, outcome) ==
    /\ disk[id].pending /\ index = Len(disk[id].outcomes)
    /\ Update(id, [disk[id] EXCEPT !.pending = FALSE, !.outcomes = Append(@, outcome)])

\* receipt(id, index, undefined): nothing was sent.
Withdraw(id, index) ==
    /\ disk[id].pending /\ index = Len(disk[id].outcomes)
    /\ Update(id, [disk[id] EXCEPT !.pending = FALSE])

\* finish(id, complete)
Finish(id, complete) ==
    Update(id, [disk[id] EXCEPT !.status = IF complete THEN "complete" ELSE "stopped"])

\* recordFinding(snapshot): the job is still as it was observed.
RecordFinding(id, snapshot, active) ==
    /\ id \notin active
    /\ disk[id] = snapshot
    /\ disk[id].findings < MaxFindings
    /\ Update(id, [disk[id] EXCEPT !.findings = @ + 1])

IsUncertain(job) == job.pending \/ \E k \in DOMAIN job.outcomes : job.outcomes[k] = "unknown"

\* archive(root): a chain goes as a whole, and only when nothing in it is
\* active or uncertain.
Archive(root, active) ==
    LET chain == Chain(disk, root) IN
    /\ Stored(disk, root) /\ disk[root].parent = None
    /\ chain \intersect active = {}
    /\ \A i \in chain : ~IsUncertain(disk[i])
    /\ Mutate([i \in Ids |-> IF i \in chain THEN [disk[i] EXCEPT !.status = "archived"]
                             ELSE disk[i]])

\* continuation(id): what of the job may be continued.
MayContinue(id, active) ==
    /\ Stored(disk, id) /\ id \notin active
    /\ disk[id].continuation = None
    /\ NextIndex(disk[id]) <= Total
=============================================================================
