---------------------------- MODULE IngressLane ----------------------------
(***************************************************************************)
(* The fenced Jetstream intake lane with automatic recovery                *)
(* (services/jetstream-ingest).  A lane run acquires a fenced lease in     *)
(* PostgreSQL, tails the provider's live stream and stages every batch     *)
(* into the durable inbox.  When the provider no longer buffers the saved  *)
(* cursor, the run records a gap, opens a fresh tail and, with the first   *)
(* batch of that tail, registers an immutable archive range; a second      *)
(* goroutine of the same run replays such ranges beside the live tail.     *)
(*                                                                         *)
(* Several runs coexist (deployments overlap, a run may outlive its        *)
(* lease), and any of them may crash between two transactions.             *)
(*                                                                         *)
(* Simplifications:                                                        *)
(*  - every sequence number is an event of the lane's collections; the     *)
(*    payload of a sequence in Poison never normalizes;                    *)
(*  - one transaction is one step.  Its fence row is locked FOR SHARE to   *)
(*    the commit and its NOW() is its start, so a transaction that         *)
(*    outlives the expiry moves before it in any order of commits;         *)
(*  - byte counters are reduced to whether the incident limit is reached,  *)
(*    retry and range evidence (etag, counters, timestamps) is left out;   *)
(*  - the admission limits of the Wire inbox are not part of this module.  *)
(***************************************************************************)
EXTENDS Integers, FiniteSets

CONSTANTS
  Owner,        \* lane runs: each run draws a fresh owner id, so none is reused
  NoOwner,      \* the owner of a row nobody has leased
  Bootstrap,    \* BootstrapAfterSeq, or the seam of an earlier checkpoint
  MaxSeq,       \* bound: the provider emits no sequence above it
  MaxJobs,      \* bound: recovery jobs that can be registered
  MaxFaults,    \* bound: disconnects, failed archive attempts, lost leases...
  Poison,       \* sequences whose payload is deterministically unusable
  PoisonMax,    \* poisonMaxRecords
  HasCanary,    \* a replay canary deadline is configured
  HasBudget,    \* the incident byte limit can be reached
  CanRegress,   \* the provider may restart its sequence below its old tip
  DbFaults      \* a statement that hands a job back may fail

ASSUME OwnerAssumption == NoOwner \notin Owner /\ IsFiniteSet(Owner)
ASSUME BoundAssumption ==
  /\ Bootstrap \in Nat /\ MaxSeq \in Nat /\ Bootstrap <= MaxSeq
  /\ MaxJobs \in Nat /\ MaxFaults \in Nat /\ PoisonMax \in Nat
  /\ Poison \subseteq 1..MaxSeq
ASSUME SwitchAssumption == {HasCanary, HasBudget, CanRegress, DbFaults} \subseteq BOOLEAN

VARIABLES
  lease,     \* appview_ingestion_leases: owner, fencing token, still in force
  ckpt,      \* appview_jetstream_checkpoints: last staged sequence, replay state
  ctl,       \* ingestion_recovery_controllers: live cursor, gap, status
  jobs,      \* ingestion_recovery_jobs, in order of creation
  inbox,     \* sequences staged in the durable inbox
  poison,    \* ingestion_poison_records: sequences held as evidence
  phase,     \* per run: idle, held (lease acquired), running, halted, dead
  token,     \* per run: the fencing token it was granted
  cursor,    \* per run: last sequence staged from its live subscription
  lastSeq,   \* per run: Runner.lastSeq, moved once per complete batch
  child,     \* per run: the recovery job it replays and how far
  tip,       \* the provider's newest sequence
  floor,     \* the newest sequence the provider's live buffer has dropped
  due,       \* the canary deadline has passed
  spent,     \* the incident byte limit is reached
  faults     \* faults so far

durable  == <<lease, ckpt, ctl, jobs, inbox, poison>>
memory   == <<phase, token, cursor, lastSeq, child>>
provider == <<tip, floor>>
limits   == <<due, spent>>
vars     == <<durable, memory, provider, limits, faults>>

NoSeq == -1                     \* NULL gap_after_seq; no live subscription
Seqs  == 0..MaxSeq
JobId == 1..MaxJobs
NoJob == 0
NoChild == [job |-> NoJob, pos |-> 0]
Blocked == "blocked_discontinuity"

JobStatus == {"absent", "pending", "replaying", "paused_daily", "paused_budget",
              "expired", Blocked, "complete"}
CtlStatus == {"healthy", "gap_pending", "recovering", "paused_budget",
              "expired", "degraded", Blocked}

AbsentJob == [status |-> "absent", after |-> 0, before |-> 0, last |-> 0,
              owner |-> NoOwner, token |-> 0]

Larger(a, b)  == IF a < b THEN b ELSE a
Smaller(a, b) == IF a < b THEN a ELSE b

Lease      == [owner : Owner \cup {NoOwner}, token : Nat, valid : BOOLEAN]
Checkpoint == [seq : Seqs, state : {"none", "live", "replaying"}]
Controller == [present : BOOLEAN, last : Seqs, gap : Seqs \cup {NoSeq}, status : CtlStatus]
Job        == [status : JobStatus, after : Seqs, before : Seqs, last : Seqs,
               owner : Owner \cup {NoOwner}, token : Nat]
Child      == [job : JobId \cup {NoJob}, pos : Seqs]
Phase      == {"idle", "held", "running", "halted", "dead"}

TypeOK ==
  /\ lease \in Lease
  /\ ckpt \in Checkpoint
  /\ ctl \in Controller
  /\ jobs \in [JobId -> Job]
  /\ inbox \subseteq Seqs
  /\ poison \subseteq Seqs
  /\ phase \in [Owner -> Phase]
  /\ token \in [Owner -> Nat]
  /\ cursor \in [Owner -> Seqs \cup {NoSeq}]
  /\ lastSeq \in [Owner -> Seqs]
  /\ child \in [Owner -> Child]
  /\ tip \in Seqs
  /\ floor \in Seqs
  /\ due \in BOOLEAN
  /\ spent \in BOOLEAN
  /\ faults \in Nat

(***************************************************************************)
(* A generation starts without a checkpoint at its configured seam, or     *)
(* from a checkpoint that was live or still replaying when the lane was    *)
(* switched to automatic recovery.                                         *)
(***************************************************************************)
Init ==
  /\ lease = [owner |-> NoOwner, token |-> 0, valid |-> FALSE]
  /\ ckpt \in [seq : {Bootstrap}, state : {"live", "replaying"}]
              \cup {[seq |-> 0, state |-> "none"]}
  /\ (ckpt.state # "none" => Bootstrap > 0)
  /\ ctl = [present |-> FALSE, last |-> 0, gap |-> NoSeq, status |-> "healthy"]
  /\ jobs = [j \in JobId |-> AbsentJob]
  /\ inbox = {}
  /\ poison = {}
  /\ phase = [p \in Owner |-> "idle"]
  /\ token = [p \in Owner |-> 0]
  /\ cursor = [p \in Owner |-> NoSeq]
  /\ lastSeq = [p \in Owner |-> 0]
  /\ child = [p \in Owner |-> NoChild]
  /\ tip = Bootstrap
  /\ floor = 0
  /\ due = FALSE
  /\ spent = FALSE
  /\ faults = 0

-----------------------------------------------------------------------------
(* The lease. *)

\* The fence every writing transaction checks: the lease row still names this
\* run and its token, is not released and has not expired.
Fenced(p) == lease.owner = p /\ lease.token = token[p] /\ lease.valid

Working(p) == phase[p] = "running" /\ Fenced(p)

\* Runs are bounded by Owner while the supervisor restarts a lane for ever, so
\* a run is only taken away while another one is still to come.
Replaceable(p) == \E q \in Owner \ {p} : phase[q] = "idle"

Fault == faults < MaxFaults /\ faults' = faults + 1

AcquireLease(p) ==
  /\ phase[p] = "idle"
  /\ ~lease.valid
  /\ lease' = [owner |-> p, token |-> lease.token + 1, valid |-> TRUE]
  /\ token' = [token EXCEPT ![p] = lease.token + 1]
  /\ phase' = [phase EXCEPT ![p] = "held"]
  /\ UNCHANGED <<ckpt, ctl, jobs, inbox, poison, cursor, lastSeq, child,
                 provider, limits, faults>>

\* A renewal in time only moves the expiry.
RenewLease(p) ==
  /\ phase[p] \in {"running", "halted"}
  /\ Fenced(p)
  /\ UNCHANGED vars

\* The lease of a dead run times out; that of a live one does when no renewal
\* arrives in time (a stalled process, an unreachable database).
ExpireLease ==
  /\ lease.valid
  /\ \/ phase[lease.owner] = "dead" /\ UNCHANGED faults
     \/ phase[lease.owner] # "dead" /\ Replaceable(lease.owner) /\ Fault
  /\ lease' = [lease EXCEPT !.valid = FALSE]
  /\ UNCHANGED <<ckpt, ctl, jobs, inbox, poison, memory, provider, limits>>

\* The lane ends (shutdown, an error of the runner, a failed renewal): both
\* goroutines are joined, then the run releases the lease if it still names it.
StopLane(p) ==
  /\ phase[p] \in {"held", "running", "halted"}
  /\ IF Fenced(p) THEN Replaceable(p) /\ Fault ELSE UNCHANGED faults
  /\ lease' = IF lease.owner = p /\ lease.token = token[p]
              THEN [lease EXCEPT !.valid = FALSE] ELSE lease
  /\ phase' = [phase EXCEPT ![p] = "dead"]
  /\ cursor' = [cursor EXCEPT ![p] = NoSeq]
  /\ child' = [child EXCEPT ![p] = NoChild]
  /\ lastSeq' = [lastSeq EXCEPT ![p] = 0]
  /\ UNCHANGED <<ckpt, ctl, jobs, inbox, poison, token, provider, limits>>

\* The process is killed: nothing is released, no job is handed back.
Crash(p) ==
  /\ phase[p] \in {"held", "running", "halted"}
  /\ Replaceable(p)
  /\ Fault
  /\ phase' = [phase EXCEPT ![p] = "dead"]
  /\ cursor' = [cursor EXCEPT ![p] = NoSeq]
  /\ child' = [child EXCEPT ![p] = NoChild]
  /\ lastSeq' = [lastSeq EXCEPT ![p] = 0]
  /\ UNCHANGED <<durable, token, provider, limits>>

-----------------------------------------------------------------------------
(* The live tail (runAutomatic). *)

\* Mutant of Least: a NULL argument makes the result NULL.
LeastPropagatesNull(a, b) == IF a = NoSeq \/ b = NoSeq THEN NoSeq ELSE Smaller(a, b)

\* PostgreSQL's LEAST skips NULL arguments.
Least(a, b) == IF a = NoSeq THEN b ELSE IF b = NoSeq THEN a ELSE Smaller(a, b)

\* Mutant of StartGap: a generation without a checkpoint owes nothing.
StartGapOfCheckpoint == IF ckpt.state = "replaying" THEN ckpt.seq ELSE NoSeq

\* What is owed at start: nothing after a live checkpoint, everything after the
\* seam otherwise.
StartGap == CASE ckpt.state = "none" -> Bootstrap
              [] ckpt.state = "replaying" -> ckpt.seq
              [] OTHER -> NoSeq

\* Mutant of StatusAtStart: a restart forgets that the source is blocked.
StatusForgetsBlock == IF StartGap # NoSeq THEN "gap_pending" ELSE "healthy"

StatusAtStart ==
  IF ctl.status # Blocked /\ StartGap # NoSeq THEN "gap_pending" ELSE ctl.status

StartAutomaticRecovery(p) ==
  LET live == Larger(ctl.last, ckpt.seq) IN
  /\ phase[p] = "held"
  /\ Fenced(p)
  /\ ctl' = [present |-> TRUE, last |-> live, gap |-> Least(ctl.gap, StartGap),
             status |-> StatusAtStart]
  /\ lastSeq' = [lastSeq EXCEPT ![p] = live]
  /\ phase' = [phase EXCEPT ![p] = "running"]
  /\ UNCHANGED <<lease, ckpt, jobs, inbox, poison, token, cursor, child,
                 provider, limits, faults>>

\* The saved cursor, unless there is none or a gap makes a fresh tail due.
Resumes    == ctl.gap = NoSeq /\ ctl.last # 0
LiveCursor == IF Resumes THEN ctl.last ELSE tip

\* runOnce opens the stream from the controller row it has just read.
Subscribe(p) ==
  /\ phase[p] = "running"
  /\ cursor[p] = NoSeq
  /\ ctl.status # Blocked
  /\ floor <= LiveCursor /\ LiveCursor <= tip
  /\ cursor' = [cursor EXCEPT ![p] = LiveCursor]
  /\ UNCHANGED <<durable, phase, token, lastSeq, child, provider, limits, faults>>

\* A blocked controller stops intake; the run keeps its lease and waits.
HaltOnDiscontinuity(p) ==
  /\ phase[p] = "running"
  /\ cursor[p] = NoSeq
  /\ ctl.status = Blocked
  /\ phase' = [phase EXCEPT ![p] = "halted"]
  /\ child' = [child EXCEPT ![p] = NoChild]
  /\ UNCHANGED <<durable, token, cursor, lastSeq, provider, limits, faults>>

Disconnect(p) ==
  /\ phase[p] = "running"
  /\ cursor[p] # NoSeq
  /\ Fault
  /\ cursor' = [cursor EXCEPT ![p] = NoSeq]
  /\ UNCHANGED <<durable, phase, token, lastSeq, child, provider, limits>>

\* stageBatchTransaction: good rows to the inbox, poison rows to the evidence
\* table while it has room; a controller with new evidence is degraded.
StageRows(from, to) ==
  LET rows == from + 1..to
      bad  == rows \cap Poison IN
  /\ (bad # {} => Cardinality(poison \cup bad) <= PoisonMax)
  /\ inbox' = inbox \cup (rows \ Poison)
  /\ poison' = poison \cup bad

StatusAfterRows(status, from, to) ==
  IF (from + 1..to) \cap Poison # {} THEN "degraded" ELSE status

\* Mutants of SeamAccepts (no check against the live cursor) and SeamAfter (the
\* range starts after the boundary; 0 is decremented).
SeamAcceptsAnyBatch(to) == ctl.status # Blocked /\ ctl.gap < to
SeamAfterExclusive == ctl.gap + 1
SeamAfterUnguarded == ctl.gap - 1

\* stageLiveSeam: an owed gap becomes an immutable job that ends at this batch
\* and starts one before the gap, so that the boundary itself is replayed.
SeamAccepts(to) == ctl.status # Blocked /\ ctl.last <= to /\ ctl.gap < to
SeamAfter == IF ctl.gap > 0 THEN ctl.gap - 1 ELSE 0

RegisterSeam(to) ==
  \/ /\ \/ ctl.gap = NoSeq
        \/ \E j \in JobId : /\ jobs[j].status # "absent"
                            /\ jobs[j].after = SeamAfter /\ jobs[j].before = to
     /\ UNCHANGED jobs
  \/ /\ ctl.gap # NoSeq
     /\ ~\E j \in JobId : /\ jobs[j].status # "absent"
                          /\ jobs[j].after = SeamAfter /\ jobs[j].before = to
     /\ \E j \in JobId :
          /\ jobs[j].status = "absent"
          /\ \A i \in JobId : i < j => jobs[i].status # "absent"
          /\ jobs' = [jobs EXCEPT ![j] = [AbsentJob EXCEPT !.status = "pending",
                                            !.after = SeamAfter, !.before = to]]

\* One StageBatch of the live lane: seam, rows, controller cursor and
\* checkpoint in one transaction.  A batch is staged in bursts; lastSeq moves
\* with the last of them only, and not at all if its commit is not confirmed.
StageLive(p) ==
  \E to \in Seqs, confirmed \in BOOLEAN :
    /\ Working(p)
    /\ cursor[p] # NoSeq /\ cursor[p] < to /\ to <= tip
    /\ SeamAccepts(to)
    /\ RegisterSeam(to)
    /\ StageRows(cursor[p], to)
    /\ ctl' = [ctl EXCEPT !.last = to, !.gap = NoSeq,
                 !.status = StatusAfterRows(IF ctl.gap # NoSeq THEN "gap_pending" ELSE ctl.status,
                                            cursor[p], to)]
    /\ ckpt' = [seq |-> Larger(ckpt.seq, to), state |-> "live"]
    /\ cursor' = [cursor EXCEPT ![p] = to]
    /\ lastSeq' = [lastSeq EXCEPT ![p] = IF confirmed THEN to ELSE @]
    /\ UNCHANGED <<lease, phase, token, child, provider, limits, faults>>

\* The cursor a subscription presents to the provider when it opens (the saved
\* one) or reconnects (that of the last complete batch: the stream is not read
\* between the bursts of one).  A fresh tail, which is what an owed gap opens,
\* presents none before its first batch is staged.
Presents(p, seq) ==
  /\ ctl.gap = NoSeq /\ ctl.status # Blocked
  /\ \/ cursor[p] # NoSeq /\ seq = cursor[p] /\ seq = lastSeq[p]
     \/ cursor[p] = NoSeq /\ Resumes /\ seq = ctl.last

\* CursorTooOld: MarkLiveCursorTooOld records the gap from the run's own
\* lastSeq; a gap already owed keeps the earlier start.
MarkLiveCursorTooOld(p) ==
  \E seq \in Seqs :
    /\ Working(p)
    /\ Presents(p, seq) /\ seq < floor
    /\ ctl' = IF ctl.status = Blocked THEN ctl
              ELSE [ctl EXCEPT !.gap = Least(ctl.gap, lastSeq[p]), !.status = "gap_pending"]
    /\ cursor' = [cursor EXCEPT ![p] = NoSeq]
    /\ UNCHANGED <<lease, ckpt, jobs, inbox, poison, phase, token, lastSeq, child,
                   provider, limits, faults>>

\* FutureCursor, or a batch the seam refuses: the source and all its unfinished
\* jobs are blocked, and the run stops its recovery goroutine.
BlockSourceDiscontinuity(p) ==
  /\ Working(p)
  /\ \/ \E seq \in Seqs : Presents(p, seq) /\ seq > tip
     \/ cursor[p] # NoSeq /\ \E to \in cursor[p] + 1..tip : ~SeamAccepts(to)
  /\ ctl' = [ctl EXCEPT !.status = Blocked]
  /\ jobs' = [j \in JobId |-> IF jobs[j].status \in {"absent", "complete"} THEN jobs[j]
                              ELSE [jobs[j] EXCEPT !.status = Blocked]]
  /\ cursor' = [cursor EXCEPT ![p] = NoSeq]
  /\ child' = [child EXCEPT ![p] = NoChild]
  /\ UNCHANGED <<lease, ckpt, inbox, poison, phase, token, lastSeq, provider, limits, faults>>

-----------------------------------------------------------------------------
(* Archive recovery (runRecoveryJobs). *)

Recovering(p) == Working(p) /\ child[p].job # NoJob

\* The job row still belongs to this claim and may be staged into.
HoldsJob(p, j) ==
  /\ jobs[j].status = "replaying"
  /\ jobs[j].owner = p /\ jobs[j].token = token[p]

\* Mutants of Claimable: a job left replaying by a lost run is not claimable;
\* every job of another claim is.
ClaimableOnlyReleased(p, j) ==
  /\ ctl.status # Blocked /\ ~due
  /\ jobs[j].status \in {"pending", "paused_daily", "paused_budget"}
ClaimableByOwnership(p, j) ==
  /\ ctl.status # Blocked /\ ~due
  /\ jobs[j].status # "absent" /\ ~HoldsJob(p, j)

Claimable(p, j) ==
  /\ ctl.status # Blocked /\ ~due
  /\ \/ jobs[j].status \in {"pending", "paused_daily", "paused_budget"}
     \/ jobs[j].status = "replaying" /\ ~HoldsJob(p, j)

\* The archive is resumed one before the job's own checkpoint.
ResumePoint(job) == IF job.last = 0 THEN job.after ELSE job.last - 1

\* Past the deadline a claim only retires what is unfinished; otherwise it
\* takes the oldest claimable job, also from a run whose lease is gone.
ClaimRecoveryJob(p) ==
  /\ Working(p) /\ child[p].job = NoJob /\ ~spent
  /\ \/ /\ due
        /\ jobs' = [j \in JobId |->
                      IF jobs[j].status \in {"absent", "complete", "expired", Blocked} THEN jobs[j]
                      ELSE [jobs[j] EXCEPT !.status = "expired"]]
        /\ jobs' # jobs
        /\ UNCHANGED <<ctl, child>>
     \/ \E j \in JobId :
          /\ Claimable(p, j)
          /\ \A i \in JobId : i < j => ~Claimable(p, i)
          /\ jobs' = [jobs EXCEPT ![j].status = "replaying", ![j].owner = p, ![j].token = token[p]]
          /\ ctl' = [ctl EXCEPT !.status = "recovering"]
          /\ child' = [child EXCEPT ![p] = [job |-> j, pos |-> ResumePoint(jobs[j])]]
  /\ UNCHANGED <<lease, ckpt, inbox, poison, phase, token, cursor, lastSeq,
                 provider, limits, faults>>

MayStageJob(p, j) == HoldsJob(p, j) /\ ~due /\ ctl.status # Blocked

StageJob(p) ==
  \E to \in Seqs :
    LET j == child[p].job IN
    /\ Recovering(p) /\ MayStageJob(p, j)
    /\ child[p].pos < to /\ to <= jobs[j].before
    /\ StageRows(child[p].pos, to)
    /\ jobs' = [jobs EXCEPT ![j].last = Larger(@, to)]
    /\ ctl' = [ctl EXCEPT !.status = StatusAfterRows(@, child[p].pos, to)]
    /\ child' = [child EXCEPT ![p].pos = to]
    /\ UNCHANGED <<lease, ckpt, phase, token, cursor, lastSeq, provider, limits, faults>>

\* Mutant of ReachedBound: any progress of the child counts as the whole range.
ReachedAnything(p, j) == child[p].pos > jobs[j].after

\* The archive reported the exact upper bound and every batch before it is staged.
ReachedBound(p, j) == child[p].pos = jobs[j].before

CompleteRecoveryJob(p) ==
  LET j == child[p].job IN
  /\ Recovering(p) /\ MayStageJob(p, j)
  /\ ReachedBound(p, j)
  /\ jobs' = [jobs EXCEPT ![j].status = "complete"]
  /\ ctl' = [ctl EXCEPT !.status =
               IF poison # {} THEN "degraded"
               ELSE IF \E i \in JobId \ {j} : jobs[i].status \notin {"absent", "complete"} THEN @
               ELSE "healthy"]
  /\ child' = [child EXCEPT ![p] = NoChild]
  /\ UNCHANGED <<lease, ckpt, inbox, poison, phase, token, cursor, lastSeq,
                 provider, limits, faults>>

\* A child ended without completing: its failure decides the released status.
ReleaseRecoveryJob(p) ==
  \E status \in {"pending", "paused_daily", "paused_budget", "expired"} :
    LET j == child[p].job IN
    /\ Recovering(p)
    /\ (status = "expired" => due) /\ (status = "paused_budget" => spent)
    /\ IF status \in {"pending", "paused_daily"} THEN Fault ELSE UNCHANGED faults
    /\ jobs' = IF HoldsJob(p, j) THEN [jobs EXCEPT ![j].status = status] ELSE jobs
    /\ ctl' = IF status \in {"paused_budget", "expired"} /\ ctl.status # Blocked
              THEN [ctl EXCEPT !.status = status] ELSE ctl
    /\ child' = [child EXCEPT ![p] = NoChild]
    /\ UNCHANGED <<lease, ckpt, inbox, poison, phase, token, cursor, lastSeq, provider, limits>>

\* The attempt failed and so did the transaction that hands the job back: the
\* error is logged and the loop goes on.
ReleaseFails(p) ==
  /\ DbFaults
  /\ phase[p] = "running" /\ child[p].job # NoJob
  /\ Fault
  /\ child' = [child EXCEPT ![p] = NoChild]
  /\ UNCHANGED <<durable, phase, token, cursor, lastSeq, provider, limits>>

\* recordAutomaticReplayBytes is not fenced: bytes count whoever fetched them.
SpendIncidentBudget(p) ==
  /\ HasBudget /\ ~spent
  /\ phase[p] = "running" /\ child[p].job # NoJob
  /\ spent' = TRUE
  /\ UNCHANGED <<durable, memory, provider, due, faults>>

PauseAutomaticRecovery(p) ==
  /\ Working(p) /\ child[p].job = NoJob /\ spent
  /\ ctl.status # Blocked
  /\ \E j \in JobId : jobs[j].status \notin {"absent", "complete", "expired", Blocked}
  /\ ctl' = [ctl EXCEPT !.status = "paused_budget"]
  /\ UNCHANGED <<lease, ckpt, jobs, inbox, poison, memory, provider, limits, faults>>

-----------------------------------------------------------------------------
(* The provider and the clock. *)

SourceEmits ==
  /\ tip < MaxSeq
  /\ tip' = tip + 1
  /\ UNCHANGED <<durable, memory, floor, limits, faults>>

BufferDrops ==
  /\ floor < tip
  /\ floor' = floor + 1
  /\ UNCHANGED <<durable, memory, tip, limits, faults>>

SourceRegresses ==
  /\ CanRegress /\ Fault
  /\ \E newTip \in 0..tip - 1 : tip' = newTip /\ floor' = Smaller(floor, newTip)
  /\ UNCHANGED <<durable, memory, limits>>

CanaryExpires ==
  /\ HasCanary /\ ~due
  /\ due' = TRUE
  /\ UNCHANGED <<durable, memory, provider, spent, faults>>

LaneStep(p) ==
  \/ AcquireLease(p) \/ RenewLease(p) \/ StopLane(p) \/ Crash(p)
  \/ StartAutomaticRecovery(p) \/ Subscribe(p) \/ HaltOnDiscontinuity(p)
  \/ Disconnect(p) \/ StageLive(p) \/ MarkLiveCursorTooOld(p)
  \/ BlockSourceDiscontinuity(p)
  \/ ClaimRecoveryJob(p) \/ StageJob(p) \/ CompleteRecoveryJob(p)
  \/ ReleaseRecoveryJob(p) \/ ReleaseFails(p) \/ SpendIncidentBudget(p)
  \/ PauseAutomaticRecovery(p)

Environment ==
  ExpireLease \/ SourceEmits \/ BufferDrops \/ SourceRegresses \/ CanaryExpires

Next == (\E p \in Owner : LaneStep(p)) \/ Environment

Spec == Init /\ [][Next]_vars

\* The loops of a run are scheduled: lease retry, start, reconnect, staging,
\* claiming and completing; time expires the lease of a dead run and the
\* network keeps emitting.  Faults, buffer drops and the deadline are not fair.
Fairness ==
  /\ WF_vars(ExpireLease) /\ WF_vars(SourceEmits)
  /\ \A p \in Owner :
       /\ WF_vars(AcquireLease(p)) /\ WF_vars(StartAutomaticRecovery(p))
       /\ WF_vars(Subscribe(p)) /\ WF_vars(StageLive(p)) /\ WF_vars(MarkLiveCursorTooOld(p))
       /\ WF_vars(BlockSourceDiscontinuity(p)) /\ WF_vars(ClaimRecoveryJob(p))
       /\ WF_vars(StageJob(p)) /\ WF_vars(CompleteRecoveryJob(p))

FairSpec == Spec /\ Fairness

-----------------------------------------------------------------------------
(* Properties. *)

Staged == inbox \cup poison

Unfinished(j) == jobs[j].status \notin {"absent", "complete"}

\* Sequence s lies in a range the durable rows still owe.
Owed(s) ==
  \/ ctl.gap # NoSeq /\ ctl.gap < s
  \/ \E j \in JobId : Unfinished(j) /\ jobs[j].after < s /\ s <= jobs[j].before

\* No event is lost: whatever runs crash, overlap or lose their subscription,
\* every sequence from the seam to the live cursor is staged or owed by the
\* recorded gap or an unfinished job ("New live data cannot leap past history
\* until its immutable recovery obligation exists", automatic_recovery.go:159).
CoverageAccounted ==
  \A s \in Bootstrap + 1..ctl.last : s \in Staged \/ Owed(s)

\* A job's own checkpoint never claims a sequence that is not staged, although
\* claims move between runs and resume inclusively; completion covers the range.
JobCursorTruthful ==
  \A j \in JobId :
    /\ \A s \in jobs[j].after + 1..jobs[j].last : s \in Staged
    /\ jobs[j].status = "complete" => jobs[j].after + 1..jobs[j].before \subseteq Staged

\* wire_publication_recovery_health, the view public coverage is computed from.
RecoveringView ==
  \/ ctl.status # "healthy" \/ ctl.gap # NoSeq
  \/ \E j \in JobId : Unfinished(j)
  \/ poison # {}

\* Coverage is reported as restored only when nothing is missing ("public
\* coverage stays degraded while obligations are unresolved", README.md:368).
PublicCoverageHonest ==
  ctl.present /\ ~RecoveringView => Bootstrap + 1..ctl.last \subseteq inbox

\* A job row keeps its range, its checkpoint never moves back, and a complete
\* job is never touched again, whichever run writes last.
JobsNeverReopened ==
  [][\A j \in JobId : jobs[j].status # "absent" =>
       /\ jobs'[j].after = jobs[j].after /\ jobs'[j].before = jobs[j].before
       /\ jobs'[j].last >= jobs[j].last
       /\ jobs'[j].status # "absent"
       /\ jobs[j].status = "complete" => jobs'[j] = jobs[j]]_vars

\* Recovery "cannot move the live checkpoint backward" (README.md:343), nor can
\* a run that lost its lease or restarts from an older checkpoint.
LiveCursorNeverRewinds == [][ctl'.last >= ctl.last /\ ckpt'.seq >= ckpt.seq]_vars

\* A source discontinuity fails closed: from then on no run, live or archive,
\* stages anything and the status is never overwritten.
DiscontinuityFailsClosed ==
  [][ctl.status = Blocked =>
       /\ ctl'.status = Blocked /\ ctl'.last = ctl.last
       /\ UNCHANGED <<ckpt, inbox, poison, jobs>>]_vars

\* A fresh tail stages nothing, and so registers nothing, before the source's
\* next event: at the end of the bounded source it waits for ever.
AwaitsFreshEvent ==
  /\ tip = MaxSeq /\ ctl.gap # NoSeq
  /\ \E p \in Owner : Working(p) /\ cursor[p] = tip

\* Fresh intake continues through faults, failovers, archive work, its deadline
\* and its budget: whatever the source emits is passed by the live cursor.
LiveKeepsUp ==
  \A n \in 1..MaxSeq :
    tip >= n ~> (ctl.last >= n \/ ctl.status = Blocked \/ AwaitsFreshEvent)

\* Every sequence the live cursor passed unstaged is staged in the end, unless
\* recovery was stopped for good.
RecoveryStopped == due \/ spent \/ ctl.status = Blocked
OwedIsRepaid ==
  \A n \in Bootstrap + 1..MaxSeq :
    (n <= ctl.last /\ n \notin Staged)
      ~> (n \in Staged \/ RecoveryStopped \/ (ctl.gap < n /\ AwaitsFreshEvent))

\* "Failed automatic archive attempts use bounded exponential backoff"
\* (README.md:370): a claimed job no run works on any more is claimed again.
Abandoned(j) ==
  jobs[j].status = "replaying" /\ ~\E p \in Owner : phase[p] = "running" /\ child[p].job = j
FailedAttemptIsRetried ==
  \A j \in JobId : Abandoned(j) ~> (~Abandoned(j) \/ RecoveryStopped)
=============================================================================
