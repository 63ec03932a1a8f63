---------------------------- MODULE DurableInbox ----------------------------
(***************************************************************************)
(* The durable AppView inbox and its projection workers                    *)
(* (packages/go/thinappviewcore, packages/go/appviewworkercore).  The      *)
(* intake lane stages the events of repositories in sequence order;        *)
(* workers claim them under short leases, project them into content_items  *)
(* and acknowledge them.  An event that keeps failing becomes a dead       *)
(* letter and owes a reconciliation: a restore of the whole repository     *)
(* from its PDS.  A sync event is such a restore by itself.                *)
(*                                                                         *)
(* Simplifications:                                                        *)
(*  - a record's version is the sequence of the event that wrote it (a     *)
(*    deletion is a version like another), so that a snapshot of the PDS   *)
(*    is the newest sequence it contains;                                  *)
(*  - a worker is one slot of a projection process and handles one claim   *)
(*    at a time, so a claim's random token is the worker that holds it;    *)
(*  - 'retry' is 'pending' (its backoff only delays it), times and failure *)
(*    texts are left out, and a restore writes its pages in one step;      *)
(*  - retention, incidents, read marks, counters and caches are left out.  *)
(***************************************************************************)
EXTENDS Integers, FiniteSets

CONSTANTS
  Worker,       \* slots of the projection processes
  NoWorker,
  Repo,         \* repositories (DIDs)
  Record,       \* content records
  MaxSeq,       \* bound: events emitted
  RepoOf,       \* RepoOf[s]: the repository of event s
  Writes,       \* Writes[s]: the record commit s writes, or all those an account
                \* event deletes; identity events and sync markers write none
  Syncs,        \* events that are sync markers
  Accounts,     \* account and identity events; the others are commits
  Broken,       \* events whose projection always fails
  MaxAttempts,  \* attempts before a dead letter and before a failed request
  MaxFaults,    \* bound: crashes, failed attempts, yields, operator calls...
  Stalls,       \* a live worker may be late with the renewal of its lease
  ScopeChanges  \* publications and viewers come and go

ASSUME WorkerAssumption == NoWorker \notin Worker /\ IsFiniteSet(Worker)
ASSUME EventAssumption ==
  /\ MaxSeq \in Nat /\ MaxFaults \in Nat /\ MaxAttempts \in Nat \ {0}
  /\ RepoOf \in [1..MaxSeq -> Repo] /\ Writes \in [1..MaxSeq -> SUBSET Record]
  /\ Syncs \subseteq 1..MaxSeq /\ Accounts \subseteq 1..MaxSeq /\ Broken \subseteq 1..MaxSeq
\* A record's URI names its repository; a sync marker carries no record.
ASSUME WritesAssumption ==
  /\ \A s, t \in 1..MaxSeq : Writes[s] \cap Writes[t] # {} => RepoOf[s] = RepoOf[t]
  /\ \A s \in Syncs : Writes[s] = {}
ASSUME FlagAssumption == {Stalls, ScopeChanges} \subseteq BOOLEAN

VARIABLES
  pds,        \* newest event the repositories have emitted
  staged,     \* checkpoint: last_staged_seq
  rows,       \* appview_ingestion_inbox
  requests,   \* appview_ingestion_reconciliation_requests, by trigger sequence
  content,    \* content_items: the version of every record
  watermark,  \* checkpoint: last_applied_seq
  scoped,     \* repositories of current publications and viewers
  task,       \* per worker: the claim it works on and how far it is
  faults      \* faults so far

vars == <<pds, staged, rows, requests, content, watermark, scoped, task, faults>>

Seqs      == 1..MaxSeq
Projected == Seqs \ Syncs

RowStatus     == {"absent", "pending", "leased", "applied", "dead_letter", "filtered_scope"}
RequestStatus == {"absent", "pending", "leased", "failed", "completed"}
Lessee        == Worker \cup {NoWorker}

Row     == [status : RowStatus, owner : Lessee, live : BOOLEAN, attempts : 0..MaxAttempts,
            reconciled : BOOLEAN, restored : BOOLEAN]
Request == [status : RequestStatus, owner : Lessee, live : BOOLEAN, attempts : Nat,
            restored : BOOLEAN]
Task    == [kind : {"idle", "event", "request"}, seq : 0..MaxSeq,
            step : {"claimed", "read", "written", "restored", "done"}, snap : 0..MaxSeq]

Idle         == [kind |-> "idle", seq |-> 0, step |-> "claimed", snap |-> 0]
AbsentRow    == [status |-> "absent", owner |-> NoWorker, live |-> FALSE, attempts |-> 0,
                 reconciled |-> FALSE, restored |-> FALSE]
AbsentReq    == [status |-> "absent", owner |-> NoWorker, live |-> FALSE, attempts |-> 0,
                 restored |-> FALSE]

TypeOK ==
  /\ pds \in 0..MaxSeq
  /\ staged \in 0..MaxSeq
  /\ rows \in [Seqs -> Row]
  /\ requests \in [Seqs -> Request]
  /\ content \in [Record -> 0..MaxSeq]
  /\ watermark \in 0..MaxSeq
  /\ scoped \subseteq Repo
  /\ task \in [Worker -> Task]
  /\ faults \in Nat

Init ==
  /\ pds = 0
  /\ staged = 0
  /\ rows = [s \in Seqs |-> AbsentRow]
  /\ requests = [s \in Seqs |-> AbsentReq]
  /\ content = [r \in Record |-> 0]
  /\ watermark = 0
  /\ scoped = Repo
  /\ task = [w \in Worker |-> Idle]
  /\ faults = 0

Fault == faults < MaxFaults /\ faults' = faults + 1

Highest(S) == CHOOSE x \in S \cup {0} : \A y \in S : y <= x

\* The version of a record in a repository whose newest event is n.
Version(r, n) == Highest({s \in Projected : s <= n /\ r \in Writes[s]})
RecordsOf(repo) == UNION {Writes[s] : s \in {t \in Projected : RepoOf[t] = repo}}

-----------------------------------------------------------------------------
(* Events arrive. *)

Emits ==
  /\ pds < MaxSeq
  /\ pds' = pds + 1
  /\ UNCHANGED <<staged, rows, requests, content, watermark, scoped, task, faults>>

\* The intake lane stages the next event: commits of repositories out of scope
\* get no row, and an event already there is left alone.
Stage ==
  LET s == staged + 1 IN
  /\ staged < pds
  /\ staged' = s
  /\ rows' = IF s \in Syncs \cup Accounts \/ RepoOf[s] \in scoped
             THEN [rows EXCEPT ![s].status = "pending"] ELSE rows
  /\ UNCHANGED <<pds, requests, content, watermark, scoped, task, faults>>

\* A publication or viewer is added or removed.
ScopeMoves ==
  /\ ScopeChanges /\ Fault
  /\ \E repo \in Repo : scoped' = IF repo \in scoped THEN scoped \ {repo} ELSE scoped \cup {repo}
  /\ UNCHANGED <<pds, staged, rows, requests, content, watermark, task>>

-----------------------------------------------------------------------------
(* Claims and leases. *)

\* Mutant of Due: an expired lease is nobody's.
DueOnlyPending(item) == item.status = "pending"

\* Pending, or leased under a lease that has run out.
Due(item) == item.status = "pending" \/ (item.status = "leased" /\ ~item.live)

Waiting(s) == rows[s].status \in {"pending", "leased"}

\* Mutants of Claimable: rows of one repository in any order; events beside an
\* outstanding restore of their repository.
ClaimableInAnyOrder(s) ==
  /\ Due(rows[s]) /\ RepoOf[s] \in scoped
  /\ ~\E t \in Seqs : RepoOf[t] = RepoOf[s] /\ requests[t].status \in {"pending", "leased"}
ClaimableBesideRestore(s) ==
  /\ Due(rows[s]) /\ RepoOf[s] \in scoped
  /\ ~\E t \in Seqs : t < s /\ RepoOf[t] = RepoOf[s] /\ Waiting(t)

\* inboxClaimSQL: due, in scope, the first waiting event of its repository, and
\* no restore of the repository outstanding.
Claimable(s) ==
  /\ Due(rows[s])
  /\ RepoOf[s] \in scoped
  /\ ~\E t \in Seqs : t < s /\ RepoOf[t] = RepoOf[s] /\ Waiting(t)
  /\ ~\E t \in Seqs : RepoOf[t] = RepoOf[s] /\ requests[t].status \in {"pending", "leased"}

Claim(w) ==
  \E s \in Seqs :
    /\ task[w] = Idle
    /\ Claimable(s)
    /\ rows' = [rows EXCEPT ![s].status = "leased", ![s].owner = w, ![s].live = TRUE]
    /\ task' = [task EXCEPT ![w] = [Idle EXCEPT !.kind = "event", !.seq = s]]
    /\ UNCHANGED <<pds, staged, requests, content, watermark, scoped, faults>>

\* inboxFilterSQL: one batch settles every due row that is out of scope.
FilterOutsideScope ==
  LET out == {s \in Seqs : Due(rows[s]) /\ RepoOf[s] \notin scoped} IN
  /\ out # {}
  /\ rows' = [s \in Seqs |->
                IF s \in out
                THEN [rows[s] EXCEPT !.status = "filtered_scope", !.owner = NoWorker,
                        !.live = FALSE, !.reconciled = FALSE]
                ELSE rows[s]]
  /\ UNCHANGED <<pds, staged, requests, content, watermark, scoped, task, faults>>

\* inboxReconciliationClaim0SQL: the first outstanding request of a repository
\* none of whose events is leased.
RestoreClaimable(s) ==
  /\ Due(requests[s])
  /\ ~\E t \in Seqs : /\ t < s /\ RepoOf[t] = RepoOf[s]
                      /\ requests[t].status \in {"pending", "leased"}
  /\ ~\E t \in Seqs : RepoOf[t] = RepoOf[s] /\ rows[t].status = "leased" /\ rows[t].live

ClaimReconciliation(w) ==
  \E s \in Seqs :
    /\ task[w] = Idle
    /\ RestoreClaimable(s)
    /\ requests' = [requests EXCEPT ![s].status = "leased", ![s].owner = w, ![s].live = TRUE]
    /\ task' = [task EXCEPT ![w] = [Idle EXCEPT !.kind = "request", !.seq = s]]
    /\ UNCHANGED <<pds, staged, rows, content, watermark, scoped, faults>>

Working(w, kind) == task[w].kind = kind

\* The row or request a worker's claim is on.
Claimed(w) == IF Working(w, "event") THEN rows[task[w].seq] ELSE requests[task[w].seq]

\* Mutant of Holds: the row is addressed by sequence alone.
HoldsSequence(w) == Claimed(w).status # "absent"

\* What every transition of a claim requires: owner and token still match.
Holds(w) == Claimed(w).status = "leased" /\ Claimed(w).owner = w

\* Recovery progress also requires that the lease has not run out.
HoldsLive(w) == Holds(w) /\ Claimed(w).live

\* A renewal in time keeps the lease; a late one revives it if nobody else has
\* claimed the row in the meantime.
Renew(w) ==
  LET s == task[w].seq IN
  /\ ~Working(w, "idle") /\ Holds(w)
  /\ IF Working(w, "event")
     THEN rows' = [rows EXCEPT ![s].live = TRUE] /\ UNCHANGED requests
     ELSE requests' = [requests EXCEPT ![s].live = TRUE] /\ UNCHANGED rows
  /\ UNCHANGED <<pds, staged, content, watermark, scoped, task, faults>>

\* The lease of a claim nobody works on any more runs out; that of a live
\* worker does when it is late.
Abandoned(kind, s, owner) ==
  ~(task[owner].kind = kind /\ task[owner].seq = s)
Expires(kind, s, owner) ==
  \/ Abandoned(kind, s, owner) /\ UNCHANGED faults
  \/ Stalls /\ ~Abandoned(kind, s, owner) /\ Fault

ExpireLease ==
  \E s \in Seqs :
    /\ \/ /\ rows[s].status = "leased" /\ rows[s].live
          /\ Expires("event", s, rows[s].owner)
          /\ rows' = [rows EXCEPT ![s].live = FALSE] /\ UNCHANGED requests
       \/ /\ requests[s].status = "leased" /\ requests[s].live
          /\ Expires("request", s, requests[s].owner)
          /\ requests' = [requests EXCEPT ![s].live = FALSE] /\ UNCHANGED rows
    /\ UNCHANGED <<pds, staged, content, watermark, scoped, task>>

\* The process ends; the claim stays leased to it.
Crash(w) ==
  /\ ~Working(w, "idle")
  /\ Fault
  /\ task' = [task EXCEPT ![w] = Idle]
  /\ UNCHANGED <<pds, staged, rows, requests, content, watermark, scoped>>

-----------------------------------------------------------------------------
(* Projection and repository restore. *)

At(w, kind, step) == Working(w, kind) /\ task[w].step = step

\* A commit is written over whatever version the record has, and an account that
\* is no longer active loses all its records; neither is fenced by the claim.
Project(w) ==
  LET s == task[w].seq IN
  /\ At(w, "event", "claimed")
  /\ s \in Projected \ Broken
  /\ content' = [r \in Record |-> IF r \in Writes[s] THEN s ELSE content[r]]
  /\ task' = [task EXCEPT ![w].step = "done"]
  /\ UNCHANGED <<pds, staged, rows, requests, watermark, scoped, faults>>

Restores(w) == Working(w, "request") \/ (Working(w, "event") /\ task[w].seq \in Syncs)

\* Restore opens, under an unexpired lease, by saving where it stands and
\* reading the repository; a restore already completed is not repeated.
ReadRepository(w) ==
  /\ Restores(w) /\ task[w].step = "claimed"
  /\ HoldsLive(w)
  /\ task' = [task EXCEPT ![w] = IF Claimed(w).restored THEN [@ EXCEPT !.step = "restored"]
                                 ELSE [@ EXCEPT !.step = "read", !.snap = pds]]
  /\ UNCHANGED <<pds, staged, rows, requests, content, watermark, scoped, faults>>

\* Mutant of WriteRecords: only records the projection has not seen are written.
WriteNewRecords(w) ==
  LET repo == RepoOf[task[w].seq] IN
  /\ Restores(w) /\ task[w].step = "read"
  /\ content' = [r \in Record |-> IF r \in RecordsOf(repo) /\ content[r] = 0
                                  THEN Version(r, task[w].snap) ELSE content[r]]
  /\ task' = [task EXCEPT ![w].step = "written"]
  /\ UNCHANGED <<pds, staged, rows, requests, watermark, scoped, faults>>

\* Records that were read are written, and absent ones pruned, without a fence.
WriteRecords(w) ==
  LET repo == RepoOf[task[w].seq] IN
  /\ Restores(w) /\ task[w].step = "read"
  /\ content' = [r \in Record |-> IF r \in RecordsOf(repo) THEN Version(r, task[w].snap)
                                  ELSE content[r]]
  /\ task' = [task EXCEPT ![w].step = "written"]
  /\ UNCHANGED <<pds, staged, rows, requests, watermark, scoped, faults>>

\* The last Save of a restore marks it completed in the claimed row.
FinishRestore(w) ==
  LET s == task[w].seq IN
  /\ Restores(w) /\ task[w].step = "written"
  /\ HoldsLive(w)
  /\ IF Working(w, "event")
     THEN rows' = [rows EXCEPT ![s].restored = TRUE] /\ UNCHANGED requests
     ELSE requests' = [requests EXCEPT ![s].restored = TRUE] /\ UNCHANGED rows
  /\ task' = [task EXCEPT ![w].step = "restored", ![w].snap = 0]
  /\ UNCHANGED <<pds, staged, content, watermark, scoped, faults>>

Released(item) == [item EXCEPT !.status = "pending", !.owner = NoWorker, !.live = FALSE]

\* A long restore gives its claim back between two slices, at no attempt.
YieldRestore(w) ==
  LET s == task[w].seq IN
  /\ Restores(w) /\ task[w].step = "written"
  /\ HoldsLive(w)
  /\ Fault
  /\ IF Working(w, "event")
     THEN rows' = [rows EXCEPT ![s] = Released(@)] /\ UNCHANGED requests
     ELSE requests' = [requests EXCEPT ![s] = Released(@)] /\ UNCHANGED rows
  /\ task' = [task EXCEPT ![w] = Idle]
  /\ UNCHANGED <<pds, staged, content, watermark, scoped>>

-----------------------------------------------------------------------------
(* Settlement. *)

\* Mutant of Settled: a restored dead letter still blocks.
SettledByProjection(row) == row.status \in {"applied", "filtered_scope"}

Settled(row) == row.status \in {"applied", "filtered_scope"} \/ row.reconciled

\* Mutant of AppliedWatermark: leased rows are no barrier.
WatermarkPastLeases(table) ==
  LET open == {s \in Seqs : table[s].status \in {"pending", "dead_letter"} /\ ~Settled(table[s])}
      done == {s \in Seqs : Settled(table[s]) /\ \A t \in open : s < t} IN
  IF open = {} THEN staged ELSE Highest(done \cup {watermark})

\* inboxWatermarkSQL: the last settled row before the first open one, or all
\* that is staged; it never moves back.
AppliedWatermark(table) ==
  LET open == {s \in Seqs : table[s].status # "absent" /\ ~Settled(table[s])}
      done == {s \in Seqs : Settled(table[s]) /\ \A t \in open : s < t} IN
  IF open = {} THEN staged ELSE Highest(done \cup {watermark})

AdvanceAppliedWatermark ==
  /\ watermark' = AppliedWatermark(rows)
  /\ watermark' # watermark
  /\ UNCHANGED <<pds, staged, rows, requests, content, scoped, task, faults>>

\* Reconciled: a sync's restore is recorded while its claim is kept.
Reconciled(w) ==
  LET s == task[w].seq IN
  /\ At(w, "event", "restored")
  /\ Holds(w)
  /\ rows' = [rows EXCEPT ![s].reconciled = TRUE]
  /\ requests' = IF requests[s].status \in {"absent", "completed"} THEN requests
                 ELSE [requests EXCEPT ![s].status = "completed", ![s].owner = NoWorker,
                         ![s].live = FALSE]
  /\ watermark' = AppliedWatermark(rows')
  /\ task' = [task EXCEPT ![w].step = "done"]
  /\ UNCHANGED <<pds, staged, content, scoped, faults>>

Applied(w) ==
  LET s == task[w].seq IN
  /\ At(w, "event", "done")
  /\ Holds(w)
  /\ rows' = [rows EXCEPT ![s].status = "applied", ![s].owner = NoWorker, ![s].live = FALSE]
  /\ task' = [task EXCEPT ![w] = Idle]
  /\ UNCHANGED <<pds, staged, requests, content, watermark, scoped, faults>>

\* Mutants of RetryOrDeadLetter: one attempt more; a dead letter owes nothing.
RetryOnceMore(s) ==
  LET tried == rows[s].attempts + 1 IN
  /\ rows' = [rows EXCEPT ![s] =
                [Released(@) EXCEPT !.attempts = tried,
                   !.status = IF tried > MaxAttempts THEN "dead_letter" ELSE "pending"]]
  /\ requests' = IF tried > MaxAttempts /\ requests[s].status = "absent"
                 THEN [requests EXCEPT ![s].status = "pending"] ELSE requests
DeadLetterOwesNothing(s) ==
  LET tried == rows[s].attempts + 1 IN
  /\ rows' = [rows EXCEPT ![s] =
                [Released(@) EXCEPT !.attempts = tried,
                   !.status = IF tried >= MaxAttempts THEN "dead_letter" ELSE "pending"]]
  /\ UNCHANGED requests

\* A failed attempt goes back to the queue, or, out of attempts, becomes a dead
\* letter and owes a restore in the same transaction.
RetryOrDeadLetter(s) ==
  LET tried == rows[s].attempts + 1 IN
  /\ rows' = [rows EXCEPT ![s] =
                [Released(@) EXCEPT !.attempts = tried,
                   !.status = IF tried >= MaxAttempts THEN "dead_letter" ELSE "pending"]]
  /\ requests' = IF tried >= MaxAttempts /\ requests[s].status = "absent"
                 THEN [requests EXCEPT ![s].status = "pending"] ELSE requests

\* A failed restore goes back to its queue until it has failed for good.
RetryReconciliation(s) ==
  LET tried == requests[s].attempts + 1 IN
  /\ requests' = [requests EXCEPT ![s] =
                    [Released(@) EXCEPT !.attempts = tried,
                       !.status = IF tried >= MaxAttempts THEN "failed" ELSE "pending"]]
  /\ UNCHANGED rows

\* A broken event always fails, and so does a restore that finds its lease run out.
MustFail(w) ==
  \/ Working(w, "event") /\ task[w].seq \in Broken
  \/ Restores(w) /\ task[w].step \in {"claimed", "written"} /\ ~Claimed(w).live

\* An attempt fails for good reason or, as a fault, for a passing one.
AttemptFails(w) ==
  LET s == task[w].seq IN
  /\ ~Working(w, "idle") /\ Holds(w)
  /\ IF MustFail(w) THEN UNCHANGED faults ELSE Fault
  /\ IF Working(w, "event") THEN RetryOrDeadLetter(s) ELSE RetryReconciliation(s)
  /\ task' = [task EXCEPT ![w] = Idle]
  /\ UNCHANGED <<pds, staged, content, watermark, scoped>>

\* A worker whose claim is taken gives up in the end, at a renewal or with the
\* outcome it tries to record: both change nothing.
ClaimLost(w) ==
  /\ ~Working(w, "idle")
  /\ ~Holds(w)
  /\ task' = [task EXCEPT ![w] = Idle]
  /\ UNCHANGED <<pds, staged, rows, requests, content, watermark, scoped, faults>>

\* Recording the outcome fails: it is logged, and the claim stays leased.
OutcomeLost(w) ==
  /\ ~Working(w, "idle")
  /\ task[w].step \in {"restored", "done"}
  /\ Fault
  /\ task' = [task EXCEPT ![w] = Idle]
  /\ UNCHANGED <<pds, staged, rows, requests, content, watermark, scoped>>

\* CompleteReconciliation: request, dead letter and watermark together.
CompleteReconciliation(w) ==
  LET s == task[w].seq IN
  /\ At(w, "request", "restored")
  /\ Holds(w)
  /\ rows[s].status = "dead_letter"
  /\ requests' = [requests EXCEPT ![s].status = "completed", ![s].owner = NoWorker,
                    ![s].live = FALSE]
  /\ rows' = [rows EXCEPT ![s].reconciled = TRUE]
  /\ watermark' = AppliedWatermark(rows')
  /\ task' = [task EXCEPT ![w] = Idle]
  /\ UNCHANGED <<pds, staged, content, scoped, faults>>

\* OperatorRetryFailedReconciliations: all failed requests whose event is still
\* an unreconciled dead letter, their attempts kept.
OperatorRetryFailedReconciliations ==
  LET failed == {s \in Seqs : /\ requests[s].status = "failed"
                              /\ rows[s].status = "dead_letter" /\ ~rows[s].reconciled} IN
  /\ failed # {}
  /\ Fault
  /\ requests' = [s \in Seqs |-> IF s \in failed THEN Released(requests[s]) ELSE requests[s]]
  /\ UNCHANGED <<pds, staged, rows, content, watermark, scoped, task>>

WorkerStep(w) ==
  \/ Claim(w) \/ ClaimReconciliation(w) \/ Renew(w) \/ Crash(w)
  \/ Project(w) \/ ReadRepository(w) \/ WriteRecords(w) \/ FinishRestore(w) \/ YieldRestore(w)
  \/ Reconciled(w) \/ Applied(w) \/ AttemptFails(w) \/ ClaimLost(w) \/ OutcomeLost(w)
  \/ CompleteReconciliation(w)

Next ==
  \/ Emits \/ Stage \/ ScopeMoves \/ FilterOutsideScope \/ ExpireLease
  \/ AdvanceAppliedWatermark \/ OperatorRetryFailedReconciliations
  \/ \E w \in Worker : WorkerStep(w)

Spec == Init /\ [][Next]_vars

\* The loops of the workers run, renewals included; the lane keeps staging and
\* time passes.  Faults, operators, stalls and changes of scope are not fair.
Fairness ==
  /\ WF_vars(Stage) /\ WF_vars(FilterOutsideScope) /\ WF_vars(AdvanceAppliedWatermark)
  /\ WF_vars(ExpireLease)
  /\ \A w \in Worker :
       /\ WF_vars(Claim(w)) /\ WF_vars(ClaimReconciliation(w))
       /\ WF_vars(Project(w)) /\ WF_vars(ReadRepository(w)) /\ WF_vars(WriteRecords(w))
       /\ WF_vars(FinishRestore(w)) /\ WF_vars(Reconciled(w)) /\ WF_vars(Applied(w))
       /\ WF_vars(ClaimLost(w)) /\ WF_vars(CompleteReconciliation(w))
       /\ WF_vars(MustFail(w) /\ AttemptFails(w))
       /\ WF_vars(Renew(w))

FairSpec == Spec /\ Fairness

-----------------------------------------------------------------------------
(* Properties. *)

\* "Charybdis leases at most one actionable event per DID"
\* (jetstream-v2-durable-replay.md:42): a leased event is the first waiting one
\* of its repository, whatever leases expired and were taken over.
OneTurnPerRepository ==
  \A s \in Seqs : rows[s].status = "leased" =>
    \A t \in Seqs : t # s /\ RepoOf[t] = RepoOf[s] /\ Waiting(t) =>
      s < t /\ rows[t].status = "pending"

\* An event is not projected beside a restore of its repository: their leases
\* are never in force together (without late renewals).
RestoresAlone ==
  \A s, t \in Seqs :
    RepoOf[s] = RepoOf[t] /\ rows[s].status = "leased" /\ requests[t].status = "leased"
      => ~(rows[s].live /\ requests[t].live)

\* The applied watermark passes only rows that are settled.
WatermarkTruthful ==
  \A s \in Seqs : s <= watermark => rows[s].status = "absent" \/ Settled(rows[s])

\* A dead letter and the restore it owes are two rows: an event is dropped from
\* projection only with a request that is outstanding or waits for an operator.
DeadLetterOwed ==
  \A s \in Seqs :
    /\ rows[s].status = "dead_letter" /\ ~rows[s].reconciled
         => requests[s].status \in {"pending", "leased", "failed"}
    /\ requests[s].status = "completed" => rows[s].reconciled

\* What is settled is projected: an applied event is visible in its records,
\* in its own version or a later one, and a reconciled event in all of them.
ProjectionCurrent ==
  \A s \in Seqs :
    /\ rows[s].status = "applied" => \A r \in Writes[s] : content[r] >= s
    /\ rows[s].reconciled => \A r \in RecordsOf(RepoOf[s]) : content[r] >= Version(r, s)

\* "repository order is preserved" (jetstream-v2-durable-replay.md:42).
RepositoryOrderPreserved == ProjectionCurrent

\* A settled row is settled for good: a worker whose lease was taken over
\* neither acknowledges, retries nor dead-letters the event of its successor.
SettledForGood ==
  [][\A s \in Seqs :
       rows[s].status \in {"applied", "filtered_scope", "dead_letter"} =>
         /\ rows'[s].status = rows[s].status
         /\ rows[s].reconciled => rows'[s].reconciled]_vars

\* "lease loss cannot mutate a new claim" (inbox_processor.go:41): while a claim
\* is in force, only the worker that holds it takes its event out of its hands.
ClaimsAreExclusive ==
  [][\A s \in Seqs :
       LET w == rows[s].owner IN
       (rows[s].status = "leased" /\ rows[s].live /\ rows'[s].owner # w)
         => task[w].kind = "event" /\ task[w].seq = s /\ task'[w] = Idle]_vars

\* Every staged event leaves the queue in the end.
EveryEventSettles ==
  \A s \in Seqs : Waiting(s) ~> ~Waiting(s)

\* The watermark follows what is staged, unless a restore failed for good.
WatermarkCatchesUp ==
  \A n \in Seqs : staged >= n ~> (watermark >= n \/ \E s \in Seqs : requests[s].status = "failed")
=============================================================================
