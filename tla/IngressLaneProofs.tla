------------------------- MODULE IngressLaneProofs -------------------------
(***************************************************************************)
(* Theorems about IngressLane for every number of runs, sequences, jobs    *)
(* and faults.  CoverageAccounted is not inductive: a live commit keeps it *)
(* only if the tail it belongs to is contiguous with the live cursor, a    *)
(* recorded gap starts no later than it, and a job's checkpoint and its    *)
(* replaying child claim no sequence that is not staged.  IInv adds those  *)
(* facts.                                                                  *)
(***************************************************************************)
EXTENDS IngressLane, TLAPS

\* A run reads the stream only while it is running, after it has created the
\* controller row.
PhasesMatch ==
  \A p \in Owner :
    /\ cursor[p] # NoSeq => phase[p] = "running"
    /\ phase[p] \in {"running", "halted"} => ctl.present

\* Without an owed gap there is a live cursor to resume from.
GapOrCursor ==
  /\ ckpt.state = "live" => ckpt.seq > 0
  /\ ctl.present /\ ctl.gap = NoSeq => ctl.last > 0

\* Nothing that can become a gap or a live cursor lies above the live cursor.
Bounded ==
  /\ ckpt.seq <= ctl.last \/ ckpt.seq <= Bootstrap
  /\ ctl.gap <= ctl.last \/ ctl.gap <= Bootstrap
  /\ \A p \in Owner : lastSeq[p] <= ctl.last

\* The subscription of the run that holds the lease continues the live cursor,
\* unless a gap says that it does not.
TailContiguous ==
  \A p \in Owner :
    Fenced(p) /\ cursor[p] # NoSeq /\ ctl.gap = NoSeq => cursor[p] <= ctl.last

\* What a child has passed of its job's range is staged.
ChildTruthful ==
  \A p \in Owner :
    child[p].job # NoJob =>
      /\ jobs[child[p].job].status # "absent"
      /\ \A s \in jobs[child[p].job].after + 1..child[p].pos : s \in Staged

IInv ==
  /\ TypeOK /\ CoverageAccounted /\ JobCursorTruthful
  /\ PhasesMatch /\ GapOrCursor /\ Bounded /\ TailContiguous /\ ChildTruthful

-----------------------------------------------------------------------------
(* Type correctness. *)

LEMMA SeqFacts ==
  /\ 0 \in Seqs
  /\ \A a, b \in Seqs : Larger(a, b) \in Seqs /\ Smaller(a, b) \in Seqs
  /\ \A a, b \in Seqs \cup {NoSeq} : Least(a, b) \in Seqs \cup {NoSeq}
BY BoundAssumption DEF Seqs, NoSeq, Larger, Smaller, Least

\* Forgetting the child, as every end of a recovery attempt does.
LEMMA NoChildType ==
  ASSUME TypeOK, NEW p \in Owner, child' = [child EXCEPT ![p] = NoChild]
  PROVE  child' \in [Owner -> Child]
<1>1. NoChild \in Child
  BY SeqFacts DEF NoChild, Child
<1> QED BY <1>1 DEF TypeOK

LEMMA TypeInit == Init => TypeOK
<1> SUFFICES ASSUME Init PROVE TypeOK
  OBVIOUS
<1>1. ckpt \in Checkpoint /\ tip \in Seqs /\ floor \in Seqs
  BY BoundAssumption DEF Init, Checkpoint, Seqs
<1>2. ctl \in Controller
  BY SeqFacts DEF Init, Controller, CtlStatus
<1>3. jobs \in [JobId -> Job]
  BY SeqFacts DEF Init, Job, AbsentJob, JobStatus
<1>4. lease \in Lease
  BY DEF Init, Lease
<1>5. child \in [Owner -> Child]
  BY SeqFacts DEF Init, Child, NoChild
<1>6. /\ phase \in [Owner -> Phase] /\ token \in [Owner -> Nat]
      /\ cursor \in [Owner -> Seqs \cup {NoSeq}] /\ lastSeq \in [Owner -> Seqs]
  BY SeqFacts DEF Init, Phase
<1> QED BY <1>1, <1>2, <1>3, <1>4, <1>5, <1>6 DEF Init, TypeOK

LEMMA TypeAcquireLease == ASSUME TypeOK, NEW p \in Owner, AcquireLease(p) PROVE TypeOK'
<1>1. lease' \in Lease
  BY DEF TypeOK, AcquireLease, Lease
<1>2. phase' \in [Owner -> Phase] /\ token' \in [Owner -> Nat]
  BY DEF TypeOK, AcquireLease, Lease, Phase
<1> QED BY <1>1, <1>2 DEF TypeOK, AcquireLease, provider, limits

LEMMA TypeStopLane == ASSUME TypeOK, NEW p \in Owner, StopLane(p) PROVE TypeOK'
<1>1. lease' \in Lease
  BY DEF TypeOK, StopLane, Lease
<1>2. phase' \in [Owner -> Phase] /\ cursor' \in [Owner -> Seqs \cup {NoSeq}]
  BY DEF TypeOK, StopLane, Phase
<1>3. child' \in [Owner -> Child] /\ lastSeq' \in [Owner -> Seqs]
  BY NoChildType, SeqFacts DEF TypeOK, StopLane
<1>4. faults' \in Nat
  BY DEF TypeOK, StopLane, Fault
<1> QED BY <1>1, <1>2, <1>3, <1>4 DEF TypeOK, StopLane, provider, limits

LEMMA TypeStart ==
  ASSUME TypeOK, NEW p \in Owner, StartAutomaticRecovery(p) PROVE TypeOK'
<1>1. Larger(ctl.last, ckpt.seq) \in Seqs
  BY SeqFacts DEF TypeOK, Controller, Checkpoint
<1>2. StartGap \in Seqs \cup {NoSeq}
  BY BoundAssumption DEF TypeOK, Checkpoint, StartGap, Seqs
<1>3. Least(ctl.gap, StartGap) \in Seqs \cup {NoSeq}
  BY <1>2, SeqFacts DEF TypeOK, Controller
<1>4. ctl' \in Controller
  BY <1>1, <1>3 DEF TypeOK, StartAutomaticRecovery, StatusAtStart, Controller, CtlStatus
<1>5. lastSeq' \in [Owner -> Seqs] /\ phase' \in [Owner -> Phase]
  BY <1>1 DEF TypeOK, StartAutomaticRecovery, Phase
<1> QED BY <1>4, <1>5 DEF TypeOK, StartAutomaticRecovery, provider, limits

\* The rows a stage transaction writes are sequences of the model.
LEMMA StageRowsType ==
  ASSUME TypeOK, NEW from \in Seqs \cup {NoSeq}, NEW to \in Seqs, StageRows(from, to)
  PROVE  inbox' \subseteq Seqs /\ poison' \subseteq Seqs
<1>1. from + 1..to \subseteq Seqs
  BY BoundAssumption DEF Seqs, NoSeq
<1> QED BY <1>1 DEF TypeOK, StageRows

LEMMA RegisterSeamType ==
  ASSUME TypeOK, NEW to \in Seqs, RegisterSeam(to) PROVE jobs' \in [JobId -> Job]
<1>1. CASE UNCHANGED jobs
  BY <1>1 DEF TypeOK
<1>2. ASSUME NEW j \in JobId,
             jobs' = [jobs EXCEPT ![j] = [AbsentJob EXCEPT !.status = "pending",
                                            !.after = SeamAfter, !.before = to]]
      PROVE  jobs' \in [JobId -> Job]
  <2>1. SeamAfter \in Seqs
    BY BoundAssumption DEF TypeOK, Controller, SeamAfter, Seqs, NoSeq
  <2>2. AbsentJob \in Job
    BY SeqFacts DEF AbsentJob, Job, JobStatus
  <2>3. "pending" \in JobStatus
    BY DEF JobStatus
  <2>4. [AbsentJob EXCEPT !.status = "pending", !.after = SeamAfter, !.before = to] \in Job
    BY <2>1, <2>2, <2>3 DEF Job
  <2> QED BY <1>2, <2>4 DEF TypeOK
<1> QED BY <1>1, <1>2 DEF RegisterSeam

LEMMA TypeStageLive == ASSUME TypeOK, NEW p \in Owner, StageLive(p) PROVE TypeOK'
<1>1. PICK to \in Seqs, confirmed \in BOOLEAN :
        /\ RegisterSeam(to)
        /\ StageRows(cursor[p], to)
        /\ ctl' = [ctl EXCEPT !.last = to, !.gap = NoSeq,
                     !.status = StatusAfterRows(IF ctl.gap # NoSeq THEN "gap_pending" ELSE ctl.status,
                                                cursor[p], to)]
        /\ ckpt' = [seq |-> Larger(ckpt.seq, to), state |-> "live"]
        /\ cursor' = [cursor EXCEPT ![p] = to]
        /\ lastSeq' = [lastSeq EXCEPT ![p] = IF confirmed THEN to ELSE @]
  BY DEF StageLive
<1>2. cursor[p] \in Seqs \cup {NoSeq} /\ lastSeq[p] \in Seqs /\ ckpt.seq \in Seqs
  BY DEF TypeOK, Checkpoint
<1>3. jobs' \in [JobId -> Job]
  BY <1>1, RegisterSeamType
<1>4. inbox' \subseteq Seqs /\ poison' \subseteq Seqs
  BY <1>1, <1>2, StageRowsType
<1>5. ctl' \in Controller
  BY <1>1 DEF TypeOK, Controller, CtlStatus, StatusAfterRows
<1>6. ckpt' \in Checkpoint
  BY <1>1, <1>2, SeqFacts DEF Checkpoint
<1>7. cursor' \in [Owner -> Seqs \cup {NoSeq}] /\ lastSeq' \in [Owner -> Seqs]
  BY <1>1, <1>2 DEF TypeOK
<1> QED BY <1>3, <1>4, <1>5, <1>6, <1>7 DEF TypeOK, StageLive, provider, limits

LEMMA TypeMark == ASSUME TypeOK, NEW p \in Owner, MarkLiveCursorTooOld(p) PROVE TypeOK'
<1>1. Least(ctl.gap, lastSeq[p]) \in Seqs \cup {NoSeq}
  BY SeqFacts DEF TypeOK, Controller
<1>2. ctl' \in Controller
  BY <1>1 DEF TypeOK, MarkLiveCursorTooOld, Controller, CtlStatus
<1>3. cursor' \in [Owner -> Seqs \cup {NoSeq}]
  BY DEF TypeOK, MarkLiveCursorTooOld
<1> QED BY <1>2, <1>3 DEF TypeOK, MarkLiveCursorTooOld, provider, limits

LEMMA FaultType == ASSUME TypeOK, Fault \/ UNCHANGED faults PROVE faults' \in Nat
BY DEF TypeOK, Fault

LEMMA TypeBlock == ASSUME TypeOK, NEW p \in Owner, BlockSourceDiscontinuity(p) PROVE TypeOK'
<1>1. jobs' \in [JobId -> Job]
  <2>1. ASSUME NEW j \in JobId PROVE [jobs[j] EXCEPT !.status = Blocked] \in Job
    <3>1. jobs[j] \in Job /\ Blocked \in JobStatus
      BY DEF TypeOK, JobStatus
    <3> QED BY <3>1 DEF Job
  <2> QED BY <2>1 DEF TypeOK, BlockSourceDiscontinuity
<1>2. ctl' \in Controller
  BY DEF TypeOK, BlockSourceDiscontinuity, Controller, CtlStatus
<1>3. cursor' \in [Owner -> Seqs \cup {NoSeq}] /\ child' \in [Owner -> Child]
  BY NoChildType DEF TypeOK, BlockSourceDiscontinuity
<1> QED BY <1>1, <1>2, <1>3 DEF TypeOK, BlockSourceDiscontinuity, provider, limits

LEMMA TypeClaim == ASSUME TypeOK, NEW p \in Owner, ClaimRecoveryJob(p) PROVE TypeOK'
<1>1. CASE due /\ UNCHANGED <<ctl, child>>
  <2>1. jobs' \in [JobId -> Job]
    <3>1. jobs' = [j \in JobId |->
                      IF jobs[j].status \in {"absent", "complete", "expired", Blocked} THEN jobs[j]
                      ELSE [jobs[j] EXCEPT !.status = "expired"]] \/ jobs' \in [JobId -> Job]
      BY <1>1 DEF ClaimRecoveryJob, Claimable
    <3>2. \A j \in JobId : jobs[j] \in Job /\ [jobs[j] EXCEPT !.status = "expired"] \in Job
      <4> TAKE j \in JobId
      <4>1. jobs[j] \in Job
        BY DEF TypeOK
      <4>2. "expired" \in JobStatus
        BY DEF JobStatus
      <4> QED BY <4>1, <4>2 DEF Job
    <3> QED BY <3>1, <3>2
  <2> QED BY <1>1, <2>1 DEF TypeOK, ClaimRecoveryJob, provider, limits
<1>2. ASSUME NEW j \in JobId, ~due,
             jobs' = [jobs EXCEPT ![j].status = "replaying", ![j].owner = p, ![j].token = token[p]],
             ctl' = [ctl EXCEPT !.status = "recovering"],
             child' = [child EXCEPT ![p] = [job |-> j, pos |-> ResumePoint(jobs[j])]]
      PROVE  TypeOK'
  <2>1. jobs' \in [JobId -> Job]
    <3>1. jobs[j] \in Job /\ token[p] \in Nat /\ "replaying" \in JobStatus
      BY DEF TypeOK, JobStatus
    <3>2. [jobs[j] EXCEPT !.status = "replaying", !.owner = p, !.token = token[p]] \in Job
      BY <3>1 DEF Job
    <3> QED BY <1>2, <3>2 DEF TypeOK
  <2>2. ctl' \in Controller
    BY <1>2 DEF TypeOK, Controller, CtlStatus
  <2>3. ResumePoint(jobs[j]) \in Seqs
    BY BoundAssumption DEF TypeOK, Job, ResumePoint, Seqs
  <2>4. child' \in [Owner -> Child]
    BY <1>2, <2>3 DEF TypeOK, Child
  <2> QED BY <2>1, <2>2, <2>4 DEF TypeOK, ClaimRecoveryJob, provider, limits
<1> QED BY <1>1, <1>2 DEF ClaimRecoveryJob, Claimable

LEMMA TypeStageJob == ASSUME TypeOK, NEW p \in Owner, StageJob(p) PROVE TypeOK'
<1>1. PICK to \in Seqs : 
    /\ Recovering(p) /\ child[p].pos < to
    /\ StageRows(child[p].pos, to)
    /\ jobs' = [jobs EXCEPT ![child[p].job].last = Larger(@, to)]
    /\ ctl' = [ctl EXCEPT !.status = StatusAfterRows(@, child[p].pos, to)]
    /\ child' = [child EXCEPT ![p].pos = to]
  BY DEF StageJob
<1>2. child[p].job \in JobId
  BY <1>1 DEF TypeOK, Child, Recovering
<1>3. jobs' \in [JobId -> Job]
  BY <1>1, <1>2, SeqFacts DEF TypeOK, Job
<1>4. ctl' \in Controller
  BY <1>1 DEF TypeOK, Controller, CtlStatus, StatusAfterRows
<1>5. child' \in [Owner -> Child]
  <2>1. child[p] \in Child /\ to \in Seqs
    BY <1>1 DEF TypeOK
  <2>2. [child[p] EXCEPT !.pos = to] \in Child
    BY <2>1 DEF Child
  <2> QED BY <1>1, <2>2 DEF TypeOK
<1>6. child[p].pos+1..to \subseteq Seqs
  BY <1>1, BoundAssumption DEF TypeOK, Child, Seqs
<1>7. inbox' \subseteq Seqs /\ poison' \subseteq Seqs
  BY <1>1, <1>6 DEF TypeOK, StageRows
<1> QED BY <1>3, <1>4, <1>5, <1>7 DEF TypeOK, StageJob, provider, limits

LEMMA TypeComplete == ASSUME TypeOK, NEW p \in Owner, CompleteRecoveryJob(p) PROVE TypeOK'
<1>1. child[p].job \in JobId
  BY DEF TypeOK, CompleteRecoveryJob, Recovering, Child
<1>2. jobs' \in [JobId -> Job]
  <2>1. jobs[child[p].job] \in Job /\ "complete" \in JobStatus
    BY <1>1 DEF TypeOK, JobStatus
  <2>2. [jobs[child[p].job] EXCEPT !.status = "complete"] \in Job
    BY <2>1 DEF Job
  <2> QED BY <2>2 DEF TypeOK, CompleteRecoveryJob
<1>3. ctl' \in Controller
  BY DEF TypeOK, CompleteRecoveryJob, Controller, CtlStatus
<1>4. child' \in [Owner -> Child]
  BY NoChildType DEF CompleteRecoveryJob
<1> QED BY <1>2, <1>3, <1>4 DEF TypeOK, CompleteRecoveryJob, provider, limits

LEMMA TypeRelease == ASSUME TypeOK, NEW p \in Owner, ReleaseRecoveryJob(p) PROVE TypeOK'
<1>1. PICK status \in {"pending", "paused_daily", "paused_budget", "expired"} :
        /\ Recovering(p)
        /\ jobs' = IF HoldsJob(p, child[p].job)
                   THEN [jobs EXCEPT ![child[p].job].status = status] ELSE jobs
        /\ ctl' = IF status \in {"paused_budget", "expired"} /\ ctl.status # Blocked
                  THEN [ctl EXCEPT !.status = status] ELSE ctl
  BY DEF ReleaseRecoveryJob
<1>2. jobs' \in [JobId -> Job]
  <2>1. jobs[child[p].job] \in Job /\ status \in JobStatus
    BY <1>1 DEF TypeOK, Child, Recovering, JobStatus
  <2>2. [jobs[child[p].job] EXCEPT !.status = status] \in Job
    BY <2>1 DEF Job
  <2> QED BY <1>1, <2>2 DEF TypeOK
<1>3. ctl' \in Controller
  BY <1>1 DEF TypeOK, Controller, CtlStatus
<1>4. child' \in [Owner -> Child] /\ faults' \in Nat
  BY NoChildType, FaultType DEF ReleaseRecoveryJob
<1> QED BY <1>2, <1>3, <1>4 DEF TypeOK, ReleaseRecoveryJob, provider, limits

\* The steps of the provider and the clock move no row and no run.
LEMMA TypeEnvironment == ASSUME TypeOK, Environment PROVE TypeOK'
<1>1. CASE ExpireLease
  <2>1. lease' \in Lease /\ faults' \in Nat
    BY <1>1, FaultType DEF TypeOK, ExpireLease, Lease
  <2> QED BY <1>1, <2>1 DEF TypeOK, ExpireLease, memory, provider, limits
<1>2. CASE SourceEmits
  <2>1. tip' \in Seqs
    BY <1>2, BoundAssumption DEF TypeOK, SourceEmits, Seqs
  <2> QED BY <1>2, <2>1 DEF TypeOK, SourceEmits, durable, memory, limits
<1>3. CASE BufferDrops
  <2>1. floor' \in Seqs
    BY <1>3, BoundAssumption DEF TypeOK, BufferDrops, Seqs
  <2> QED BY <1>3, <2>1 DEF TypeOK, BufferDrops, durable, memory, limits
<1>4. CASE SourceRegresses
  <2>1. PICK newTip \in 0..tip - 1 : tip' = newTip /\ floor' = Smaller(floor, newTip)
    BY <1>4 DEF SourceRegresses
  <2>2. newTip \in Seqs
    BY <2>1, BoundAssumption DEF TypeOK, Seqs
  <2>3. tip' \in Seqs /\ floor' \in Seqs /\ faults' \in Nat
    BY <1>4, <2>1, <2>2, SeqFacts DEF TypeOK, SourceRegresses, Fault
  <2> QED BY <1>4, <2>3 DEF TypeOK, SourceRegresses, durable, memory, limits
<1>5. CASE CanaryExpires
  BY <1>5 DEF TypeOK, CanaryExpires, durable, memory, provider
<1> QED BY <1>1, <1>2, <1>3, <1>4, <1>5 DEF Environment

LEMMA TypeLaneStep == ASSUME TypeOK, NEW p \in Owner, LaneStep(p) PROVE TypeOK'
<1>1. CASE RenewLease(p)
  BY <1>1 DEF TypeOK, RenewLease, vars, durable, memory, provider, limits
<1>2. CASE Crash(p)
  <2>1. phase' \in [Owner -> Phase] /\ cursor' \in [Owner -> Seqs \cup {NoSeq}] /\ faults' \in Nat
    BY <1>2 DEF TypeOK, Crash, Phase, Fault
  <2>2. child' \in [Owner -> Child] /\ lastSeq' \in [Owner -> Seqs]
    BY <1>2, NoChildType, SeqFacts DEF TypeOK, Crash
  <2> QED BY <1>2, <2>1, <2>2 DEF TypeOK, Crash, durable, provider, limits
<1>3. CASE Subscribe(p)
  <2>1. LiveCursor \in Seqs
    BY DEF TypeOK, LiveCursor, Controller
  <2>2. cursor' \in [Owner -> Seqs \cup {NoSeq}]
    BY <1>3, <2>1 DEF TypeOK, Subscribe
  <2> QED BY <1>3, <2>2 DEF TypeOK, Subscribe, durable, provider, limits
<1>4. CASE HaltOnDiscontinuity(p)
  <2>1. phase' \in [Owner -> Phase] /\ child' \in [Owner -> Child]
    BY <1>4, NoChildType DEF TypeOK, HaltOnDiscontinuity, Phase
  <2> QED BY <1>4, <2>1 DEF TypeOK, HaltOnDiscontinuity, durable, provider, limits
<1>5. CASE Disconnect(p)
  <2>1. cursor' \in [Owner -> Seqs \cup {NoSeq}] /\ faults' \in Nat
    BY <1>5 DEF TypeOK, Disconnect, Fault
  <2> QED BY <1>5, <2>1 DEF TypeOK, Disconnect, durable, provider, limits
<1>6. CASE ReleaseFails(p)
  <2>1. child' \in [Owner -> Child] /\ faults' \in Nat
    BY <1>6, NoChildType, FaultType DEF ReleaseFails
  <2> QED BY <1>6, <2>1 DEF TypeOK, ReleaseFails, durable, provider, limits
<1>7. CASE SpendIncidentBudget(p)
  BY <1>7 DEF TypeOK, SpendIncidentBudget, durable, memory, provider
<1>8. CASE PauseAutomaticRecovery(p)
  <2>1. ctl' \in Controller
    BY <1>8 DEF TypeOK, PauseAutomaticRecovery, Controller, CtlStatus
  <2> QED BY <1>8, <2>1 DEF TypeOK, PauseAutomaticRecovery, memory, provider, limits
<1> QED
  BY <1>1, <1>2, <1>3, <1>4, <1>5, <1>6, <1>7, <1>8, TypeAcquireLease, TypeStopLane,
     TypeStart, TypeStageLive, TypeMark, TypeBlock, TypeClaim, TypeStageJob,
     TypeComplete, TypeRelease
  DEF LaneStep

\* Type correctness: whatever the runs, the provider and the clock do, every row
\* of the lane keeps the columns' ranges (statuses, owners, sequences).
THEOREM TypeCorrect == Spec => []TypeOK
<1>1. TypeOK /\ [Next]_vars => TypeOK'
  <2>1. TypeOK /\ UNCHANGED vars => TypeOK'
    BY DEF TypeOK, vars, durable, memory, provider, limits
  <2> QED BY <2>1, TypeLaneStep, TypeEnvironment DEF Next
<1> QED BY TypeInit, <1>1, PTL DEF Spec

-----------------------------------------------------------------------------
(* The ledger.  Most steps leave every row's claims alone and at most end   *)
(* a subscription or a child: RowsKept and MemoryKept say so, and one lemma *)
(* disposes of all of them.                                                 *)

JobsKept ==
  \A j \in JobId :
    /\ jobs'[j].after = jobs[j].after /\ jobs'[j].before = jobs[j].before
    /\ jobs'[j].last = jobs[j].last
    /\ jobs'[j].status = "absent" <=> jobs[j].status = "absent"
    /\ jobs'[j].status = "complete" <=> jobs[j].status = "complete"

RowsKept ==
  /\ JobsKept
  /\ ctl'.present = ctl.present /\ ctl'.last = ctl.last /\ ctl'.gap = ctl.gap
  /\ UNCHANGED <<ckpt, inbox, poison>>
  /\ \A q \in Owner : lastSeq'[q] = lastSeq[q] \/ lastSeq'[q] = 0

MemoryKept ==
  \A q \in Owner :
    /\ cursor'[q] # NoSeq =>
         cursor'[q] = cursor[q] /\ (Fenced(q)' => Fenced(q)) /\ phase'[q] = "running"
    /\ child'[q].job # NoJob => child'[q] = child[q]
    /\ phase'[q] \in {"running", "halted"} => phase[q] \in {"running", "halted"}

LEMMA RowsKeptLemma ==
  ASSUME IInv, RowsKept
  PROVE  CoverageAccounted' /\ JobCursorTruthful' /\ GapOrCursor' /\ Bounded'
<1>1. Staged' = Staged
  BY DEF RowsKept, Staged
<1>2. \A j \in JobId : Unfinished(j)' = Unfinished(j)
  BY DEF RowsKept, JobsKept, Unfinished
<1>3. \A s : Owed(s)' <=> Owed(s)
  BY <1>2 DEF RowsKept, JobsKept, Owed
<1>4. CoverageAccounted'
  BY <1>1, <1>3 DEF IInv, CoverageAccounted, RowsKept
<1>5. JobCursorTruthful'
  BY <1>1 DEF IInv, JobCursorTruthful, RowsKept, JobsKept
<1>6. GapOrCursor'
  BY DEF IInv, GapOrCursor, RowsKept
<1>7. Bounded'
  <2>1. 0 <= ctl.last
    BY DEF IInv, TypeOK, Controller, Seqs
  <2> QED BY <2>1 DEF IInv, Bounded, RowsKept
<1> QED BY <1>4, <1>5, <1>6, <1>7

LEMMA MemoryKeptLemma ==
  ASSUME IInv, RowsKept, MemoryKept
  PROVE  PhasesMatch' /\ TailContiguous' /\ ChildTruthful'
<1>1. PhasesMatch'
  BY DEF IInv, PhasesMatch, RowsKept, MemoryKept
<1>2. TailContiguous'
  BY DEF IInv, TailContiguous, RowsKept, MemoryKept
<1>3. ChildTruthful'
  <2> SUFFICES ASSUME NEW q \in Owner, child'[q].job # NoJob
               PROVE  /\ jobs'[child'[q].job].status # "absent"
                      /\ \A s \in jobs'[child'[q].job].after + 1..child'[q].pos : s \in Staged'
    BY DEF ChildTruthful
  <2>1. child'[q] = child[q] /\ child[q].job \in JobId
    BY DEF IInv, TypeOK, Child, MemoryKept
  <2>2. Staged' = Staged
    BY DEF RowsKept, Staged
  <2> QED BY <2>1, <2>2 DEF IInv, ChildTruthful, RowsKept, JobsKept
<1> QED BY <1>1, <1>2, <1>3

LEMMA QuietStep == ASSUME IInv, TypeOK', RowsKept, MemoryKept PROVE IInv'
BY RowsKeptLemma, MemoryKeptLemma DEF IInv

\* One fence is held at a time: lease owners are distinct runs.
LEMMA OneFence == ASSUME NEW p \in Owner, NEW q \in Owner, Fenced(p), Fenced(q) PROVE p = q
BY DEF Fenced

\* A stage transaction stages or records exactly the rows of its batch.
LEMMA RowsStaged ==
  ASSUME NEW from, NEW to, StageRows(from, to) PROVE Staged' = Staged \cup (from + 1..to)
BY DEF StageRows, Staged

LEMMA InvAcquireLease == ASSUME IInv, TypeOK', NEW p \in Owner, AcquireLease(p) PROVE IInv'
<1>1. RowsKept
  BY DEF AcquireLease, RowsKept, JobsKept
<1>2. cursor[p] = NoSeq
  BY DEF AcquireLease, IInv, PhasesMatch
<1>3. ASSUME NEW q \in Owner, q # p PROVE ~Fenced(q)'
  BY <1>3 DEF AcquireLease, Fenced
<1>4. \A q \in Owner : cursor'[q] # NoSeq =>
        cursor'[q] = cursor[q] /\ ~Fenced(q)' /\ phase'[q] = "running"
  BY <1>2, <1>3 DEF AcquireLease, IInv, TypeOK, PhasesMatch
<1>5. \A q \in Owner :
        child'[q] = child[q]
        /\ (phase'[q] \in {"running", "halted"} => phase[q] \in {"running", "halted"})
  BY DEF AcquireLease, IInv, TypeOK
<1>6. MemoryKept
  BY <1>4, <1>5 DEF MemoryKept
<1> QED BY <1>1, <1>6, QuietStep

LEMMA InvStopLane == ASSUME IInv, TypeOK', NEW p \in Owner, StopLane(p) PROVE IInv'
<1>1. RowsKept
  BY DEF StopLane, RowsKept, JobsKept, IInv, TypeOK, durable, memory, provider, limits
<1>2. MemoryKept
  BY DEF StopLane, MemoryKept, NoChild, Fenced, IInv, TypeOK, PhasesMatch, durable, memory, provider, limits
<1> QED BY <1>1, <1>2, QuietStep

LEMMA InvCrash == ASSUME IInv, TypeOK', NEW p \in Owner, Crash(p) PROVE IInv'
<1>1. RowsKept
  BY DEF Crash, RowsKept, JobsKept, IInv, TypeOK, durable, memory, provider, limits
<1>2. MemoryKept
  BY DEF Crash, MemoryKept, NoChild, Fenced, IInv, TypeOK, PhasesMatch, durable, memory, provider, limits
<1> QED BY <1>1, <1>2, QuietStep

LEMMA InvHalt == ASSUME IInv, TypeOK', NEW p \in Owner, HaltOnDiscontinuity(p) PROVE IInv'
<1>1. RowsKept
  BY DEF HaltOnDiscontinuity, RowsKept, JobsKept, durable, memory, provider, limits
<1>2. MemoryKept
  BY DEF HaltOnDiscontinuity, MemoryKept, NoChild, Fenced, IInv, TypeOK, PhasesMatch, durable, memory, provider, limits
<1> QED BY <1>1, <1>2, QuietStep

LEMMA InvDisconnect == ASSUME IInv, TypeOK', NEW p \in Owner, Disconnect(p) PROVE IInv'
<1>1. RowsKept
  BY DEF Disconnect, RowsKept, JobsKept, durable, memory, provider, limits
<1>2. MemoryKept
  BY DEF Disconnect, MemoryKept, NoChild, Fenced, IInv, TypeOK, PhasesMatch, durable, memory, provider, limits
<1> QED BY <1>1, <1>2, QuietStep

LEMMA InvReleaseFails == ASSUME IInv, TypeOK', NEW p \in Owner, ReleaseFails(p) PROVE IInv'
<1>1. RowsKept
  BY DEF ReleaseFails, RowsKept, JobsKept, durable, memory, provider, limits
<1>2. MemoryKept
  BY DEF ReleaseFails, MemoryKept, NoChild, Fenced, IInv, TypeOK, PhasesMatch, durable, memory, provider, limits
<1> QED BY <1>1, <1>2, QuietStep

LEMMA InvSpend == ASSUME IInv, TypeOK', NEW p \in Owner, SpendIncidentBudget(p) PROVE IInv'
<1>1. RowsKept
  BY DEF SpendIncidentBudget, RowsKept, JobsKept, durable, memory, provider, limits
<1>2. MemoryKept
  BY DEF SpendIncidentBudget, MemoryKept, NoChild, Fenced, IInv, TypeOK, PhasesMatch, durable, memory, provider, limits
<1> QED BY <1>1, <1>2, QuietStep

LEMMA InvPause == ASSUME IInv, TypeOK', NEW p \in Owner, PauseAutomaticRecovery(p) PROVE IInv'
<1>1. RowsKept
  BY DEF PauseAutomaticRecovery, RowsKept, JobsKept, durable, memory, provider, limits
<1>2. MemoryKept
  BY DEF PauseAutomaticRecovery, MemoryKept, NoChild, Fenced, IInv, TypeOK, PhasesMatch, durable, memory, provider, limits
<1> QED BY <1>1, <1>2, QuietStep

LEMMA InvBlock == ASSUME IInv, TypeOK', NEW p \in Owner, BlockSourceDiscontinuity(p) PROVE IInv'
<1>1. RowsKept
  BY DEF BlockSourceDiscontinuity, Blocked, RowsKept, JobsKept, durable, memory, provider, limits
<1>2. MemoryKept
  BY DEF BlockSourceDiscontinuity, Blocked, MemoryKept, NoChild, Fenced, IInv, TypeOK, PhasesMatch, durable, memory, provider, limits
<1> QED BY <1>1, <1>2, QuietStep

LEMMA InvRelease == ASSUME IInv, TypeOK', NEW p \in Owner, ReleaseRecoveryJob(p) PROVE IInv'
<1>1. RowsKept
  BY DEF ReleaseRecoveryJob, HoldsJob, Recovering, RowsKept, JobsKept, durable, memory, provider, limits
<1>2. MemoryKept
  BY DEF ReleaseRecoveryJob, HoldsJob, Recovering, MemoryKept, NoChild, Fenced, IInv, TypeOK, PhasesMatch, durable, memory, provider, limits
<1> QED BY <1>1, <1>2, QuietStep

LEMMA InvExpireLease == ASSUME IInv, TypeOK', ExpireLease PROVE IInv'
<1>1. RowsKept
  BY DEF ExpireLease, RowsKept, JobsKept, durable, memory, provider, limits
<1>2. MemoryKept
  BY DEF ExpireLease, MemoryKept, NoChild, Fenced, IInv, TypeOK, PhasesMatch, durable, memory, provider, limits
<1> QED BY <1>1, <1>2, QuietStep

LEMMA InvStutter == ASSUME IInv, TypeOK', UNCHANGED <<durable, memory>> PROVE IInv'
<1>1. RowsKept
  BY DEF durable, RowsKept, JobsKept, durable, memory, provider, limits
<1>2. MemoryKept
  BY DEF durable, MemoryKept, NoChild, Fenced, IInv, TypeOK, PhasesMatch, durable, memory, provider, limits
<1> QED BY <1>1, <1>2, QuietStep

-----------------------------------------------------------------------------
(* The steps that move a cursor, a gap, a job or a child.                  *)

\* Facts about the numbers IInv compares.
LEMMA Ranges ==
  ASSUME TypeOK
  PROVE  /\ ctl.last \in Nat /\ ckpt.seq \in Nat /\ Bootstrap \in Nat
         /\ ctl.gap \in Nat \cup {-1}
         /\ \A q \in Owner : cursor[q] \in Nat \cup {-1} /\ lastSeq[q] \in Nat
                             /\ child[q].pos \in Nat /\ child[q].job \in JobId \cup {NoJob}
         /\ \A j \in JobId : jobs[j].after \in Nat /\ jobs[j].before \in Nat /\ jobs[j].last \in Nat
<1>1. Seqs \subseteq Nat /\ Seqs \cup {NoSeq} \subseteq Nat \cup {-1}
  BY BoundAssumption DEF Seqs, NoSeq
<1>2. ctl.last \in Seqs /\ ckpt.seq \in Seqs /\ ctl.gap \in Seqs \cup {NoSeq}
  BY DEF TypeOK, Controller, Checkpoint
<1>3. \A q \in Owner : cursor[q] \in Seqs \cup {NoSeq} /\ lastSeq[q] \in Seqs
                       /\ child[q].pos \in Seqs /\ child[q].job \in JobId \cup {NoJob}
  BY DEF TypeOK, Child
<1>4. \A j \in JobId : jobs[j].after \in Seqs /\ jobs[j].before \in Seqs /\ jobs[j].last \in Seqs
  BY DEF TypeOK, Job
<1> QED BY <1>1, <1>2, <1>3, <1>4, BoundAssumption

LEMMA InvInit == Init => IInv
<1> SUFFICES ASSUME Init PROVE IInv
  OBVIOUS
<1>1. TypeOK
  BY TypeInit
<1>2. CoverageAccounted
  BY BoundAssumption DEF Init, CoverageAccounted
<1>3. JobCursorTruthful
  <2> SUFFICES ASSUME NEW j \in JobId
               PROVE  /\ \A s \in jobs[j].after + 1..jobs[j].last : s \in Staged
                      /\ jobs[j].status # "complete"
    BY DEF JobCursorTruthful
  <2>1. jobs[j].after = 0 /\ jobs[j].last = 0 /\ jobs[j].status = "absent"
    BY DEF Init, AbsentJob
  <2> QED BY <2>1
<1>4. PhasesMatch /\ TailContiguous /\ ChildTruthful
  BY DEF Init, NoChild, PhasesMatch, TailContiguous, ChildTruthful
<1>5. GapOrCursor
  BY BoundAssumption DEF Init, GapOrCursor
<1>6. Bounded
  BY BoundAssumption DEF Init, Bounded, NoSeq
<1> QED BY <1>1, <1>2, <1>3, <1>4, <1>5, <1>6 DEF IInv

\* Rows that are only added to keep every claim about the old ones.
LEMMA ClaimsKept ==
  ASSUME IInv, JobsKept, Staged \subseteq Staged' PROVE JobCursorTruthful'
BY DEF IInv, JobCursorTruthful, JobsKept

LEMMA ChildrenKept ==
  ASSUME IInv, JobsKept, Staged \subseteq Staged', UNCHANGED child PROVE ChildTruthful'
<1> SUFFICES ASSUME NEW q \in Owner, child[q].job # NoJob
             PROVE  /\ jobs'[child[q].job].status # "absent"
                    /\ \A s \in jobs'[child[q].job].after + 1..child[q].pos : s \in Staged'
  BY DEF ChildTruthful
<1>1. child[q].job \in JobId
  BY DEF IInv, TypeOK, Child
<1> QED BY <1>1 DEF IInv, ChildTruthful, JobsKept

LEMMA InvStart ==
  ASSUME IInv, TypeOK', NEW p \in Owner, StartAutomaticRecovery(p) PROVE IInv'
<1>1. /\ phase[p] = "held" /\ Fenced(p)
      /\ ctl'.present = TRUE /\ ctl'.last = Larger(ctl.last, ckpt.seq)
      /\ ctl'.gap = Least(ctl.gap, StartGap)
      /\ lastSeq' = [lastSeq EXCEPT ![p] = ctl'.last]
      /\ phase' = [phase EXCEPT ![p] = "running"]
      /\ UNCHANGED <<lease, ckpt, jobs, inbox, poison, token, cursor, child>>
  BY DEF StartAutomaticRecovery
<1>2. JobsKept /\ Staged' = Staged /\ \A j \in JobId : Unfinished(j)' = Unfinished(j)
  BY <1>1 DEF JobsKept, Staged, Unfinished
<1>3. JobCursorTruthful' /\ ChildTruthful'
  BY <1>1, <1>2, ClaimsKept, ChildrenKept
<1>4. PhasesMatch'
  BY <1>1 DEF IInv, TypeOK, PhasesMatch
<1>5. /\ ctl.last <= ctl'.last /\ ckpt.seq <= ctl'.last
      /\ ctl'.last = ctl.last \/ ctl'.last = ckpt.seq
  BY <1>1, Ranges DEF IInv, Larger
<1>6. /\ StartGap \in Nat \cup {-1}
      /\ StartGap = -1 => ckpt.state = "live"
      /\ StartGap = -1 \/ StartGap = Bootstrap \/ StartGap = ckpt.seq
  BY Ranges DEF IInv, TypeOK, Checkpoint, StartGap, NoSeq
<1>7. /\ ctl.gap # NoSeq => ctl'.gap # NoSeq /\ ctl'.gap <= ctl.gap
      /\ ctl'.gap = NoSeq => StartGap = -1
      /\ ctl'.gap = ctl.gap \/ ctl'.gap = StartGap
  BY <1>1, <1>6, Ranges DEF IInv, Least, Smaller, NoSeq
<1>8. GapOrCursor'
  BY <1>1, <1>5, <1>6, <1>7, Ranges DEF IInv, GapOrCursor
<1>9. Bounded'
  <2>1. \A q \in Owner : lastSeq'[q] <= ctl'.last
    BY <1>1, <1>5, Ranges DEF IInv, TypeOK, Bounded
  <2>2. ctl'.gap <= ctl'.last \/ ctl'.gap <= Bootstrap
    BY <1>5, <1>6, <1>7, Ranges DEF IInv, Bounded
  <2> QED BY <1>1, <1>5, <2>1, <2>2 DEF Bounded
<1>10. TailContiguous'
  <2> SUFFICES ASSUME NEW q \in Owner, Fenced(q)', cursor'[q] # NoSeq PROVE FALSE
    BY DEF TailContiguous
  <2>1. Fenced(q) /\ cursor[q] # NoSeq
    BY <1>1 DEF Fenced
  <2>2. q = p
    BY <1>1, <2>1, OneFence
  <2> QED BY <1>1, <2>1, <2>2 DEF IInv, PhasesMatch
<1>11. CoverageAccounted'
  <2> SUFFICES ASSUME NEW s \in Bootstrap + 1..ctl'.last PROVE s \in Staged' \/ Owed(s)'
    BY DEF CoverageAccounted
  <2>1. s \in Bootstrap + 1..ctl.last
    BY <1>5, Ranges DEF IInv, Bounded
  <2>2. s \in Staged \/ Owed(s)
    BY <2>1 DEF IInv, CoverageAccounted
  <2>3. Owed(s) => Owed(s)'
    <3>1. CASE ctl.gap # NoSeq /\ ctl.gap < s
      <4>1. ctl'.gap # NoSeq /\ ctl'.gap < s
        BY <1>6, <1>7, <2>1, <3>1, Ranges DEF IInv, NoSeq
      <4> QED BY <4>1 DEF Owed
    <3>2. CASE \E j \in JobId : Unfinished(j) /\ jobs[j].after < s /\ s <= jobs[j].before
      BY <1>1, <1>2, <3>2 DEF Owed
    <3> QED BY <3>1, <3>2 DEF Owed
  <2> QED BY <1>2, <2>2, <2>3
<1> QED BY <1>3, <1>4, <1>8, <1>9, <1>10, <1>11 DEF IInv

LEMMA InvSubscribe == ASSUME IInv, TypeOK', NEW p \in Owner, Subscribe(p) PROVE IInv'
<1>1. RowsKept
  BY DEF Subscribe, RowsKept, JobsKept, durable
<1>2. CoverageAccounted' /\ JobCursorTruthful' /\ GapOrCursor' /\ Bounded'
  BY <1>1, RowsKeptLemma
<1>3. PhasesMatch'
  BY DEF Subscribe, IInv, TypeOK, PhasesMatch, durable
<1>4. ChildTruthful'
  <2>1. JobsKept /\ Staged' = Staged /\ UNCHANGED child
    BY DEF Subscribe, JobsKept, Staged, durable
  <2> QED BY <2>1, ChildrenKept
<1>5. TailContiguous'
  <2> SUFFICES ASSUME NEW q \in Owner, Fenced(q)', cursor'[q] # NoSeq, ctl'.gap = NoSeq
               PROVE  cursor'[q] <= ctl'.last
    BY DEF TailContiguous
  <2>1. ctl' = ctl /\ Fenced(q) /\ cursor' = [cursor EXCEPT ![p] = LiveCursor]
    BY DEF Subscribe, durable, Fenced
  <2>2. CASE q = p
    <3>1. ctl.present /\ ctl.last > 0
      BY <2>1 DEF Subscribe, IInv, PhasesMatch, GapOrCursor
    <3>2. LiveCursor = ctl.last
      BY <2>1, <3>1, Ranges DEF IInv, LiveCursor, Resumes
    <3> QED BY <2>1, <2>2, <3>2, Ranges DEF IInv, TypeOK
  <2>3. CASE q # p
    BY <2>1, <2>3 DEF IInv, TypeOK, TailContiguous
  <2> QED BY <2>2, <2>3
<1> QED BY <1>2, <1>3, <1>4, <1>5 DEF IInv

LEMMA InvMark == ASSUME IInv, TypeOK', NEW p \in Owner, MarkLiveCursorTooOld(p) PROVE IInv'
<1>1. /\ ctl.gap = NoSeq /\ ctl'.gap = lastSeq[p]
      /\ ctl'.last = ctl.last /\ ctl'.present = ctl.present
      /\ cursor' = [cursor EXCEPT ![p] = NoSeq]
      /\ UNCHANGED <<lease, ckpt, jobs, inbox, poison, phase, token, lastSeq, child>>
  <2>1. ctl.gap = NoSeq /\ ctl.status # Blocked
    BY DEF MarkLiveCursorTooOld, Presents
  <2>2. Least(ctl.gap, lastSeq[p]) = lastSeq[p]
    BY <2>1 DEF Least
  <2>3. ctl' = [ctl EXCEPT !.gap = lastSeq[p], !.status = "gap_pending"]
    BY <2>1, <2>2 DEF MarkLiveCursorTooOld
  <2>4. ctl \in Controller
    BY DEF IInv, TypeOK
  <2>5. ctl'.gap = lastSeq[p] /\ ctl'.last = ctl.last /\ ctl'.present = ctl.present
    BY <2>3, <2>4 DEF Controller
  <2> QED BY <2>1, <2>5 DEF MarkLiveCursorTooOld
<1>2. JobsKept /\ Staged' = Staged /\ \A j \in JobId : Unfinished(j)' = Unfinished(j)
  BY <1>1 DEF JobsKept, Staged, Unfinished
<1>3. JobCursorTruthful' /\ ChildTruthful'
  BY <1>1, <1>2, ClaimsKept, ChildrenKept
<1>4. PhasesMatch'
  BY <1>1 DEF IInv, TypeOK, PhasesMatch
<1>5. ctl'.gap # NoSeq /\ lastSeq[p] <= ctl.last
  BY <1>1, Ranges DEF IInv, Bounded, NoSeq
<1>6. GapOrCursor' /\ Bounded' /\ TailContiguous'
  BY <1>1, <1>5 DEF IInv, GapOrCursor, Bounded, TailContiguous
<1>7. CoverageAccounted'
  BY <1>1, <1>2 DEF IInv, CoverageAccounted, Owed
<1> QED BY <1>3, <1>4, <1>6, <1>7 DEF IInv


LEMMA InvClaim == ASSUME IInv, TypeOK', NEW p \in Owner, ClaimRecoveryJob(p) PROVE IInv'
<1>1. CASE /\ due /\ UNCHANGED <<ctl, child>>
           /\ jobs' = [j \in JobId |->
                IF jobs[j].status \in {"absent", "complete", "expired", Blocked} THEN jobs[j]
                ELSE [jobs[j] EXCEPT !.status = "expired"]]
  <2>1. JobsKept
    BY <1>1 DEF IInv, TypeOK, Job, JobsKept, Blocked
  <2>2. RowsKept
    BY <1>1, <2>1 DEF ClaimRecoveryJob, RowsKept
  <2>3. MemoryKept
    BY <1>1 DEF ClaimRecoveryJob, MemoryKept, NoChild, Fenced, IInv, PhasesMatch
  <2> QED BY <2>2, <2>3, QuietStep
<1>2. ASSUME NEW j \in JobId, Claimable(p, j),
             jobs' = [jobs EXCEPT ![j].status = "replaying", ![j].owner = p, ![j].token = token[p]],
             ctl' = [ctl EXCEPT !.status = "recovering"],
             child' = [child EXCEPT ![p] = [job |-> j, pos |-> ResumePoint(jobs[j])]],
             UNCHANGED <<lease, ckpt, inbox, poison, phase, token, cursor, lastSeq>>
      PROVE  IInv'
  <2>1. jobs[j].status \notin {"absent", "complete"}
    BY <1>2 DEF Claimable
  <2>2. JobsKept
    BY <1>2, <2>1 DEF IInv, TypeOK, Job, JobsKept
  <2>3. RowsKept
    BY <1>2, <2>2 DEF IInv, TypeOK, Controller, RowsKept
  <2>4. CoverageAccounted' /\ JobCursorTruthful' /\ GapOrCursor' /\ Bounded'
    BY <2>3, RowsKeptLemma
  <2>5. PhasesMatch' /\ TailContiguous'
    BY <1>2, <2>3 DEF IInv, PhasesMatch, TailContiguous, Fenced, RowsKept
  <2>6. ChildTruthful'
    <3> SUFFICES ASSUME NEW q \in Owner, child'[q].job # NoJob
                 PROVE  /\ jobs'[child'[q].job].status # "absent"
                        /\ \A s \in jobs'[child'[q].job].after + 1..child'[q].pos : s \in Staged'
      BY DEF ChildTruthful
    <3>1. Staged' = Staged
      BY <1>2 DEF Staged
    <3>2. CASE q = p
      <4>1. child'[q].job = j /\ child'[q].pos = ResumePoint(jobs[j])
        BY <1>2, <3>2 DEF IInv, TypeOK
      <4>2. jobs[j].after + 1..ResumePoint(jobs[j]) \subseteq jobs[j].after + 1..jobs[j].last
        BY Ranges DEF IInv, ResumePoint
      <4>3. jobs'[j].after = jobs[j].after /\ jobs'[j].status # "absent"
        BY <2>1, <2>2 DEF JobsKept
      <4> QED BY <3>1, <4>1, <4>2, <4>3 DEF IInv, JobCursorTruthful
    <3>3. CASE q # p
      <4>1. child'[q] = child[q] /\ child[q].job \in JobId
        BY <1>2, <3>3 DEF IInv, TypeOK, Child
      <4> QED BY <2>2, <3>1, <4>1 DEF IInv, ChildTruthful, JobsKept
    <3> QED BY <3>2, <3>3
  <2> QED BY <2>4, <2>5, <2>6 DEF IInv
<1> QED BY <1>1, <1>2 DEF ClaimRecoveryJob

LEMMA InvStageJob == ASSUME IInv, TypeOK', NEW p \in Owner, StageJob(p) PROVE IInv'
<1> DEFINE j == child[p].job
<1>1. PICK to \in Seqs :
        /\ Recovering(p) /\ MayStageJob(p, j)
        /\ child[p].pos < to
        /\ StageRows(child[p].pos, to)
        /\ jobs' = [jobs EXCEPT ![j].last = Larger(@, to)]
        /\ ctl' = [ctl EXCEPT !.status = StatusAfterRows(@, child[p].pos, to)]
        /\ child' = [child EXCEPT ![p].pos = to]
        /\ UNCHANGED <<lease, ckpt, phase, token, cursor, lastSeq>>
  BY DEF StageJob
<1>2. j \in JobId /\ jobs[j].status = "replaying" /\ to \in Nat
  BY <1>1, BoundAssumption DEF IInv, TypeOK, Child, Recovering, MayStageJob, HoldsJob, Seqs
<1>3. /\ \A i \in JobId : jobs'[i].after = jobs[i].after /\ jobs'[i].before = jobs[i].before
                          /\ jobs'[i].status = jobs[i].status
      /\ \A i \in JobId \ {j} : jobs'[i] = jobs[i]
      /\ jobs'[j].last = Larger(jobs[j].last, to)
  BY <1>1, <1>2 DEF IInv, TypeOK, Job
<1>4. ctl'.last = ctl.last /\ ctl'.gap = ctl.gap /\ ctl'.present = ctl.present
  BY <1>1 DEF IInv, TypeOK, Controller
<1>5. Staged' = Staged \cup (child[p].pos + 1..to)
  BY <1>1, RowsStaged
<1>6. \A s \in jobs[j].after + 1..to : s \in Staged'
  <2> SUFFICES ASSUME NEW s \in jobs[j].after + 1..to PROVE s \in Staged'
    OBVIOUS
  <2>1. CASE s <= child[p].pos
    <3>1. s \in jobs[j].after + 1..child[p].pos
      BY <1>2, <2>1, Ranges DEF IInv
    <3> QED BY <1>1, <1>5, <3>1 DEF IInv, ChildTruthful, Recovering
  <2>2. CASE ~(s <= child[p].pos)
    BY <1>2, <1>5, <2>2, Ranges DEF IInv
  <2> QED BY <2>1, <2>2
<1>7. CoverageAccounted'
  <2>1. \A s : Owed(s)' <=> Owed(s)
    BY <1>3, <1>4 DEF Owed, Unfinished
  <2> QED BY <1>4, <1>5, <2>1 DEF IInv, CoverageAccounted
<1>8. JobCursorTruthful'
  <2> SUFFICES ASSUME NEW i \in JobId
               PROVE  /\ \A s \in jobs'[i].after + 1..jobs'[i].last : s \in Staged'
                      /\ jobs'[i].status = "complete" => jobs'[i].after + 1..jobs'[i].before \subseteq Staged'
    BY DEF JobCursorTruthful
  <2>1. CASE i # j
    BY <1>3, <1>5, <2>1 DEF IInv, JobCursorTruthful
  <2>2. CASE i = j
    <3>1. jobs'[j].status # "complete"
      BY <1>2, <1>3
    <3>2. jobs'[j].last = jobs[j].last \/ jobs'[j].last = to
      BY <1>3 DEF Larger
    <3>3. \A s \in jobs[j].after + 1..jobs[j].last : s \in Staged'
      BY <1>2, <1>5 DEF IInv, JobCursorTruthful
    <3> QED BY <1>2, <1>3, <1>6, <2>2, <3>1, <3>2, <3>3
  <2> QED BY <2>1, <2>2
<1>9. ChildTruthful'
  <2> SUFFICES ASSUME NEW q \in Owner, child'[q].job # NoJob
               PROVE  /\ jobs'[child'[q].job].status # "absent"
                      /\ \A s \in jobs'[child'[q].job].after + 1..child'[q].pos : s \in Staged'
    BY DEF ChildTruthful
  <2>1. CASE q = p
    <3>1. child'[q].job = j /\ child'[q].pos = to
      BY <1>1, <2>1 DEF IInv, TypeOK, Child
    <3> QED BY <1>2, <1>3, <1>6, <3>1
  <2>2. CASE q # p
    <3>1. child'[q] = child[q] /\ child[q].job \in JobId
      BY <1>1, <2>2 DEF IInv, TypeOK, Child
    <3> QED BY <1>3, <1>5, <3>1 DEF IInv, ChildTruthful
  <2> QED BY <2>1, <2>2
<1>10. PhasesMatch' /\ GapOrCursor' /\ Bounded' /\ TailContiguous'
  BY <1>1, <1>4 DEF IInv, PhasesMatch, GapOrCursor, Bounded, TailContiguous, Fenced
<1> QED BY <1>7, <1>8, <1>9, <1>10 DEF IInv

LEMMA InvComplete ==
  ASSUME IInv, TypeOK', NEW p \in Owner, CompleteRecoveryJob(p) PROVE IInv'
<1> DEFINE j == child[p].job
<1>1. /\ Recovering(p) /\ MayStageJob(p, j) /\ child[p].pos = jobs[j].before
      /\ jobs' = [jobs EXCEPT ![j].status = "complete"]
      /\ child' = [child EXCEPT ![p] = NoChild]
      /\ UNCHANGED <<lease, ckpt, inbox, poison, phase, token, cursor, lastSeq>>
  BY DEF CompleteRecoveryJob, ReachedBound
<1>2. j \in JobId /\ jobs[j].status = "replaying"
  BY <1>1 DEF IInv, TypeOK, Child, Recovering, MayStageJob, HoldsJob
<1>3. /\ \A i \in JobId : jobs'[i].after = jobs[i].after /\ jobs'[i].before = jobs[i].before
                          /\ jobs'[i].last = jobs[i].last
      /\ \A i \in JobId \ {j} : jobs'[i] = jobs[i]
      /\ jobs'[j].status = "complete"
  BY <1>1, <1>2 DEF IInv, TypeOK, Job
<1>4. ctl'.last = ctl.last /\ ctl'.gap = ctl.gap /\ ctl'.present = ctl.present
  BY DEF CompleteRecoveryJob, IInv, TypeOK, Controller
<1>5. Staged' = Staged
  BY <1>1 DEF Staged
<1>6. jobs[j].after + 1..jobs[j].before \subseteq Staged
  BY <1>1 DEF IInv, ChildTruthful, Recovering
<1>7. CoverageAccounted'
  <2> SUFFICES ASSUME NEW s \in Bootstrap + 1..ctl.last PROVE s \in Staged \/ Owed(s)'
    BY <1>4, <1>5 DEF CoverageAccounted
  <2>1. CASE s \in jobs[j].after + 1..jobs[j].before
    BY <1>6, <2>1
  <2>2. CASE s \notin jobs[j].after + 1..jobs[j].before
    <3>1. ~(jobs[j].after < s /\ s <= jobs[j].before)
      BY <1>2, <2>2, Ranges DEF IInv
    <3>2. \A i \in JobId \ {j} : Unfinished(i)' = Unfinished(i)
      BY <1>3 DEF Unfinished
    <3>3. Owed(s) => Owed(s)'
      BY <1>3, <1>4, <3>1, <3>2 DEF Owed
    <3> QED BY <3>3 DEF IInv, CoverageAccounted
  <2> QED BY <2>1, <2>2
<1>8. JobCursorTruthful'
  BY <1>3, <1>5, <1>6 DEF IInv, JobCursorTruthful
<1>9. ChildTruthful'
  <2> SUFFICES ASSUME NEW q \in Owner, child'[q].job # NoJob
               PROVE  /\ jobs'[child'[q].job].status # "absent"
                      /\ \A s \in jobs'[child'[q].job].after + 1..child'[q].pos : s \in Staged'
    BY DEF ChildTruthful
  <2>1. child'[q] = child[q] /\ child[q].job \in JobId
    BY <1>1 DEF IInv, TypeOK, Child, NoChild
  <2> QED BY <1>2, <1>3, <1>5, <2>1 DEF IInv, ChildTruthful
<1>10. PhasesMatch' /\ GapOrCursor' /\ Bounded' /\ TailContiguous'
  BY <1>1, <1>4 DEF IInv, PhasesMatch, GapOrCursor, Bounded, TailContiguous, Fenced
<1> QED BY <1>7, <1>8, <1>9, <1>10 DEF IInv


\* Registering the seam adds a pending job or none; an owed gap has its job after.
LEMMA SeamRegistered ==
  ASSUME TypeOK, NEW to \in Nat, RegisterSeam(to)
  PROVE  /\ \A j \in JobId : jobs[j].status # "absent" => jobs'[j] = jobs[j]
         /\ \A j \in JobId : jobs'[j] = jobs[j]
                             \/ (jobs'[j].status = "pending" /\ jobs'[j].last = 0)
         /\ ctl.gap = NoSeq => jobs' = jobs
         /\ ctl.gap # NoSeq => \E j \in JobId : /\ jobs'[j].status # "absent"
                                                /\ jobs'[j].after = SeamAfter /\ jobs'[j].before = to
<1>1. CASE /\ UNCHANGED jobs
           /\ ctl.gap # NoSeq => \E j \in JobId : /\ jobs[j].status # "absent"
                                                  /\ jobs[j].after = SeamAfter /\ jobs[j].before = to
  BY <1>1
<1>2. ASSUME NEW j \in JobId, jobs[j].status = "absent", ctl.gap # NoSeq,
             jobs' = [jobs EXCEPT ![j] = [AbsentJob EXCEPT !.status = "pending",
                                            !.after = SeamAfter, !.before = to]]
      PROVE  /\ \A i \in JobId \ {j} : jobs'[i] = jobs[i]
             /\ jobs'[j].status = "pending" /\ jobs'[j].last = 0
             /\ jobs'[j].after = SeamAfter /\ jobs'[j].before = to
  BY <1>2 DEF TypeOK, AbsentJob
<1>3. ASSUME ~(/\ UNCHANGED jobs
               /\ ctl.gap # NoSeq => \E j \in JobId : /\ jobs[j].status # "absent"
                                                      /\ jobs[j].after = SeamAfter /\ jobs[j].before = to)
      PROVE  \E j \in JobId :
               /\ jobs[j].status = "absent" /\ ctl.gap # NoSeq
               /\ jobs' = [jobs EXCEPT ![j] = [AbsentJob EXCEPT !.status = "pending",
                                                 !.after = SeamAfter, !.before = to]]
  BY <1>3 DEF RegisterSeam
<1> QED BY <1>1, <1>2, <1>3

LEMMA InvStageLive == ASSUME IInv, TypeOK', NEW p \in Owner, StageLive(p) PROVE IInv'
<1>1. PICK to \in Seqs, confirmed \in BOOLEAN :
        /\ Working(p)
        /\ cursor[p] # NoSeq /\ cursor[p] < to
        /\ SeamAccepts(to)
        /\ RegisterSeam(to)
        /\ StageRows(cursor[p], to)
        /\ ctl' = [ctl EXCEPT !.last = to, !.gap = NoSeq,
                     !.status = StatusAfterRows(IF ctl.gap # NoSeq THEN "gap_pending" ELSE ctl.status,
                                                cursor[p], to)]
        /\ ckpt' = [seq |-> Larger(ckpt.seq, to), state |-> "live"]
        /\ cursor' = [cursor EXCEPT ![p] = to]
        /\ lastSeq' = [lastSeq EXCEPT ![p] = IF confirmed THEN to ELSE @]
        /\ UNCHANGED <<lease, phase, token, child>>
  BY DEF StageLive
<1>2. to \in Nat /\ ctl.last <= to /\ ctl.gap < to /\ cursor[p] \in Nat /\ to > 0
  BY <1>1, Ranges, BoundAssumption DEF IInv, SeamAccepts, Seqs, NoSeq
<1>3. ctl'.last = to /\ ctl'.gap = NoSeq /\ ctl'.present = ctl.present
  BY <1>1 DEF IInv, TypeOK, Controller
<1>4. Staged' = Staged \cup (cursor[p] + 1..to)
  BY <1>1, RowsStaged
<1>5. /\ \A j \in JobId : jobs[j].status # "absent" => jobs'[j] = jobs[j]
      /\ \A j \in JobId : jobs'[j] = jobs[j] \/ (jobs'[j].status = "pending" /\ jobs'[j].last = 0)
      /\ ctl.gap = NoSeq => jobs' = jobs
      /\ ctl.gap # NoSeq => \E j \in JobId : /\ jobs'[j].status # "absent"
                                             /\ jobs'[j].after = SeamAfter /\ jobs'[j].before = to
  BY <1>1, <1>2, SeamRegistered DEF IInv
<1>6. JobCursorTruthful'
  <2> SUFFICES ASSUME NEW j \in JobId
               PROVE  /\ \A s \in jobs'[j].after + 1..jobs'[j].last : s \in Staged'
                      /\ jobs'[j].status = "complete" => jobs'[j].after + 1..jobs'[j].before \subseteq Staged'
    BY DEF JobCursorTruthful
  <2>1. CASE jobs'[j] = jobs[j]
    BY <1>4, <2>1 DEF IInv, JobCursorTruthful
  <2>2. CASE jobs'[j].status = "pending" /\ jobs'[j].last = 0
    <3>1. jobs'[j].after \in Nat
      BY BoundAssumption DEF TypeOK, Job, Seqs
    <3> QED BY <2>2, <3>1
  <2> QED BY <1>5, <2>1, <2>2
<1>7. ChildTruthful'
  <2> SUFFICES ASSUME NEW q \in Owner, child[q].job # NoJob
               PROVE  /\ jobs'[child[q].job].status # "absent"
                      /\ \A s \in jobs'[child[q].job].after + 1..child[q].pos : s \in Staged'
    BY <1>1 DEF ChildTruthful
  <2>1. child[q].job \in JobId
    BY DEF IInv, TypeOK, Child
  <2>2. jobs'[child[q].job] = jobs[child[q].job]
    BY <1>5, <2>1 DEF IInv, ChildTruthful
  <2> QED BY <1>4, <2>2 DEF IInv, ChildTruthful
<1>8. PhasesMatch'
  BY <1>1, <1>3 DEF IInv, TypeOK, PhasesMatch, Working
<1>9. GapOrCursor'
  BY <1>1, <1>2, <1>3, Ranges DEF IInv, GapOrCursor, Larger
<1>10. Bounded'
  <2>1. ckpt'.seq <= ctl'.last \/ ckpt'.seq <= Bootstrap
    BY <1>1, <1>2, <1>3, Ranges DEF IInv, Bounded, Larger
  <2>2. \A q \in Owner : lastSeq'[q] <= ctl'.last
    BY <1>1, <1>2, <1>3, Ranges DEF IInv, TypeOK, Bounded
  <2> QED BY <1>2, <1>3, <2>1, <2>2 DEF Bounded, NoSeq
<1>11. TailContiguous'
  <2> SUFFICES ASSUME NEW q \in Owner, Fenced(q)', cursor'[q] # NoSeq
               PROVE  cursor'[q] <= ctl'.last
    BY DEF TailContiguous
  <2>1. Fenced(q)
    BY <1>1 DEF Fenced
  <2>2. q = p
    BY <1>1, <2>1, OneFence DEF Working
  <2> QED BY <1>1, <1>2, <1>3, <2>2 DEF IInv, TypeOK
<1>12. CoverageAccounted'
  <2> SUFFICES ASSUME NEW s \in Bootstrap + 1..to PROVE s \in Staged' \/ Owed(s)'
    BY <1>3 DEF CoverageAccounted
  <2>1. s \in Nat /\ Bootstrap < s /\ s <= to
    BY <1>2, BoundAssumption
  <2>2. CASE cursor[p] < s
    BY <1>2, <1>4, <2>1, <2>2
  <2>3. ASSUME s <= cursor[p], s <= ctl.last, ctl.gap = NoSeq \/ s <= ctl.gap
        PROVE  s \in Staged' \/ Owed(s)'
    <3>1. s \in Staged \/ Owed(s)
      BY <2>1, <2>3, Ranges DEF IInv, CoverageAccounted
    <3>2. ASSUME Owed(s) PROVE Owed(s)'
      <4>1. ~(ctl.gap # NoSeq /\ ctl.gap < s)
        BY <2>1, <2>3, Ranges DEF IInv
      <4>2. PICK j \in JobId : Unfinished(j) /\ jobs[j].after < s /\ s <= jobs[j].before
        BY <3>2, <4>1 DEF Owed
      <4>3. jobs'[j] = jobs[j]
        BY <1>5, <4>2 DEF Unfinished
      <4> QED BY <4>2, <4>3 DEF Owed, Unfinished
    <3> QED BY <1>4, <3>1, <3>2
  <2>4. CASE s <= cursor[p] /\ ctl.gap = NoSeq
    <3>1. cursor[p] <= ctl.last
      BY <1>1, <2>4 DEF IInv, TailContiguous, Working
    <3>2. s <= ctl.last
      BY <1>2, <2>1, <2>4, <3>1, Ranges DEF IInv
    <3> QED BY <2>3, <2>4, <3>2
  <2>5. CASE s <= cursor[p] /\ ctl.gap # NoSeq /\ s <= ctl.gap
    <3>1. s <= ctl.last
      BY <2>1, <2>5, Ranges, BoundAssumption DEF IInv, Bounded
    <3> QED BY <2>3, <2>5, <3>1
  <2>6. CASE ctl.gap # NoSeq /\ ctl.gap < s
    <3>1. PICK j \in JobId : /\ jobs'[j].status # "absent"
                             /\ jobs'[j].after = SeamAfter /\ jobs'[j].before = to
      BY <1>5, <2>6
    <3>2. SeamAfter < s /\ SeamAfter \in Nat
      BY <2>1, <2>6, Ranges DEF IInv, SeamAfter, NoSeq
    <3>3. CASE jobs'[j].status # "complete"
      BY <2>1, <3>1, <3>2, <3>3 DEF Owed, Unfinished
    <3>4. CASE jobs'[j].status = "complete"
      <4>1. s \in jobs'[j].after + 1..jobs'[j].before
        BY <1>2, <2>1, <3>1, <3>2
      <4> QED BY <1>6, <3>4, <4>1 DEF JobCursorTruthful
    <3> QED BY <3>3, <3>4
  <2>7. s <= cursor[p] \/ cursor[p] < s
    BY <1>2, <2>1
  <2>8. s <= ctl.gap \/ ctl.gap < s
    BY <2>1, Ranges DEF IInv
  <2> QED BY <2>2, <2>4, <2>5, <2>6, <2>7, <2>8
<1> QED BY <1>6, <1>7, <1>8, <1>9, <1>10, <1>11, <1>12 DEF IInv

LEMMA InvLaneStep == ASSUME IInv, NEW p \in Owner, LaneStep(p) PROVE IInv'
<1>1. TypeOK'
  BY TypeLaneStep DEF IInv
<1>2. CASE RenewLease(p)
  <2>1. UNCHANGED <<durable, memory>>
    BY <1>2 DEF RenewLease, vars
  <2> QED BY <1>1, <2>1, InvStutter
<1> QED
  BY <1>1, <1>2, InvAcquireLease, InvStopLane, InvCrash, InvStart, InvSubscribe, InvHalt,
     InvDisconnect, InvStageLive, InvMark, InvBlock, InvClaim, InvStageJob, InvComplete,
     InvRelease, InvReleaseFails, InvSpend, InvPause
  DEF LaneStep

LEMMA InvEnvironment == ASSUME IInv, Environment PROVE IInv'
<1>1. TypeOK'
  BY TypeEnvironment DEF IInv
<1>2. ExpireLease \/ UNCHANGED <<durable, memory>>
  BY DEF Environment, SourceEmits, BufferDrops, SourceRegresses, CanaryExpires
<1> QED BY <1>1, <1>2, InvExpireLease, InvStutter

\* The inductive invariant holds in every behaviour, fair or not.
THEOREM Inductive == Spec => []IInv
<1>1. IInv /\ [Next]_vars => IInv'
  <2>1. ASSUME IInv, UNCHANGED vars PROVE IInv'
    <3>1. TypeOK' /\ UNCHANGED <<durable, memory>>
      BY <2>1 DEF IInv, TypeOK, vars, durable, memory, provider, limits
    <3> QED BY <2>1, <3>1, InvStutter
  <2> QED BY <2>1, InvLaneStep, InvEnvironment DEF Next
<1> QED BY InvInit, <1>1, PTL DEF Spec

\* No event is lost: for any number of overlapping runs, faults and restarts,
\* every sequence from the seam to the live cursor is staged or owed.
THEOREM CoverageHolds == Spec => []CoverageAccounted
<1>1. IInv => CoverageAccounted
  BY DEF IInv
<1> QED BY <1>1, Inductive, PTL

\* No job, live or handed over between runs, claims a sequence it has not staged.
THEOREM JobCursorHolds == Spec => []JobCursorTruthful
<1>1. IInv => JobCursorTruthful
  BY DEF IInv
<1> QED BY <1>1, Inductive, PTL

\* Coverage is not reported as restored while a sequence the cursor passed is missing from the
\* inbox: a gap, an unfinished job and a poison event each keep the view recovering.
THEOREM ReportedCoverageHolds == Spec => []PublicCoverageHonest
<1>1. ASSUME IInv, ctl.present, ~RecoveringView, NEW s \in Bootstrap + 1..ctl.last PROVE s \in inbox
  <2>1. ~Owed(s)
    BY <1>1 DEF RecoveringView, Owed
  <2>2. s \in Staged
    BY <1>1, <2>1 DEF IInv, CoverageAccounted
  <2> QED BY <1>1, <2>2 DEF Staged, RecoveringView
<1>2. IInv => PublicCoverageHonest
  BY <1>1 DEF PublicCoverageHonest
<1> QED BY <1>2, Inductive, PTL

-----------------------------------------------------------------------------
(***************************************************************************)
(* What a step of the intake lane may never do, for every number of runs,  *)
(* sequences, jobs and faults: move a cursor back, touch a finished job,   *)
(* or stage anything once the source is blocked.  The last one rests on    *)
(* two more invariants: blocking a source blocks its unfinished jobs with  *)
(* it, and the checkpoint row never runs ahead of the controller row (a    *)
(* restart would otherwise move the blocked controller's cursor).          *)
(***************************************************************************)
CursorsForward == ctl'.last >= ctl.last /\ ckpt'.seq >= ckpt.seq

JobKept(j) ==
  jobs[j].status # "absent" =>
    /\ jobs'[j].after = jobs[j].after /\ jobs'[j].before = jobs[j].before
    /\ jobs'[j].last >= jobs[j].last
    /\ jobs'[j].status # "absent"
    /\ jobs[j].status = "complete" => jobs'[j] = jobs[j]

Frozen == ctl.status = Blocked =>
  /\ ctl'.status = Blocked /\ ctl'.last = ctl.last
  /\ UNCHANGED <<ckpt, inbox, poison, jobs>>

BlockedTogether ==
  ctl.status = Blocked =>
    ctl.present /\ \A j \in JobId : jobs[j].status \in {"absent", "complete", Blocked}

CheckpointBehind == ctl.present => ckpt.seq <= ctl.last

SInv == IInv /\ BlockedTogether /\ CheckpointBehind

\* What every step keeps; the case of each action that moves a row is a lemma.
Sound ==
  /\ CursorsForward /\ Frozen /\ \A j \in JobId : JobKept(j)
  /\ BlockedTogether' /\ CheckpointBehind'

\* A step that leaves the jobs alone and moves no cursor.
LEMMA CursorsKept ==
  ASSUME SInv, UNCHANGED <<jobs, ckpt, inbox, poison>>,
         ctl'.last = ctl.last, ctl'.present = ctl.present,
         ctl'.status = Blocked <=> ctl.status = Blocked
  PROVE  Sound
<1>1. \A j \in JobId : JobKept(j)
  BY Ranges DEF JobKept, SInv, IInv
<1>2. CursorsForward
  BY Ranges DEF CursorsForward, SInv, IInv
<1> QED BY <1>1, <1>2 DEF Sound, SInv, Frozen, BlockedTogether, CheckpointBehind

LEMMA SoundStart == ASSUME SInv, NEW p \in Owner, StartAutomaticRecovery(p) PROVE Sound
<1>1. /\ ctl'.present = TRUE /\ ctl'.last = Larger(ctl.last, ckpt.seq)
      /\ ctl'.status = StatusAtStart
      /\ UNCHANGED <<jobs, ckpt, inbox, poison>>
  BY DEF StartAutomaticRecovery
<1>2. CursorsForward /\ CheckpointBehind'
  BY <1>1, Ranges DEF SInv, IInv, CursorsForward, CheckpointBehind, Larger
<1>3. ctl'.status = Blocked <=> ctl.status = Blocked
  BY <1>1 DEF StatusAtStart, Blocked
<1>4. ctl.status = Blocked => ctl'.last = ctl.last
  BY <1>1, Ranges DEF SInv, IInv, BlockedTogether, CheckpointBehind, Larger
<1>5. \A j \in JobId : JobKept(j)
  BY <1>1, Ranges DEF JobKept, SInv, IInv
<1> QED BY <1>1, <1>2, <1>3, <1>4, <1>5 DEF Sound, SInv, Frozen, BlockedTogether

LEMMA SoundStageLive == ASSUME SInv, NEW p \in Owner, StageLive(p) PROVE Sound
<1>1. PICK to \in Seqs :
        /\ Working(p) /\ SeamAccepts(to) /\ RegisterSeam(to)
        /\ ctl' = [ctl EXCEPT !.last = to, !.gap = NoSeq,
                     !.status = StatusAfterRows(IF ctl.gap # NoSeq THEN "gap_pending" ELSE ctl.status,
                                                cursor[p], to)]
        /\ ckpt' = [seq |-> Larger(ckpt.seq, to), state |-> "live"]
  BY DEF StageLive
<1>2. to \in Nat /\ ctl.last <= to /\ ctl.status # Blocked
  BY <1>1, BoundAssumption DEF SeamAccepts, Seqs
<1>3. ctl.present
  BY <1>1 DEF SInv, IInv, PhasesMatch, Working
<1>4. /\ ctl'.last = to /\ ctl'.present = ctl.present
      /\ ctl'.status # Blocked
  BY <1>1, <1>2 DEF SInv, IInv, TypeOK, Controller, StatusAfterRows, Blocked
<1>5. CursorsForward /\ CheckpointBehind'
  BY <1>1, <1>2, <1>3, <1>4, Ranges DEF SInv, IInv, CursorsForward, CheckpointBehind, Larger
<1>6. \A j \in JobId : jobs[j].status # "absent" => jobs'[j] = jobs[j]
  BY <1>1, <1>2, SeamRegistered DEF SInv, IInv
<1>7. \A j \in JobId : JobKept(j)
  BY <1>6, Ranges DEF JobKept, SInv, IInv
<1> QED BY <1>2, <1>4, <1>5, <1>7 DEF Sound, Frozen, BlockedTogether

LEMMA SoundMark == ASSUME SInv, NEW p \in Owner, MarkLiveCursorTooOld(p) PROVE Sound
<1>1. ctl.status # Blocked
  BY DEF MarkLiveCursorTooOld, Presents
<1>2. /\ ctl' = [ctl EXCEPT !.gap = Least(ctl.gap, lastSeq[p]), !.status = "gap_pending"]
      /\ UNCHANGED <<jobs, ckpt, inbox, poison>>
  BY <1>1 DEF MarkLiveCursorTooOld
<1>3. ctl'.last = ctl.last /\ ctl'.present = ctl.present /\ ctl'.status # Blocked
  BY <1>2 DEF SInv, IInv, TypeOK, Controller, Blocked
<1> QED BY <1>1, <1>2, <1>3, CursorsKept

LEMMA SoundBlock == ASSUME SInv, NEW p \in Owner, BlockSourceDiscontinuity(p) PROVE Sound
<1>1. /\ ctl' = [ctl EXCEPT !.status = Blocked]
      /\ jobs' = [j \in JobId |-> IF jobs[j].status \in {"absent", "complete"} THEN jobs[j]
                                  ELSE [jobs[j] EXCEPT !.status = Blocked]]
      /\ UNCHANGED <<ckpt, inbox, poison>>
  BY DEF BlockSourceDiscontinuity
<1>2. ctl.present
  BY DEF BlockSourceDiscontinuity, SInv, IInv, PhasesMatch, Working
<1>3. ctl'.last = ctl.last /\ ctl'.present = ctl.present /\ ctl'.status = Blocked
  BY <1>1 DEF SInv, IInv, TypeOK, Controller
<1>4. \A j \in JobId : jobs'[j].status \in {"absent", "complete", Blocked} /\ JobKept(j)
  BY <1>1, Ranges DEF JobKept, SInv, IInv, TypeOK, Job, Blocked
<1>5. ctl.status = Blocked => jobs' = jobs
  <2> SUFFICES ASSUME ctl.status = Blocked PROVE \A j \in JobId : jobs'[j] = jobs[j]
    BY <1>1 DEF SInv, IInv, TypeOK
  <2> TAKE j \in JobId
  <2>1. jobs[j] \in Job /\ jobs[j].status \in {"absent", "complete", Blocked}
    BY DEF SInv, IInv, TypeOK, BlockedTogether
  <2>2. jobs[j].status = Blocked => [jobs[j] EXCEPT !.status = Blocked] = jobs[j]
    BY <2>1 DEF Job
  <2> QED BY <1>1, <2>1, <2>2
<1>6. CursorsForward /\ CheckpointBehind'
  BY <1>1, <1>2, <1>3, Ranges DEF SInv, IInv, CursorsForward, CheckpointBehind
<1> QED BY <1>1, <1>2, <1>3, <1>4, <1>5, <1>6 DEF Sound, Frozen, BlockedTogether

\* A job is worked on only while neither it nor the source is blocked, so these
\* steps have only the jobs' own claims to keep.
LEMMA JobWork ==
  ASSUME SInv, UNCHANGED ckpt, ctl'.last = ctl.last, ctl'.present = ctl.present,
         ctl.status # Blocked, ctl'.status # Blocked, \A j \in JobId : JobKept(j)
  PROVE  Sound
<1>1. CursorsForward
  BY Ranges DEF CursorsForward, SInv, IInv
<1> QED BY <1>1 DEF Sound, SInv, Frozen, BlockedTogether, CheckpointBehind

LEMMA SoundClaim == ASSUME SInv, NEW p \in Owner, ClaimRecoveryJob(p) PROVE Sound
<1>1. CASE /\ UNCHANGED ctl /\ jobs' # jobs
           /\ jobs' = [j \in JobId |->
                IF jobs[j].status \in {"absent", "complete", "expired", Blocked} THEN jobs[j]
                ELSE [jobs[j] EXCEPT !.status = "expired"]]
  <2>1. \A j \in JobId : JobKept(j)
    BY <1>1, Ranges DEF JobKept, SInv, IInv, TypeOK, Job, Blocked
  <2>2. ctl.status # Blocked
    <3> SUFFICES ASSUME ctl.status = Blocked PROVE jobs' = jobs
      BY <1>1
    <3>1. \A j \in JobId : jobs'[j] = jobs[j]
      BY <1>1 DEF SInv, BlockedTogether
    <3> QED BY <1>1, <3>1 DEF SInv, IInv, TypeOK
  <2> QED BY <1>1, <2>1, <2>2, JobWork DEF ClaimRecoveryJob
<1>2. ASSUME NEW j \in JobId, Claimable(p, j),
             jobs' = [jobs EXCEPT ![j].status = "replaying", ![j].owner = p, ![j].token = token[p]],
             ctl' = [ctl EXCEPT !.status = "recovering"], UNCHANGED ckpt
      PROVE  Sound
  <2>1. \A i \in JobId : JobKept(i)
    BY <1>2, Ranges DEF JobKept, SInv, IInv, TypeOK, Job, Claimable
  <2>2. ctl.status # Blocked
    BY <1>2 DEF Claimable
  <2>3. ctl'.last = ctl.last /\ ctl'.present = ctl.present /\ ctl'.status # Blocked
    BY <1>2 DEF SInv, IInv, TypeOK, Controller, Blocked
  <2> QED BY <1>2, <2>1, <2>2, <2>3, JobWork
<1> QED BY <1>1, <1>2 DEF ClaimRecoveryJob

LEMMA SoundStageJob == ASSUME SInv, NEW p \in Owner, StageJob(p) PROVE Sound
<1>1. PICK to \in Seqs :
        /\ Recovering(p) /\ MayStageJob(p, child[p].job)
        /\ jobs' = [jobs EXCEPT ![child[p].job].last = Larger(@, to)]
        /\ ctl' = [ctl EXCEPT !.status = StatusAfterRows(@, child[p].pos, to)]
        /\ UNCHANGED ckpt
  BY DEF StageJob
<1>2. /\ child[p].job \in JobId /\ to \in Nat
      /\ jobs[child[p].job].status = "replaying" /\ ctl.status # Blocked
  BY <1>1, BoundAssumption
  DEF SInv, IInv, TypeOK, Child, Recovering, MayStageJob, HoldsJob, Seqs
<1>3. \A i \in JobId : JobKept(i)
  BY <1>1, <1>2, Ranges DEF JobKept, SInv, IInv, TypeOK, Job, Larger
<1>4. ctl'.last = ctl.last /\ ctl'.present = ctl.present /\ ctl'.status # Blocked
  BY <1>1, <1>2 DEF SInv, IInv, TypeOK, Controller, StatusAfterRows, Blocked
<1> QED BY <1>1, <1>2, <1>3, <1>4, JobWork

LEMMA SoundComplete == ASSUME SInv, NEW p \in Owner, CompleteRecoveryJob(p) PROVE Sound
<1>1. /\ Recovering(p) /\ MayStageJob(p, child[p].job)
      /\ jobs' = [jobs EXCEPT ![child[p].job].status = "complete"]
      /\ UNCHANGED ckpt
  BY DEF CompleteRecoveryJob
<1>2. /\ child[p].job \in JobId
      /\ jobs[child[p].job].status = "replaying" /\ ctl.status # Blocked
  BY <1>1 DEF SInv, IInv, TypeOK, Child, Recovering, MayStageJob, HoldsJob
<1>3. \A i \in JobId : JobKept(i)
  BY <1>1, <1>2, Ranges DEF JobKept, SInv, IInv, TypeOK, Job
<1>4. ctl'.last = ctl.last /\ ctl'.present = ctl.present /\ ctl'.status # Blocked
  BY <1>2 DEF CompleteRecoveryJob, SInv, IInv, TypeOK, Controller, Blocked
<1> QED BY <1>1, <1>2, <1>3, <1>4, JobWork

LEMMA SoundRelease == ASSUME SInv, NEW p \in Owner, ReleaseRecoveryJob(p) PROVE Sound
<1>1. PICK status \in {"pending", "paused_daily", "paused_budget", "expired"} :
        /\ Recovering(p)
        /\ jobs' = IF HoldsJob(p, child[p].job)
                   THEN [jobs EXCEPT ![child[p].job].status = status] ELSE jobs
        /\ ctl' = IF status \in {"paused_budget", "expired"} /\ ctl.status # Blocked
                  THEN [ctl EXCEPT !.status = status] ELSE ctl
        /\ UNCHANGED <<ckpt, inbox, poison>>
  BY DEF ReleaseRecoveryJob
<1>2. child[p].job \in JobId
  BY <1>1 DEF SInv, IInv, TypeOK, Child, Recovering
<1>3. ctl'.last = ctl.last /\ ctl'.present = ctl.present
      /\ (ctl'.status = Blocked <=> ctl.status = Blocked)
  BY <1>1 DEF SInv, IInv, TypeOK, Controller, Blocked
<1>4. CASE HoldsJob(p, child[p].job)
  <2>1. ctl.status # Blocked
    BY <1>2, <1>4 DEF SInv, BlockedTogether, HoldsJob, Blocked
  <2>2. \A i \in JobId : JobKept(i)
    BY <1>1, <1>2, <1>4, Ranges DEF JobKept, SInv, IInv, TypeOK, Job, HoldsJob
  <2> QED BY <1>1, <1>3, <2>1, <2>2, JobWork
<1>5. CASE ~HoldsJob(p, child[p].job)
  BY <1>1, <1>3, <1>5, CursorsKept
<1> QED BY <1>4, <1>5

LEMMA SoundPause == ASSUME SInv, NEW p \in Owner, PauseAutomaticRecovery(p) PROVE Sound
<1>1. /\ ctl'.last = ctl.last /\ ctl'.present = ctl.present
      /\ (ctl'.status = Blocked <=> ctl.status = Blocked)
  BY DEF PauseAutomaticRecovery, SInv, IInv, TypeOK, Controller, Blocked
<1> QED BY <1>1, CursorsKept DEF PauseAutomaticRecovery

\* Every other step leaves the checkpoint, controller, job and inbox rows alone.
LEMMA SoundStep == ASSUME SInv, [Next]_vars PROVE Sound
<1>1. ASSUME UNCHANGED <<ckpt, ctl, jobs, inbox, poison>> PROVE Sound
  BY <1>1, CursorsKept
<1>2. CASE UNCHANGED vars
  BY <1>1, <1>2 DEF vars, durable
<1>3. CASE Environment
  BY <1>1, <1>3
  DEF Environment, ExpireLease, SourceEmits, BufferDrops, SourceRegresses, CanaryExpires, durable
<1>4. ASSUME NEW p \in Owner, LaneStep(p) PROVE Sound
  <2>1. CASE \/ AcquireLease(p) \/ RenewLease(p) \/ StopLane(p) \/ Crash(p) \/ Subscribe(p)
             \/ HaltOnDiscontinuity(p) \/ Disconnect(p) \/ ReleaseFails(p) \/ SpendIncidentBudget(p)
    BY <1>1, <2>1 DEF AcquireLease, RenewLease, StopLane, Crash, Subscribe,
       HaltOnDiscontinuity, Disconnect, ReleaseFails, SpendIncidentBudget, vars, durable
  <2> QED BY <1>4, <2>1, SoundStart, SoundStageLive, SoundMark, SoundBlock, SoundClaim,
             SoundStageJob, SoundComplete, SoundRelease, SoundPause DEF LaneStep
<1> QED BY <1>2, <1>3, <1>4 DEF Next

LEMMA SoundInvariant == Spec => []SInv
<1>1. Init => BlockedTogether /\ CheckpointBehind
  BY DEF Init, BlockedTogether, CheckpointBehind, Blocked
<1>2. SInv /\ IInv' /\ [Next]_vars => BlockedTogether' /\ CheckpointBehind'
  BY SoundStep DEF Sound
<1> QED BY <1>1, <1>2, InvInit, Inductive, PTL DEF Spec, SInv

\* Neither a recovery job, nor a run that lost its lease, nor a restart from an
\* older checkpoint moves the live cursor or the lane checkpoint back.
THEOREM NeverRewinds == Spec => LiveCursorNeverRewinds
<1>1. SInv /\ [Next]_vars => CursorsForward
  BY SoundStep DEF Sound
<1>2. CursorsForward => ctl'.last >= ctl.last /\ ckpt'.seq >= ckpt.seq
  BY DEF CursorsForward
<1> QED BY <1>1, <1>2, SoundInvariant, PTL DEF Spec, LiveCursorNeverRewinds

\* A registered job keeps its range, its checkpoint never moves back and a
\* complete job is never touched again, whichever runs interleave.
THEOREM JobsStayClosed == Spec => JobsNeverReopened
<1>1. SInv /\ [Next]_vars => \A j \in JobId : JobKept(j)
  BY SoundStep DEF Sound
<1>2. (\A j \in JobId : JobKept(j)) =>
      \A j \in JobId : jobs[j].status # "absent" =>
       /\ jobs'[j].after = jobs[j].after /\ jobs'[j].before = jobs[j].before
       /\ jobs'[j].last >= jobs[j].last
       /\ jobs'[j].status # "absent"
       /\ jobs[j].status = "complete" => jobs'[j] = jobs[j]
  BY DEF JobKept
<1> QED BY <1>1, <1>2, SoundInvariant, PTL DEF Spec, JobsNeverReopened

\* Once the source is blocked, no run stages, completes or reopens anything.
THEOREM FailsClosed == Spec => DiscontinuityFailsClosed
<1>1. SInv /\ [Next]_vars => Frozen
  BY SoundStep DEF Sound
<1>2. Frozen => (ctl.status = Blocked =>
                   /\ ctl'.status = Blocked /\ ctl'.last = ctl.last
                   /\ UNCHANGED <<ckpt, inbox, poison, jobs>>)
  BY DEF Frozen
<1> QED BY <1>1, <1>2, SoundInvariant, PTL DEF Spec, DiscontinuityFailsClosed
=============================================================================
