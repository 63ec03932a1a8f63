----------------------- MODULE IngressLaneLedgerProofs -----------------------
(***************************************************************************)
(* The intake lane implements the coverage ledger, for every number of     *)
(* runs, sequences, jobs and faults.  CoverageAccounted makes the owed     *)
(* rows exactly the unstaged sequences behind the frontier, so it is left  *)
(* to show that a step only adds rows, none of them ahead of the frontier, *)
(* and that blocking the source stages nothing.                            *)
(***************************************************************************)
EXTENDS IngressLaneProofs, IngressLaneLedger

\* An archive range ends at a batch the live cursor has already passed.
RangesBehind == \A j \in JobId : jobs[j].status # "absent" => jobs[j].before <= ctl.last

\* What a step may do to the staged rows.
Grows ==
  /\ Staged \subseteq Staged'
  /\ \A s \in Staged' \ Staged : s <= ctl'.last
  /\ ctl'.status = Blocked /\ ctl.status # Blocked => Staged' = Staged /\ ctl'.last = ctl.last

LEMMA GrowsStart ==
  ASSUME SInv, RangesBehind, NEW p \in Owner, StartAutomaticRecovery(p)
  PROVE  Grows /\ RangesBehind'
<1>1. /\ ctl'.last >= ctl.last /\ ctl'.last \in Nat
      /\ ctl'.status = StatusAtStart /\ UNCHANGED <<jobs, inbox, poison>>
  BY Ranges DEF SInv, IInv, StartAutomaticRecovery, Larger
<1>2. ctl'.status = Blocked => ctl.status = Blocked
  BY <1>1 DEF StatusAtStart, Blocked
<1>3. RangesBehind'
  BY <1>1, Ranges DEF SInv, IInv, RangesBehind
<1> QED BY <1>1, <1>2, <1>3 DEF Grows, Staged

LEMMA GrowsStageLive ==
  ASSUME SInv, RangesBehind, NEW p \in Owner, StageLive(p) PROVE Grows /\ RangesBehind'
<1>1. PICK to \in Seqs :
        /\ SeamAccepts(to) /\ RegisterSeam(to) /\ StageRows(cursor[p], to)
        /\ ctl' = [ctl EXCEPT !.last = to, !.gap = NoSeq,
                     !.status = StatusAfterRows(IF ctl.gap # NoSeq THEN "gap_pending" ELSE ctl.status,
                                                cursor[p], to)]
  BY DEF StageLive
<1>2. to \in Nat /\ ctl.last <= to /\ ctl.status # Blocked
  BY <1>1, BoundAssumption DEF SeamAccepts, Seqs
<1>3. ctl'.last = to /\ ctl'.status # Blocked
  BY <1>1, <1>2 DEF SInv, IInv, TypeOK, Controller, StatusAfterRows, Blocked
<1>4. Staged' = Staged \cup (cursor[p] + 1..to)
  BY <1>1, RowsStaged
<1>5. Grows
  BY <1>2, <1>3, <1>4, Ranges DEF SInv, IInv, Grows
<1>6. RangesBehind'
  <2> SUFFICES ASSUME NEW j \in JobId, jobs'[j].status # "absent" PROVE jobs'[j].before <= to
    BY <1>3 DEF RangesBehind
  <2>1. CASE jobs'[j] = jobs[j]
    BY <1>2, <2>1, Ranges DEF SInv, IInv, RangesBehind
  <2>2. CASE jobs'[j] # jobs[j]
    <3>1. PICK i \in JobId :
            jobs' = [jobs EXCEPT ![i] = [AbsentJob EXCEPT !.status = "pending",
                                           !.after = SeamAfter, !.before = to]]
      BY <1>1, <2>2 DEF RegisterSeam
    <3> QED BY <1>2, <2>2, <3>1 DEF SInv, IInv, TypeOK, AbsentJob
  <2> QED BY <2>1, <2>2
<1> QED BY <1>5, <1>6

LEMMA GrowsStageJob ==
  ASSUME SInv, RangesBehind, NEW p \in Owner, StageJob(p) PROVE Grows /\ RangesBehind'
<1>1. PICK to \in Seqs :
        /\ Recovering(p) /\ MayStageJob(p, child[p].job)
        /\ to <= jobs[child[p].job].before
        /\ StageRows(child[p].pos, to)
        /\ jobs' = [jobs EXCEPT ![child[p].job].last = Larger(@, to)]
        /\ ctl' = [ctl EXCEPT !.status = StatusAfterRows(@, child[p].pos, to)]
  BY DEF StageJob
<1>2. /\ child[p].job \in JobId /\ to \in Nat
      /\ jobs[child[p].job].status = "replaying" /\ ctl.status # Blocked
  BY <1>1, BoundAssumption
  DEF SInv, IInv, TypeOK, Child, Recovering, MayStageJob, HoldsJob, Seqs
<1>3. ctl'.last = ctl.last /\ ctl'.status # Blocked
  BY <1>1, <1>2 DEF SInv, IInv, TypeOK, Controller, StatusAfterRows, Blocked
<1>4. Staged' = Staged \cup (child[p].pos + 1..to)
  BY <1>1, RowsStaged
<1>5. to <= ctl.last
  BY <1>1, <1>2, Ranges DEF SInv, IInv, RangesBehind
<1>6. Grows
  BY <1>2, <1>3, <1>4, <1>5, Ranges DEF SInv, IInv, Grows
<1>7. RangesBehind'
  BY <1>1, <1>2, <1>3 DEF SInv, IInv, TypeOK, Job, RangesBehind
<1> QED BY <1>6, <1>7

\* Every other step stages nothing and keeps each job's range.
LEMMA GrowsStep == ASSUME SInv, RangesBehind, [Next]_vars PROVE Grows /\ RangesBehind'
<1>1. ASSUME UNCHANGED <<inbox, poison>>, ctl'.last = ctl.last,
             \A j \in JobId : jobs'[j].before = jobs[j].before
                              /\ (jobs[j].status = "absent" => jobs'[j].status = "absent")
      PROVE  Grows /\ RangesBehind'
  BY <1>1 DEF Grows, Staged, RangesBehind
<1>2. CASE UNCHANGED vars
  BY <1>1, <1>2 DEF vars, durable
<1>3. CASE Environment
  BY <1>1, <1>3
  DEF Environment, ExpireLease, SourceEmits, BufferDrops, SourceRegresses, CanaryExpires, durable
<1>4. ASSUME NEW p \in Owner, LaneStep(p) PROVE Grows /\ RangesBehind'
  <2>1. CASE \/ AcquireLease(p) \/ RenewLease(p) \/ StopLane(p) \/ Crash(p) \/ Subscribe(p)
             \/ HaltOnDiscontinuity(p) \/ Disconnect(p) \/ ReleaseFails(p) \/ SpendIncidentBudget(p)
    BY <1>1, <2>1 DEF AcquireLease, RenewLease, StopLane, Crash, Subscribe,
       HaltOnDiscontinuity, Disconnect, ReleaseFails, SpendIncidentBudget, vars, durable
  <2>2. CASE PauseAutomaticRecovery(p)
    BY <1>1, <2>2 DEF PauseAutomaticRecovery, SInv, IInv, TypeOK, Controller
  <2>3. CASE MarkLiveCursorTooOld(p)
    BY <1>1, <2>3 DEF MarkLiveCursorTooOld, SInv, IInv, TypeOK, Controller
  <2>4. CASE BlockSourceDiscontinuity(p)
    <3>1. \A j \in JobId : jobs'[j].before = jobs[j].before
                           /\ (jobs[j].status = "absent" => jobs'[j].status = "absent")
      BY <2>4 DEF BlockSourceDiscontinuity, SInv, IInv, TypeOK, Job
    <3>2. ctl'.last = ctl.last /\ UNCHANGED <<inbox, poison>>
      BY <2>4 DEF BlockSourceDiscontinuity, SInv, IInv, TypeOK, Controller
    <3> QED BY <1>1, <3>1, <3>2
  <2>5. CASE ClaimRecoveryJob(p)
    <3>1. \A j \in JobId : jobs'[j].before = jobs[j].before
                           /\ (jobs[j].status = "absent" => jobs'[j].status = "absent")
      <4>1. CASE jobs' = [j \in JobId |->
                   IF jobs[j].status \in {"absent", "complete", "expired", Blocked} THEN jobs[j]
                   ELSE [jobs[j] EXCEPT !.status = "expired"]]
        BY <4>1 DEF SInv, IInv, TypeOK, Job
      <4>2. ASSUME NEW i \in JobId, Claimable(p, i),
                   jobs' = [jobs EXCEPT ![i].status = "replaying", ![i].owner = p,
                                        ![i].token = token[p]]
            PROVE  \A j \in JobId : jobs'[j].before = jobs[j].before
                                    /\ (jobs[j].status = "absent" => jobs'[j].status = "absent")
        BY <4>2 DEF Claimable, SInv, IInv, TypeOK, Job
      <4> QED BY <2>5, <4>1, <4>2 DEF ClaimRecoveryJob
    <3>2. ctl'.last = ctl.last /\ UNCHANGED <<inbox, poison>>
      BY <2>5 DEF ClaimRecoveryJob, SInv, IInv, TypeOK, Controller
    <3> QED BY <1>1, <3>1, <3>2
  <2>6. CASE CompleteRecoveryJob(p)
    <3>1. \A j \in JobId : jobs'[j].before = jobs[j].before
                           /\ (jobs[j].status = "absent" => jobs'[j].status = "absent")
      BY <2>6 DEF CompleteRecoveryJob, MayStageJob, HoldsJob, SInv, IInv, TypeOK, Job
    <3>2. ctl'.last = ctl.last /\ UNCHANGED <<inbox, poison>>
      BY <2>6 DEF CompleteRecoveryJob, SInv, IInv, TypeOK, Controller
    <3> QED BY <1>1, <3>1, <3>2
  <2>7. CASE ReleaseRecoveryJob(p)
    <3>1. \A j \in JobId : jobs'[j].before = jobs[j].before
                           /\ (jobs[j].status = "absent" => jobs'[j].status = "absent")
      BY <2>7 DEF ReleaseRecoveryJob, HoldsJob, SInv, IInv, TypeOK, Job
    <3>2. ctl'.last = ctl.last /\ UNCHANGED <<inbox, poison>>
      BY <2>7 DEF ReleaseRecoveryJob, SInv, IInv, TypeOK, Controller
    <3> QED BY <1>1, <3>1, <3>2
  <2> QED BY <1>4, <2>1, <2>2, <2>3, <2>4, <2>5, <2>6, <2>7, GrowsStart, GrowsStageLive,
             GrowsStageJob DEF LaneStep
<1> QED BY <1>2, <1>3, <1>4 DEF Next

LEMMA LedgerInit == Init => Ledger!Init
BY BoundAssumption DEF Init, Ledger!Init, Frontier, Larger, Staged, OwedRows, Blocked

LEMMA LedgerStep == ASSUME SInv, SInv', RangesBehind, [Next]_vars PROVE [Ledger!Next]_(Ledger!vars)
<1>1. Sound /\ Grows
  BY SoundStep, GrowsStep
<1>2. ctl.last \in Nat /\ ctl'.last \in Nat /\ Bootstrap \in Nat /\ ctl'.last >= ctl.last
  <2>1. TypeOK /\ TypeOK'
    BY DEF SInv, IInv
  <2>2. ctl.last \in Seqs /\ ctl'.last \in Seqs
    BY <2>1 DEF TypeOK, Controller
  <2> QED BY <1>1, <2>2, BoundAssumption DEF Seqs, Sound, CursorsForward
<1>3. /\ Frontier \in Nat /\ Frontier' \in Nat
      /\ Frontier' >= Frontier /\ Frontier' >= ctl'.last
      /\ Bootstrap + 1..Frontier = Bootstrap + 1..ctl.last
      /\ Bootstrap + 1..Frontier' = Bootstrap + 1..ctl'.last
      /\ Bootstrap <= Frontier
  BY <1>2 DEF Frontier, Larger
\* Coverage makes the ledger the set of unstaged sequences behind the frontier.
<1>4. /\ OwedRows = (Bootstrap + 1..Frontier) \ Staged
      /\ OwedRows' = (Bootstrap + 1..Frontier') \ Staged'
  <2>1. OwedRows = (Bootstrap + 1..ctl.last) \ Staged
    BY DEF SInv, IInv, CoverageAccounted, OwedRows
  <2>2. OwedRows' = (Bootstrap + 1..ctl'.last) \ Staged'
    BY DEF SInv, IInv, CoverageAccounted, OwedRows
  <2> QED BY <1>3, <2>1, <2>2
<1>5. CASE ctl.status # Blocked /\ ctl'.status # Blocked
  <2>1. \A s \in Staged' \ Staged : s <= Frontier'
    <3>1. Staged' \subseteq Nat
      <4>1. inbox' \subseteq Seqs /\ poison' \subseteq Seqs
        BY DEF SInv, IInv, TypeOK
      <4>2. Seqs \subseteq Nat
        BY BoundAssumption DEF Seqs
      <4> QED BY <4>1, <4>2 DEF Staged
    <3> TAKE s \in Staged' \ Staged
    <3>2. s \in Nat /\ s <= ctl'.last
      BY <1>1, <3>1 DEF Grows
    <3> QED BY <1>2, <1>3, <3>2
  <2>2. OwedRows' = (OwedRows \cup (Frontier + 1..Frontier')) \ Staged'
    <3>1. Bootstrap + 1..Frontier' = (Bootstrap + 1..Frontier) \cup (Frontier + 1..Frontier')
      BY <1>2, <1>3
    <3>2. Staged \subseteq Staged'
      BY <1>1 DEF Grows
    <3> QED BY <1>4, <3>1, <3>2
  <2> QED BY <1>1, <1>3, <1>5, <2>1, <2>2 DEF Grows, Ledger!Next, Ledger!Extend
<1>6. CASE ctl'.status = Blocked
  <2>1. Staged' = Staged /\ ctl'.last = ctl.last
    BY <1>1, <1>6 DEF Sound, Frozen, Grows, Staged
  <2>2. Frontier' = Frontier /\ OwedRows' = OwedRows
    BY <1>4, <2>1 DEF Frontier, Larger
  <2> QED BY <1>6, <2>1, <2>2 DEF Ledger!Next, Ledger!Halt
<1>7. ctl.status = Blocked => ctl'.status = Blocked
  BY <1>1 DEF Sound, Frozen
<1> QED BY <1>5, <1>6, <1>7

\* The lane implements the ledger: the gap and the unfinished jobs are at every
\* step exactly the record of what the live cursor passed without staging it.
THEOREM LaneImplementsLedger == Spec => ImplementsLedger
<1>1. Init => RangesBehind
  BY DEF Init, RangesBehind, AbsentJob
<1>2. SInv /\ RangesBehind /\ [Next]_vars => RangesBehind'
  BY GrowsStep
<1>3. SInv /\ SInv' /\ RangesBehind /\ [Next]_vars => [Ledger!Next]_(Ledger!vars)
  BY LedgerStep
<1> QED BY <1>1, <1>2, <1>3, LedgerInit, SoundInvariant, PTL DEF Spec, ImplementsLedger, Ledger!Spec
=============================================================================
