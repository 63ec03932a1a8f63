------------------------ MODULE DurableInboxProofs ------------------------
(***************************************************************************)
(* Theorems about DurableInbox for every number of workers, repositories,  *)
(* events, attempts and faults, with workers that are late and scopes that *)
(* change.  None of the invariants is inductive by itself: the order of a  *)
(* repository needs that nothing is staged twice, an owed restore that     *)
(* only dead letters have requests, and the exclusion of restores that a   *)
(* claim somebody works on is in force.  IInv adds those facts.            *)
(***************************************************************************)
EXTENDS DurableInbox, FiniteSetTheorems, TLAPS

\* A worker that is not idle works on an event.
TasksOnEvents == \A w \in Worker : task[w].kind # "idle" => task[w].seq \in Seqs

\* An event that may be tried has an attempt left.
AttemptsLeft ==
  \A s \in Seqs : rows[s].status \in {"absent", "pending", "leased"} => rows[s].attempts < MaxAttempts

\* The watermark and all rows are staged; a row that is not there is blank.
StagedOnly ==
  /\ watermark <= staged
  /\ \A s \in Seqs : s > staged => rows[s].status = "absent"
  /\ \A s \in Seqs : rows[s].status = "absent" => ~rows[s].reconciled

\* Only dead letters have restore requests.
RequestsOfDeadLetters ==
  \A s \in Seqs : requests[s].status # "absent" => rows[s].status = "dead_letter"

\* With renewals in time, a claim somebody works on is in force.
HeldLeasesLive ==
  ~Stalls =>
    \A w \in Worker, s \in Seqs : task[w].seq = s =>
      /\ Working(w, "event") /\ rows[s].status = "leased" /\ rows[s].owner = w => rows[s].live
      /\ Working(w, "request") /\ requests[s].status = "leased" /\ requests[s].owner = w
           => requests[s].live

RestoresAloneInTime == ~Stalls => RestoresAlone

IInv ==
  /\ TypeOK /\ TasksOnEvents /\ AttemptsLeft /\ StagedOnly /\ RequestsOfDeadLetters
  /\ OneTurnPerRepository /\ WatermarkTruthful /\ DeadLetterOwed
  /\ HeldLeasesLive /\ RestoresAloneInTime

-----------------------------------------------------------------------------
(* Sequences, the watermark, and how a claim reaches its row. *)

\* A set of sequences has a highest member: among the sets of what lies above a
\* member, one is minimal, and it is empty.
LEMMA HighestExists ==
  ASSUME NEW S, S \subseteq 0..MaxSeq
  PROVE  Highest(S) \in S \cup {0} /\ \A y \in S : y <= Highest(S)
<1> DEFINE Above(x) == {y \in S \cup {0} : y > x}
           Tops     == {Above(x) : x \in S \cup {0}}
           All      == S \cup {0}
           Smaller  == StrictSubsetOrdering(All)
<1>0. All \subseteq Nat /\ \A y \in All : y <= MaxSeq
  BY EventAssumption
<1>1. IsFiniteSet(All)
  BY <1>0, EventAssumption, FS_BoundedSetOfNaturals
<1>2. IsWellFoundedOn(Smaller, SUBSET All)
  BY <1>1, FS_StrictSubsetOrderingWellFounded, FS_FiniteSubsetsOfFinite
<1>3. Tops \subseteq SUBSET All /\ Tops # {}
  OBVIOUS
<1> HIDE DEF Tops, Smaller
<1>4. PICK U \in Tops : \A V \in Tops : <<V, U>> \notin Smaller
  BY <1>2, <1>3, WFMin
<1>5. PICK x \in All : U = Above(x)
  BY <1>4 DEF Tops
<1>6. U = {}
  <2> SUFFICES ASSUME NEW y \in U PROVE FALSE
    OBVIOUS
  <2>1. y \in All /\ y > x
    BY <1>5
  <2>2. Above(y) \in Tops
    BY <2>1 DEF Tops
  <2>3. Above(y) \subseteq U /\ Above(y) # U
    <3>1. x \in Nat /\ y \in Nat
      BY <1>0, <1>5, <2>1
    <3>2. ASSUME NEW z \in Above(y) PROVE z \in U
      <4>1. z \in All /\ z \in Nat /\ z > y
        BY <1>0
      <4>2. z > x
        BY <3>1, <4>1, <2>1
      <4> QED BY <1>5, <4>1, <4>2
    <3>3. y \notin Above(y)
      BY <3>1
    <3> QED BY <2>1, <3>2, <3>3
  <2>4. Above(y) \in SUBSET All /\ U \in SUBSET All
    BY <1>3, <1>4, <2>2
  <2>5. <<Above(y), U>> \in Smaller
    BY <2>3, <2>4 DEF Smaller, StrictSubsetOrdering
  <2> QED BY <1>4, <2>2, <2>5
<1>7. \A y \in S : y <= x
  BY <1>0, <1>5, <1>6
<1> QED BY <1>5, <1>7 DEF Highest

\* The watermark a table yields is staged, and every row it passes is settled.
LEMMA WatermarkFacts ==
  ASSUME NEW table \in [Seqs -> Row], staged \in 0..MaxSeq, watermark \in 0..staged,
         \A s \in Seqs : s > staged => table[s].status = "absent",
         \A s \in Seqs : table[s].status = "absent" => ~table[s].reconciled,
         \A s \in Seqs : s <= watermark => table[s].status = "absent" \/ Settled(table[s])
  PROVE  /\ AppliedWatermark(table) \in 0..staged
         /\ \A s \in Seqs : s <= AppliedWatermark(table) =>
              table[s].status = "absent" \/ Settled(table[s])
<1> DEFINE open == {s \in Seqs : table[s].status # "absent" /\ ~Settled(table[s])}
           done == {s \in Seqs : Settled(table[s]) /\ \A t \in open : s < t}
<1>1. CASE open = {}
  BY <1>1, EventAssumption DEF AppliedWatermark
<1>2. CASE open # {}
  <2>1. AppliedWatermark(table) = Highest(done \cup {watermark})
    BY <1>2 DEF AppliedWatermark
  <2> DEFINE h == Highest(done \cup {watermark})
  <2>2. done \cup {watermark} \subseteq 0..MaxSeq
    BY EventAssumption DEF Seqs
  <2>3. h \in done \cup {watermark} \cup {0}
    BY <2>2, HighestExists
  <2> HIDE DEF h
  <2>4. CASE h \in done
    <3>1. h \in Seqs /\ table[h].status # "absent" /\ h <= staged
      BY <2>4, EventAssumption DEF Seqs, Settled
    <3>2. \A s \in Seqs : s <= h => s \notin open
      BY <2>4, <3>1, EventAssumption DEF Seqs
    <3> QED BY <2>1, <3>1, <3>2, EventAssumption DEF Seqs, h
  <2>5. CASE h = watermark
    BY <2>1, <2>5 DEF h
  <2>6. CASE h = 0
    <3>1. 0 \in 0..staged /\ \A s \in Seqs : ~(s <= 0)
      BY EventAssumption DEF Seqs
    <3>2. AppliedWatermark(table) = 0
      BY <2>1, <2>6 DEF h
    <3> QED BY <3>1, <3>2
  <2> QED BY <2>3, <2>4, <2>5, <2>6
<1> QED BY <1>1, <1>2

\* A worker that holds the claim of an event or a request.
LEMMA HeldEvent ==
  ASSUME NEW w \in Worker, TasksOnEvents, Working(w, "event"), Holds(w)
  PROVE  /\ task[w].seq \in Seqs /\ Claimed(w) = rows[task[w].seq]
         /\ rows[task[w].seq].status = "leased" /\ rows[task[w].seq].owner = w
BY DEF TasksOnEvents, Working, Holds, Claimed

LEMMA HeldRequest ==
  ASSUME NEW w \in Worker, TasksOnEvents, Working(w, "request"), Holds(w)
  PROVE  /\ task[w].seq \in Seqs /\ Claimed(w) = requests[task[w].seq]
         /\ requests[task[w].seq].status = "leased" /\ requests[task[w].seq].owner = w
BY DEF TasksOnEvents, Working, Holds, Claimed

-----------------------------------------------------------------------------
(* Type correctness. *)

LEMMA TypeInit == Init => TypeOK
<1> SUFFICES ASSUME Init PROVE TypeOK
  OBVIOUS
<1>1. AbsentRow \in Row
  BY EventAssumption DEF AbsentRow, Row, RowStatus, Lessee
<1>2. AbsentReq \in Request
  BY DEF AbsentReq, Request, RequestStatus, Lessee
<1>3. Idle \in Task
  BY EventAssumption DEF Idle, Task
<1>4. 0 \in 0..MaxSeq
  BY EventAssumption
<1> QED BY <1>1, <1>2, <1>3, <1>4 DEF Init, TypeOK

\* The rows that transitions write are rows, given the attempts they count.
LEMMA ReleasedRow ==
  ASSUME NEW r \in Row, NEW st \in RowStatus, NEW n \in 0..MaxAttempts
  PROVE  /\ Released(r) \in Row
         /\ [Released(r) EXCEPT !.attempts = n, !.status = st] \in Row
BY DEF Released, Row, RowStatus, Lessee

LEMMA ReleasedRequest ==
  ASSUME NEW r \in Request, NEW st \in RequestStatus, NEW n \in Nat
  PROVE  /\ Released(r) \in Request
         /\ [Released(r) EXCEPT !.attempts = n, !.status = st] \in Request
BY DEF Released, Request, RequestStatus, Lessee

LEMMA IdleTask == Idle \in Task
BY EventAssumption DEF Idle, Task

LEMMA TypeStage == ASSUME TypeOK, Stage PROVE TypeOK'
<1>1. staged + 1 \in Seqs /\ staged' \in 0..MaxSeq
  BY EventAssumption DEF TypeOK, Stage, Seqs
<1>2. [rows[staged + 1] EXCEPT !.status = "pending"] \in Row
  BY <1>1 DEF TypeOK, Row, RowStatus
<1>3. rows' \in [Seqs -> Row]
  BY <1>2 DEF TypeOK, Stage
<1> QED BY <1>1, <1>3 DEF TypeOK, Stage

LEMMA TypeScopeMoves == ASSUME TypeOK, ScopeMoves PROVE TypeOK'
<1>1. scoped' \subseteq Repo
  BY DEF TypeOK, ScopeMoves
<1> QED BY <1>1 DEF TypeOK, ScopeMoves, Fault

LEMMA TypeFilter == ASSUME TypeOK, FilterOutsideScope PROVE TypeOK'
<1>1. ASSUME NEW s \in Seqs
      PROVE  [rows[s] EXCEPT !.status = "filtered_scope", !.owner = NoWorker,
                !.live = FALSE, !.reconciled = FALSE] \in Row
  BY DEF TypeOK, Row, RowStatus, Lessee
<1>2. rows' \in [Seqs -> Row]
  BY <1>1 DEF TypeOK, FilterOutsideScope
<1> QED BY <1>2 DEF TypeOK, FilterOutsideScope

LEMMA ClaimTask ==
  ASSUME NEW s \in Seqs, NEW k \in {"event", "request"}
  PROVE  [Idle EXCEPT !.kind = k, !.seq = s] \in Task
<1>1. s \in 0..MaxSeq
  BY EventAssumption DEF Seqs
<1>2. ASSUME NEW task0 \in Task PROVE [task0 EXCEPT !.kind = k, !.seq = s] \in Task
  BY <1>1 DEF Task
<1> QED BY <1>2, IdleTask

LEMMA TypeClaim == ASSUME TypeOK, NEW w \in Worker, Claim(w) PROVE TypeOK'
<1>1. PICK s \in Seqs :
        /\ rows' = [rows EXCEPT ![s].status = "leased", ![s].owner = w, ![s].live = TRUE]
        /\ task' = [task EXCEPT ![w] = [Idle EXCEPT !.kind = "event", !.seq = s]]
  BY DEF Claim
<1>2. [rows[s] EXCEPT !.status = "leased", !.owner = w, !.live = TRUE] \in Row
  BY DEF TypeOK, Row, RowStatus, Lessee
<1>3. rows' \in [Seqs -> Row]
  BY <1>1, <1>2 DEF TypeOK
<1>4. [Idle EXCEPT !.kind = "event", !.seq = s] \in Task
  BY ClaimTask
<1>5. task' \in [Worker -> Task]
  BY <1>1, <1>4 DEF TypeOK
<1> QED BY <1>3, <1>5 DEF TypeOK, Claim

LEMMA TypeClaimReconciliation ==
  ASSUME TypeOK, NEW w \in Worker, ClaimReconciliation(w) PROVE TypeOK'
<1>1. PICK s \in Seqs :
        /\ requests' = [requests EXCEPT ![s].status = "leased", ![s].owner = w, ![s].live = TRUE]
        /\ task' = [task EXCEPT ![w] = [Idle EXCEPT !.kind = "request", !.seq = s]]
  BY DEF ClaimReconciliation
<1>2. [requests[s] EXCEPT !.status = "leased", !.owner = w, !.live = TRUE] \in Request
  BY DEF TypeOK, Request, RequestStatus, Lessee
<1>3. requests' \in [Seqs -> Request]
  BY <1>1, <1>2 DEF TypeOK
<1>4. [Idle EXCEPT !.kind = "request", !.seq = s] \in Task
  BY ClaimTask
<1>5. task' \in [Worker -> Task]
  BY <1>1, <1>4 DEF TypeOK
<1> QED BY <1>3, <1>5 DEF TypeOK, ClaimReconciliation

\* Renewals and expiries change one lease.
LEMMA TypeLive ==
  ASSUME TypeOK, NEW s \in Seqs, NEW b \in BOOLEAN
  PROVE  /\ [rows EXCEPT ![s].live = b] \in [Seqs -> Row]
         /\ [requests EXCEPT ![s].live = b] \in [Seqs -> Request]
<1>1. [rows[s] EXCEPT !.live = b] \in Row
  BY DEF TypeOK, Row
<1>2. [requests[s] EXCEPT !.live = b] \in Request
  BY DEF TypeOK, Request
<1> QED BY <1>1, <1>2 DEF TypeOK

LEMMA TypeRenew == ASSUME TypeOK, TasksOnEvents, NEW w \in Worker, Renew(w) PROVE TypeOK'
<1>1. task[w].seq \in Seqs
  BY DEF TasksOnEvents, Renew, Working
<1> QED BY <1>1, TypeLive DEF TypeOK, Renew

LEMMA TypeExpireLease == ASSUME TypeOK, ExpireLease PROVE TypeOK'
<1>0. rows \in [Seqs -> Row] /\ requests \in [Seqs -> Request]
  BY DEF TypeOK
<1>1. faults' \in Nat
  BY DEF TypeOK, ExpireLease, Expires, Fault
<1>2. rows' \in [Seqs -> Row] /\ requests' \in [Seqs -> Request]
  <2>1. PICK s \in Seqs :
          /\ rows' = rows \/ rows' = [rows EXCEPT ![s].live = FALSE]
          /\ requests' = requests \/ requests' = [requests EXCEPT ![s].live = FALSE]
    BY <1>0 DEF ExpireLease
  <2> QED BY <1>0, <2>1, TypeLive
<1> QED BY <1>1, <1>2 DEF TypeOK, ExpireLease

\* A task that moves on is a task.
LEMMA TypeTask ==
  ASSUME TypeOK, NEW w \in Worker, NEW n \in 0..MaxSeq,
         NEW st \in {"claimed", "read", "written", "restored", "done"}
  PROVE  /\ [task EXCEPT ![w].step = st] \in [Worker -> Task]
         /\ [task EXCEPT ![w].step = st, ![w].snap = n] \in [Worker -> Task]
<1>1. [task[w] EXCEPT !.step = st] \in Task /\ [task[w] EXCEPT !.step = st, !.snap = n] \in Task
  BY DEF TypeOK, Task
<1> QED BY <1>1 DEF TypeOK

LEMMA TypeCrash == ASSUME TypeOK, NEW w \in Worker, Crash(w) PROVE TypeOK'
<1>1. task' = [task EXCEPT ![w] = Idle] /\ faults' \in Nat
  BY DEF TypeOK, Crash, Fault
<1>2. task' \in [Worker -> Task]
  BY <1>1, IdleTask DEF TypeOK
<1> QED BY <1>1, <1>2 DEF TypeOK, Crash

LEMMA TypeOutcomeLost == ASSUME TypeOK, NEW w \in Worker, OutcomeLost(w) PROVE TypeOK'
<1>1. task' = [task EXCEPT ![w] = Idle] /\ faults' \in Nat
  BY DEF TypeOK, OutcomeLost, Fault
<1>2. task' \in [Worker -> Task]
  BY <1>1, IdleTask DEF TypeOK
<1> QED BY <1>1, <1>2 DEF TypeOK, OutcomeLost

LEMMA TypeClaimLost == ASSUME TypeOK, NEW w \in Worker, ClaimLost(w) PROVE TypeOK'
<1>1. task' \in [Worker -> Task]
  BY IdleTask DEF TypeOK, ClaimLost
<1> QED BY <1>1 DEF TypeOK, ClaimLost

LEMMA VersionType == ASSUME NEW r \in Record, NEW n \in 0..MaxSeq PROVE Version(r, n) \in 0..MaxSeq
<1>1. {s \in Projected : s <= n /\ r \in Writes[s]} \subseteq 0..MaxSeq
  BY EventAssumption DEF Projected, Seqs
<1> QED BY <1>1, HighestExists, EventAssumption DEF Version

LEMMA TypeProject == ASSUME TypeOK, NEW w \in Worker, Project(w) PROVE TypeOK'
<1>1. task[w].seq \in 0..MaxSeq
  BY DEF TypeOK, Task
<1>2. content' \in [Record -> 0..MaxSeq]
  BY <1>1 DEF TypeOK, Project
<1>3. task' \in [Worker -> Task]
  BY <1>1, TypeTask DEF Project
<1> QED BY <1>2, <1>3 DEF TypeOK, Project

LEMMA TypeReadRepository == ASSUME TypeOK, NEW w \in Worker, ReadRepository(w) PROVE TypeOK'
<1>1. [task[w] EXCEPT !.step = "restored"] \in Task
  BY DEF TypeOK, Task
<1>2. [task[w] EXCEPT !.step = "read", !.snap = pds] \in Task
  BY DEF TypeOK, Task
<1>3. task' \in [Worker -> Task]
  BY <1>1, <1>2 DEF TypeOK, ReadRepository
<1> QED BY <1>3 DEF TypeOK, ReadRepository

LEMMA TypeWriteRecords == ASSUME TypeOK, NEW w \in Worker, WriteRecords(w) PROVE TypeOK'
<1>1. task[w].snap \in 0..MaxSeq
  BY DEF TypeOK, Task
<1>2. content' \in [Record -> 0..MaxSeq]
  BY <1>1, VersionType DEF TypeOK, WriteRecords
<1>3. task' \in [Worker -> Task]
  BY <1>1, TypeTask DEF WriteRecords
<1> QED BY <1>2, <1>3 DEF TypeOK, WriteRecords

LEMMA RestoringEvent ==
  ASSUME TasksOnEvents, NEW w \in Worker, Restores(w)
  PROVE  /\ task[w].seq \in Seqs
         /\ Working(w, "event") \/ Working(w, "request")
         /\ ~Working(w, "event") => Working(w, "request")
BY DEF TasksOnEvents, Restores, Working

LEMMA TypeFinishRestore ==
  ASSUME TypeOK, TasksOnEvents, NEW w \in Worker, FinishRestore(w) PROVE TypeOK'
<1>1. task[w].seq \in Seqs /\ 0 \in 0..MaxSeq
  BY RestoringEvent, EventAssumption DEF FinishRestore
<1>2. /\ [rows[task[w].seq] EXCEPT !.restored = TRUE] \in Row
      /\ [requests[task[w].seq] EXCEPT !.restored = TRUE] \in Request
  BY <1>1 DEF TypeOK, Row, Request
<1>3. rows' \in [Seqs -> Row] /\ requests' \in [Seqs -> Request]
  BY <1>1, <1>2 DEF TypeOK, FinishRestore
<1>4. task' \in [Worker -> Task]
  BY <1>1, TypeTask DEF FinishRestore
<1> QED BY <1>3, <1>4 DEF TypeOK, FinishRestore

LEMMA TypeYieldRestore ==
  ASSUME TypeOK, TasksOnEvents, NEW w \in Worker, YieldRestore(w) PROVE TypeOK'
<1>1. task[w].seq \in Seqs
  BY RestoringEvent DEF YieldRestore
<1>2. 0 \in 0..MaxAttempts /\ "pending" \in RowStatus /\ "pending" \in RequestStatus
  BY EventAssumption DEF RowStatus, RequestStatus
<1>3. Released(rows[task[w].seq]) \in Row /\ Released(requests[task[w].seq]) \in Request
  BY <1>1, <1>2, ReleasedRow, ReleasedRequest DEF TypeOK
<1>4. rows' \in [Seqs -> Row] /\ requests' \in [Seqs -> Request]
  BY <1>1, <1>3 DEF TypeOK, YieldRestore
<1>5. task' \in [Worker -> Task] /\ faults' \in Nat
  BY IdleTask DEF TypeOK, YieldRestore, Fault
<1> QED BY <1>4, <1>5 DEF TypeOK, YieldRestore

LEMMA TypeApplied == ASSUME TypeOK, NEW w \in Worker, TasksOnEvents, Applied(w) PROVE TypeOK'
<1>1. task[w].seq \in Seqs
  BY HeldEvent DEF Applied, At
<1>2. ASSUME NEW r \in Row
      PROVE  [r EXCEPT !.status = "applied", !.owner = NoWorker, !.live = FALSE] \in Row
  BY DEF Row, RowStatus, Lessee
<1>3. rows' \in [Seqs -> Row]
  BY <1>1, <1>2 DEF TypeOK, Applied
<1>4. task' \in [Worker -> Task]
  BY IdleTask DEF TypeOK, Applied
<1> QED BY <1>3, <1>4 DEF TypeOK, Applied

\* A request that is completed, and a row that is reconciled.
LEMMA TypeReconcile ==
  ASSUME TypeOK, NEW s \in Seqs
  PROVE  /\ [rows EXCEPT ![s].reconciled = TRUE] \in [Seqs -> Row]
         /\ [requests EXCEPT ![s].status = "completed", ![s].owner = NoWorker, ![s].live = FALSE]
              \in [Seqs -> Request]
<1>1. [rows[s] EXCEPT !.reconciled = TRUE] \in Row
  BY DEF TypeOK, Row
<1>2. [requests[s] EXCEPT !.status = "completed", !.owner = NoWorker, !.live = FALSE] \in Request
  BY DEF TypeOK, Request, RequestStatus, Lessee
<1> QED BY <1>1, <1>2 DEF TypeOK

\* Reconciling a row that is there keeps what the watermark needs.
LEMMA ReconciledTable ==
  ASSUME TypeOK, StagedOnly, WatermarkTruthful, NEW s \in Seqs, rows[s].status # "absent",
         rows' = [rows EXCEPT ![s].reconciled = TRUE]
  PROVE  /\ rows' \in [Seqs -> Row]
         /\ \A t \in Seqs : t > staged => rows'[t].status = "absent"
         /\ \A t \in Seqs : rows'[t].status = "absent" => ~rows'[t].reconciled
         /\ \A t \in Seqs : t <= watermark => rows'[t].status = "absent" \/ Settled(rows'[t])
         /\ AppliedWatermark(rows') \in 0..staged
         /\ \A t \in Seqs : t <= AppliedWatermark(rows') =>
              rows'[t].status = "absent" \/ Settled(rows'[t])
<1>1. rows' \in [Seqs -> Row]
  BY TypeReconcile
<1>2. \A t \in Seqs : /\ rows'[t].status = rows[t].status
                      /\ rows'[t].reconciled = IF t = s THEN TRUE ELSE rows[t].reconciled
  BY DEF TypeOK, Row
<1>3. /\ \A t \in Seqs : t > staged => rows'[t].status = "absent"
      /\ \A t \in Seqs : rows'[t].status = "absent" => ~rows'[t].reconciled
  BY <1>2 DEF StagedOnly
<1>4. \A t \in Seqs : t <= watermark => rows'[t].status = "absent" \/ Settled(rows'[t])
  BY <1>2 DEF WatermarkTruthful, Settled
<1>5. staged \in 0..MaxSeq /\ watermark \in 0..staged
  BY EventAssumption DEF TypeOK, StagedOnly
<1> HIDE DEF TypeOK
<1> QED BY <1>1, <1>3, <1>4, <1>5, WatermarkFacts

LEMMA TypeReconciled ==
  ASSUME TypeOK, TasksOnEvents, StagedOnly, WatermarkTruthful, NEW w \in Worker, Reconciled(w)
  PROVE  TypeOK'
<1>1. task[w].seq \in Seqs /\ rows[task[w].seq].status = "leased"
  BY HeldEvent DEF Reconciled, At
<1>2. rows' \in [Seqs -> Row] /\ AppliedWatermark(rows') \in 0..staged
  BY <1>1, ReconciledTable DEF Reconciled
<1>3. watermark' \in 0..MaxSeq
  BY <1>2, EventAssumption DEF TypeOK, Reconciled
<1>4. requests' \in [Seqs -> Request]
  BY <1>1, TypeReconcile DEF TypeOK, Reconciled
<1>5. task' \in [Worker -> Task]
  BY TypeTask, EventAssumption DEF TypeOK, Reconciled
<1> QED BY <1>2, <1>3, <1>4, <1>5 DEF TypeOK, Reconciled

LEMMA TypeCompleteReconciliation ==
  ASSUME TypeOK, TasksOnEvents, StagedOnly, WatermarkTruthful, NEW w \in Worker,
         CompleteReconciliation(w)
  PROVE  TypeOK'
<1>1. task[w].seq \in Seqs /\ rows[task[w].seq].status = "dead_letter"
  BY HeldRequest DEF CompleteReconciliation, At
<1>2. rows' \in [Seqs -> Row] /\ AppliedWatermark(rows') \in 0..staged
  BY <1>1, ReconciledTable DEF CompleteReconciliation
<1>3. watermark' \in 0..MaxSeq
  BY <1>2, EventAssumption DEF TypeOK, CompleteReconciliation
<1>4. requests' \in [Seqs -> Request]
  BY <1>1, TypeReconcile DEF CompleteReconciliation
<1>5. task' \in [Worker -> Task]
  BY IdleTask DEF TypeOK, CompleteReconciliation
<1> QED BY <1>2, <1>3, <1>4, <1>5 DEF TypeOK, CompleteReconciliation

LEMMA TypeAdvance ==
  ASSUME TypeOK, StagedOnly, WatermarkTruthful, AdvanceAppliedWatermark PROVE TypeOK'
<1>1. rows \in [Seqs -> Row] /\ staged \in 0..MaxSeq /\ watermark \in 0..staged
  BY EventAssumption DEF TypeOK, StagedOnly
<1>2. AppliedWatermark(rows) \in 0..staged
  BY <1>1, WatermarkFacts DEF StagedOnly, WatermarkTruthful
<1>3. watermark' \in 0..MaxSeq
  BY <1>1, <1>2, EventAssumption DEF AdvanceAppliedWatermark
<1> QED BY <1>3 DEF TypeOK, AdvanceAppliedWatermark

LEMMA TypeAttemptFails ==
  ASSUME TypeOK, TasksOnEvents, AttemptsLeft, NEW w \in Worker, AttemptFails(w) PROVE TypeOK'
<1> DEFINE s == task[w].seq
<1>1. task' \in [Worker -> Task] /\ faults' \in Nat
  BY IdleTask DEF TypeOK, AttemptFails, Fault
<1>2. rows' \in [Seqs -> Row] /\ requests' \in [Seqs -> Request]
  <2>1. CASE Working(w, "event")
    <3>1. s \in Seqs /\ rows[s].status = "leased"
      BY <2>1, HeldEvent DEF AttemptFails
    <3>2. rows[s].attempts + 1 \in 0..MaxAttempts
      BY <3>1, EventAssumption DEF TypeOK, Row, AttemptsLeft
    <3>3. \A st \in {"dead_letter", "pending"} :
            [Released(rows[s]) EXCEPT !.attempts = rows[s].attempts + 1, !.status = st] \in Row
      BY <3>1, <3>2, ReleasedRow DEF TypeOK, RowStatus
    <3>4. RetryOrDeadLetter(s)
      BY <2>1 DEF AttemptFails
    <3>5. rows' \in [Seqs -> Row]
      BY <3>1, <3>3, <3>4 DEF TypeOK, RetryOrDeadLetter
    <3>6. [requests[s] EXCEPT !.status = "pending"] \in Request
      BY <3>1 DEF TypeOK, Request, RequestStatus
    <3>7. requests' \in [Seqs -> Request]
      BY <3>1, <3>4, <3>6 DEF TypeOK, RetryOrDeadLetter
    <3> QED BY <3>5, <3>7
  <2>2. CASE ~Working(w, "event")
    <3>1. s \in Seqs
      BY <2>2 DEF AttemptFails, TasksOnEvents, Working
    <3>2. requests[s].attempts + 1 \in Nat
      BY <3>1 DEF TypeOK, Request
    <3>3. \A st \in {"failed", "pending"} :
            [Released(requests[s]) EXCEPT !.attempts = requests[s].attempts + 1, !.status = st]
              \in Request
      BY <3>1, <3>2, ReleasedRequest DEF TypeOK, RequestStatus
    <3>4. RetryReconciliation(s)
      BY <2>2 DEF AttemptFails
    <3> QED BY <3>1, <3>3, <3>4 DEF TypeOK, RetryReconciliation
  <2> QED BY <2>1, <2>2
<1> QED BY <1>1, <1>2 DEF TypeOK, AttemptFails

LEMMA TypeOperatorRetry ==
  ASSUME TypeOK, OperatorRetryFailedReconciliations PROVE TypeOK'
<1>1. ASSUME NEW s \in Seqs PROVE Released(requests[s]) \in Request
  <2>1. "pending" \in RequestStatus /\ 0 \in Nat
    BY DEF RequestStatus
  <2> QED BY <2>1, ReleasedRequest DEF TypeOK
<1>2. requests' \in [Seqs -> Request]
  BY <1>1 DEF TypeOK, OperatorRetryFailedReconciliations
<1> QED BY <1>2 DEF TypeOK, OperatorRetryFailedReconciliations, Fault

-----------------------------------------------------------------------------
(* What a step does to the rows and requests, whichever action takes it. *)

\* Row s is as it was, but perhaps for its lease.
Kept(s) ==
  /\ rows'[s].status = rows[s].status
  /\ rows'[s].attempts = rows[s].attempts
  /\ rows'[s].reconciled = rows[s].reconciled

KeptBut(s) == \A t \in Seqs : t # s => Kept(t)

RowStaged ==
  /\ staged + 1 \in Seqs
  /\ KeptBut(staged + 1)
  /\ Kept(staged + 1) \/ (/\ rows'[staged + 1].status = "pending"
                          /\ rows'[staged + 1].attempts = rows[staged + 1].attempts)

RowClaimed(s) ==
  /\ Claimable(s) /\ KeptBut(s)
  /\ rows'[s].status = "leased"
  /\ rows'[s].attempts = rows[s].attempts
  /\ rows'[s].reconciled = rows[s].reconciled

RowsFiltered ==
  \A s \in Seqs : Kept(s) \/ (Due(rows[s]) /\ rows'[s].status = "filtered_scope")

RowLeft(s) ==
  /\ rows[s].status = "leased" /\ KeptBut(s)
  /\ rows'[s].status \in {"pending", "applied", "dead_letter"}
  /\ rows'[s].status = "pending" => rows'[s].attempts < MaxAttempts
  /\ (rows'[s].status = "dead_letter" /\ requests[s].status = "absent")
       => requests'[s].status = "pending"
  /\ rows'[s].reconciled = rows[s].reconciled

RowReconciled(s) ==
  /\ rows[s].status \in {"leased", "dead_letter"} /\ KeptBut(s)
  /\ rows'[s].status = rows[s].status
  /\ rows'[s].attempts = rows[s].attempts
  /\ rows'[s].reconciled

RowStep ==
  \/ staged' = staged /\ \/ \A s \in Seqs : Kept(s)
                         \/ RowsFiltered
                         \/ \E s \in Seqs : RowClaimed(s) \/ RowLeft(s) \/ RowReconciled(s)
  \/ staged' = staged + 1 /\ RowStaged

RequestKept(s) == requests'[s].status = requests[s].status

RequestStep ==
  \A s \in Seqs :
    \/ RequestKept(s)
    \/ /\ requests[s].status \in {"pending", "leased", "failed"}
       /\ requests'[s].status \in {"pending", "leased", "failed"}
    \/ /\ requests[s].status = "absent" /\ requests'[s].status = "pending"
       /\ rows'[s].status = "dead_letter"
    \/ /\ requests[s].status = "leased" /\ requests'[s].status = "completed"
       /\ rows'[s].reconciled

\* The facts of IInv that describe the tables before a step.
Tables == TypeOK /\ TasksOnEvents /\ AttemptsLeft /\ StagedOnly /\ RequestsOfDeadLetters

LEMMA StageStep == ASSUME Tables, Stage PROVE RowStep /\ RequestStep
<1>1. staged + 1 \in Seqs
  BY EventAssumption DEF Tables, TypeOK, Stage, Seqs
<1>2. RowStaged
  BY <1>1 DEF Tables, TypeOK, Row, Stage, RowStaged, KeptBut, Kept
<1> QED BY <1>2 DEF Stage, RowStep, RequestStep, RequestKept

LEMMA FilterStep == ASSUME Tables, FilterOutsideScope PROVE RowStep /\ RequestStep
<1>1. RowsFiltered
  BY DEF Tables, TypeOK, Row, FilterOutsideScope, RowsFiltered, Kept
<1> QED BY <1>1 DEF FilterOutsideScope, RowStep, RequestStep, RequestKept

LEMMA ClaimStep == ASSUME Tables, NEW w \in Worker, Claim(w) PROVE RowStep /\ RequestStep
<1>1. PICK s \in Seqs :
        /\ Claimable(s)
        /\ rows' = [rows EXCEPT ![s].status = "leased", ![s].owner = w, ![s].live = TRUE]
  BY DEF Claim
<1>2. RowClaimed(s)
  BY <1>1 DEF Tables, TypeOK, Row, RowClaimed, KeptBut, Kept
<1> QED BY <1>2 DEF Claim, RowStep, RequestStep, RequestKept

LEMMA ClaimReconciliationStep ==
  ASSUME Tables, NEW w \in Worker, ClaimReconciliation(w) PROVE RowStep /\ RequestStep
<1>1. RowStep
  BY DEF ClaimReconciliation, RowStep, Kept
<1>2. RequestStep
  BY DEF Tables, TypeOK, Request, ClaimReconciliation, RestoreClaimable, Due, RequestStep, RequestKept
<1> QED BY <1>1, <1>2

LEMMA LeaseStep ==
  ASSUME Tables, NEW w \in Worker, Renew(w) \/ FinishRestore(w)
  PROVE  RowStep /\ RequestStep
<1> DEFINE s == task[w].seq
<1>0. rows \in [Seqs -> Row] /\ requests \in [Seqs -> Request]
  BY DEF Tables, TypeOK
<1>1. /\ \/ rows' = rows
         \/ rows' = [rows EXCEPT ![s] = [@ EXCEPT !.live = TRUE]]
         \/ rows' = [rows EXCEPT ![s] = [@ EXCEPT !.restored = TRUE]]
      /\ \/ requests' = requests
         \/ requests' = [requests EXCEPT ![s] = [@ EXCEPT !.live = TRUE]]
         \/ requests' = [requests EXCEPT ![s] = [@ EXCEPT !.restored = TRUE]]
      /\ staged' = staged
  BY DEF Renew, FinishRestore
<1>2. \A t \in Seqs : Kept(t)
  BY <1>0, <1>1 DEF Row, Kept
<1>3. \A t \in Seqs : RequestKept(t)
  BY <1>0, <1>1 DEF Request, RequestKept
<1> QED BY <1>1, <1>2, <1>3 DEF RowStep, RequestStep

LEMMA ExpireStep == ASSUME Tables, ExpireLease PROVE RowStep /\ RequestStep
<1>1. RowStep
  BY DEF Tables, TypeOK, Row, ExpireLease, RowStep, Kept
<1>2. RequestStep
  BY DEF Tables, TypeOK, Request, ExpireLease, RequestStep, RequestKept
<1> QED BY <1>1, <1>2

LEMMA YieldStep ==
  ASSUME Tables, NEW w \in Worker, YieldRestore(w) PROVE RowStep /\ RequestStep
<1> DEFINE s == task[w].seq
<1>1. CASE Working(w, "event")
  <2>1. s \in Seqs /\ rows[s].status = "leased"
    BY <1>1, HeldEvent DEF Tables, YieldRestore, HoldsLive
  <2>2. rows' = [rows EXCEPT ![s] = Released(@)] /\ UNCHANGED <<requests, staged>>
    BY <1>1 DEF YieldRestore
  <2>3. RowLeft(s)
    BY <2>1, <2>2 DEF Tables, TypeOK, Row, AttemptsLeft, Released, RowLeft, KeptBut, Kept
  <2> QED BY <2>1, <2>2, <2>3 DEF RowStep, RequestStep, RequestKept
<1>2. CASE ~Working(w, "event")
  <2>1. s \in Seqs /\ requests[s].status = "leased"
    BY <1>2, RestoringEvent, HeldRequest DEF Tables, YieldRestore, HoldsLive
  <2>2. requests' = [requests EXCEPT ![s] = Released(@)] /\ UNCHANGED <<rows, staged>>
    BY <1>2 DEF YieldRestore
  <2>3. RequestStep
    BY <2>1, <2>2 DEF Tables, TypeOK, Request, Released, RequestStep, RequestKept
  <2> QED BY <2>2, <2>3 DEF RowStep, Kept
<1> QED BY <1>1, <1>2

LEMMA AppliedStep == ASSUME Tables, NEW w \in Worker, Applied(w) PROVE RowStep /\ RequestStep
<1> DEFINE s == task[w].seq
<1>1. s \in Seqs /\ rows[s].status = "leased"
  BY HeldEvent DEF Tables, Applied, At
<1>2. RowLeft(s)
  BY <1>1 DEF Tables, TypeOK, Row, Applied, RowLeft, KeptBut, Kept
<1> QED BY <1>1, <1>2 DEF Applied, RowStep, RequestStep, RequestKept

LEMMA AttemptFailsStep ==
  ASSUME Tables, NEW w \in Worker, AttemptFails(w) PROVE RowStep /\ RequestStep
<1> DEFINE s == task[w].seq
<1>1. CASE Working(w, "event")
  <2>1. s \in Seqs /\ rows[s].status = "leased"
    BY <1>1, HeldEvent DEF Tables, AttemptFails
  <2>2. RetryOrDeadLetter(s) /\ staged' = staged
    BY <1>1 DEF AttemptFails
  <2>3. requests[s].status = "absent"
    BY <2>1 DEF Tables, RequestsOfDeadLetters
  <2>4. /\ KeptBut(s)
        /\ rows'[s].attempts = rows[s].attempts + 1 /\ rows'[s].reconciled = rows[s].reconciled
        /\ rows'[s].status = IF rows[s].attempts + 1 >= MaxAttempts THEN "dead_letter" ELSE "pending"
    BY <2>1, <2>2 DEF Tables, TypeOK, Row, RetryOrDeadLetter, Released, KeptBut, Kept
  <2>5. /\ \A t \in Seqs : t # s => RequestKept(t)
        /\ IF rows[s].attempts + 1 >= MaxAttempts THEN requests'[s].status = "pending" ELSE RequestKept(s)
    BY <2>1, <2>2, <2>3 DEF Tables, TypeOK, Request, RetryOrDeadLetter, RequestKept
  <2>6. rows[s].attempts \in Nat
    BY <2>1, EventAssumption DEF Tables, TypeOK, Row
  <2>7. RowLeft(s)
    BY <2>1, <2>4, <2>5, <2>6, EventAssumption DEF RowLeft
  <2>8. RequestStep
    BY <2>3, <2>4, <2>5 DEF RequestStep
  <2> QED BY <2>1, <2>2, <2>7, <2>8 DEF RowStep
<1>2. CASE ~Working(w, "event")
  <2>1. Working(w, "request")
    BY <1>2 DEF AttemptFails, Working, Tables, TypeOK, Task
  <2>2. s \in Seqs /\ requests[s].status = "leased"
    BY <2>1, HeldRequest DEF Tables, AttemptFails
  <2>3. RetryReconciliation(s) /\ staged' = staged
    BY <1>2 DEF AttemptFails
  <2>4. RequestStep
    BY <2>2, <2>3 DEF Tables, TypeOK, Request, RetryReconciliation, Released, RequestStep, RequestKept
  <2> QED BY <2>3, <2>4 DEF RetryReconciliation, RowStep, Kept
<1> QED BY <1>1, <1>2

LEMMA ReconciledStep ==
  ASSUME Tables, NEW w \in Worker, Reconciled(w) PROVE RowStep /\ RequestStep
<1> DEFINE s == task[w].seq
<1>1. s \in Seqs /\ rows[s].status = "leased"
  BY HeldEvent DEF Tables, Reconciled, At
<1>2. RowReconciled(s)
  BY <1>1 DEF Tables, TypeOK, Row, Reconciled, RowReconciled, KeptBut, Kept
<1>3. requests' = requests
  BY <1>1 DEF Tables, RequestsOfDeadLetters, Reconciled
<1> QED BY <1>1, <1>2, <1>3 DEF Reconciled, RowStep, RequestStep, RequestKept

LEMMA CompleteStep ==
  ASSUME Tables, NEW w \in Worker, CompleteReconciliation(w) PROVE RowStep /\ RequestStep
<1> DEFINE s == task[w].seq
<1>1. s \in Seqs /\ requests[s].status = "leased" /\ rows[s].status = "dead_letter"
  BY HeldRequest DEF Tables, CompleteReconciliation, At
<1>2. RowReconciled(s)
  BY <1>1 DEF Tables, TypeOK, Row, CompleteReconciliation, RowReconciled, KeptBut, Kept
<1>3. RequestStep
  BY <1>1, <1>2 DEF Tables, TypeOK, Request, CompleteReconciliation, RowReconciled, RequestStep, RequestKept
<1> QED BY <1>1, <1>2, <1>3 DEF CompleteReconciliation, RowStep

LEMMA OperatorStep ==
  ASSUME Tables, OperatorRetryFailedReconciliations PROVE RowStep /\ RequestStep
<1>1. RowStep
  BY DEF OperatorRetryFailedReconciliations, RowStep, Kept
<1>2. RequestStep
  BY DEF Tables, TypeOK, Request, OperatorRetryFailedReconciliations, Released, RequestStep, RequestKept
<1> QED BY <1>1, <1>2

\* Every other step leaves rows, requests and what is staged alone.
Quiet == UNCHANGED <<rows, requests, staged>>

LEMMA QuietWorld ==
  ASSUME Emits \/ ScopeMoves \/ AdvanceAppliedWatermark \/ UNCHANGED vars
  PROVE  Quiet
BY DEF Quiet, Emits, ScopeMoves, AdvanceAppliedWatermark, vars

LEMMA QuietWorker ==
  ASSUME NEW w \in Worker,
         \/ Crash(w) \/ Project(w) \/ ReadRepository(w) \/ WriteRecords(w)
         \/ ClaimLost(w) \/ OutcomeLost(w)
  PROVE  Quiet
BY DEF Quiet, Crash, Project, ReadRepository, WriteRecords, ClaimLost, OutcomeLost

LEMMA QuietStep == ASSUME Quiet PROVE RowStep /\ RequestStep
BY DEF Quiet, RowStep, Kept, RequestStep, RequestKept

LEMMA NextStep == ASSUME Tables, [Next]_vars PROVE RowStep /\ RequestStep
<1>1. ASSUME NEW w \in Worker, WorkerStep(w) PROVE RowStep /\ RequestStep
  BY <1>1, ClaimStep, ClaimReconciliationStep, LeaseStep, YieldStep, AppliedStep, AttemptFailsStep,
     ReconciledStep, CompleteStep, QuietWorker, QuietStep DEF WorkerStep
<1> QED BY <1>1, StageStep, FilterStep, ExpireStep, OperatorStep, QuietWorld, QuietStep DEF Next

-----------------------------------------------------------------------------
(* What a step does to leases and tasks. *)

\* A lease is kept or given up, and so is a task.
RowCalm(s) ==
  rows'[s].status = "leased" =>
    /\ rows[s].status = "leased"
    /\ rows'[s].owner = rows[s].owner /\ rows'[s].live = rows[s].live
RequestCalm(s) ==
  requests'[s].status = "leased" =>
    /\ requests[s].status = "leased"
    /\ requests'[s].owner = requests[s].owner /\ requests'[s].live = requests[s].live
TasksFollow ==
  \A v \in Worker : task'[v].kind # "idle" =>
    task'[v].kind = task[v].kind /\ task'[v].seq = task[v].seq

\* Nobody gains a lease or a task, and none lapses.
Calm == TasksFollow /\ \A s \in Seqs : RowCalm(s) /\ RequestCalm(s)

LEMMA CalmWorld ==
  ASSUME TypeOK, \/ Emits \/ Stage \/ ScopeMoves \/ FilterOutsideScope
                 \/ AdvanceAppliedWatermark \/ OperatorRetryFailedReconciliations \/ UNCHANGED vars
  PROVE  Calm
<1>1. CASE Emits \/ ScopeMoves \/ AdvanceAppliedWatermark \/ UNCHANGED vars
  BY <1>1 DEF Emits, ScopeMoves, AdvanceAppliedWatermark, vars, Calm, TasksFollow, RowCalm, RequestCalm
<1>2. CASE Stage
  BY <1>2 DEF TypeOK, Row, Stage, Calm, TasksFollow, RowCalm, RequestCalm
<1>3. CASE FilterOutsideScope
  BY <1>3 DEF TypeOK, Row, FilterOutsideScope, Calm, TasksFollow, RowCalm, RequestCalm
<1>4. CASE OperatorRetryFailedReconciliations
  BY <1>4 DEF TypeOK, Request, Released, OperatorRetryFailedReconciliations, Calm, TasksFollow, RowCalm, RequestCalm
<1> QED BY <1>1, <1>2, <1>3, <1>4

\* A task that is dropped or moves on to its next step.
LEMMA TaskDropped ==
  ASSUME TypeOK, NEW w \in Worker, task' = [task EXCEPT ![w] = Idle] PROVE TasksFollow
<1>1. Idle.kind = "idle"
  BY DEF Idle
<1> QED BY <1>1 DEF TypeOK, TasksFollow

LEMMA TaskMoved ==
  ASSUME TypeOK, NEW w \in Worker, NEW i \in Task, i.kind = task[w].kind, i.seq = task[w].seq,
         task' = [task EXCEPT ![w] = i]
  PROVE  TasksFollow
BY DEF TypeOK, TasksFollow

LEMMA TaskFields ==
  ASSUME TypeOK, NEW w \in Worker
  PROVE  /\ \A st \in {"claimed", "read", "written", "restored", "done"} :
              LET i == [task[w] EXCEPT !.step = st] IN
              i \in Task /\ i.kind = task[w].kind /\ i.seq = task[w].seq
         /\ \A st \in {"claimed", "read", "written", "restored", "done"}, n \in 0..MaxSeq :
              LET i == [task[w] EXCEPT !.step = st, !.snap = n] IN
              i \in Task /\ i.kind = task[w].kind /\ i.seq = task[w].seq
BY DEF TypeOK, Task

LEMMA TaskStepped ==
  ASSUME TypeOK, NEW w \in Worker,
         \/ Project(w) \/ WriteRecords(w) \/ Reconciled(w) \/ FinishRestore(w) \/ ReadRepository(w)
  PROVE  TasksFollow
<1>0. 0 \in 0..MaxSeq /\ pds \in 0..MaxSeq
  BY EventAssumption DEF TypeOK
<1>1. CASE Project(w) \/ Reconciled(w)
  <2>1. task' = [task EXCEPT ![w] = [task[w] EXCEPT !.step = "done"]]
    BY <1>1 DEF Project, Reconciled
  <2> QED BY <2>1, TaskFields, TaskMoved
<1>2. CASE WriteRecords(w)
  <2>1. task' = [task EXCEPT ![w] = [task[w] EXCEPT !.step = "written"]]
    BY <1>2 DEF WriteRecords
  <2> QED BY <2>1, TaskFields, TaskMoved
<1>3. CASE FinishRestore(w)
  <2>1. task' = [task EXCEPT ![w] = [task[w] EXCEPT !.step = "restored", !.snap = 0]]
    BY <1>3 DEF FinishRestore
  <2> QED BY <1>0, <2>1, TaskFields, TaskMoved
<1>4. CASE ReadRepository(w)
  <2>1. \/ task' = [task EXCEPT ![w] = [task[w] EXCEPT !.step = "restored"]]
        \/ task' = [task EXCEPT ![w] = [task[w] EXCEPT !.step = "read", !.snap = pds]]
    BY <1>4 DEF ReadRepository
  <2> QED BY <1>0, <2>1, TaskFields, TaskMoved
<1> QED BY <1>1, <1>2, <1>3, <1>4

LEMMA CalmWorker ==
  ASSUME TypeOK, TasksOnEvents, NEW w \in Worker,
         \/ Crash(w) \/ ClaimLost(w) \/ OutcomeLost(w) \/ Project(w) \/ WriteRecords(w)
         \/ ReadRepository(w) \/ FinishRestore(w) \/ YieldRestore(w) \/ Reconciled(w) \/ Applied(w)
         \/ AttemptFails(w) \/ CompleteReconciliation(w)
  PROVE  Calm
<1> DEFINE s == task[w].seq
<1>1. TasksFollow
  <2>1. CASE \/ Project(w) \/ WriteRecords(w) \/ Reconciled(w) \/ FinishRestore(w)
             \/ ReadRepository(w)
    BY <2>1, TaskStepped
  <2>2. CASE \/ Crash(w) \/ ClaimLost(w) \/ OutcomeLost(w) \/ YieldRestore(w) \/ Applied(w)
             \/ AttemptFails(w) \/ CompleteReconciliation(w)
    <3>1. task' = [task EXCEPT ![w] = Idle]
      BY <2>2 DEF Crash, ClaimLost, OutcomeLost, YieldRestore, Applied, AttemptFails,
                  CompleteReconciliation
    <3> QED BY <3>1, TaskDropped
  <2> QED BY <2>1, <2>2
<1>2. ASSUME NEW t \in Seqs PROVE RowCalm(t) /\ RequestCalm(t)
  <2>0. /\ rows \in [Seqs -> Row] /\ rows[t] \in Row
        /\ requests \in [Seqs -> Request] /\ requests[t] \in Request
    BY DEF TypeOK
  <2>1. CASE \/ Crash(w) \/ ClaimLost(w) \/ OutcomeLost(w) \/ Project(w) \/ WriteRecords(w)
             \/ ReadRepository(w)
    BY <2>1 DEF Crash, ClaimLost, OutcomeLost, Project, WriteRecords, ReadRepository,
                RowCalm, RequestCalm
  <2>2. CASE FinishRestore(w)
    <3>1. /\ rows' = rows \/ rows' = [rows EXCEPT ![s] = [@ EXCEPT !.restored = TRUE]]
          /\ requests' = requests \/ requests' = [requests EXCEPT ![s] = [@ EXCEPT !.restored = TRUE]]
      BY <2>2 DEF FinishRestore
    <3>2. /\ rows'[t] = rows[t] \/ rows'[t] = [rows[t] EXCEPT !.restored = TRUE]
          /\ requests'[t] = requests[t] \/ requests'[t] = [requests[t] EXCEPT !.restored = TRUE]
      BY <2>0, <3>1
    <3> QED BY <2>0, <3>2 DEF Row, Request, RowCalm, RequestCalm
  <2>3. CASE YieldRestore(w)
    <3>1. /\ rows' = rows \/ rows' = [rows EXCEPT ![s] = Released(@)]
          /\ requests' = requests \/ requests' = [requests EXCEPT ![s] = Released(@)]
      BY <2>3 DEF YieldRestore
    <3>2. /\ rows'[t] = rows[t] \/ rows'[t] = Released(rows[t])
          /\ requests'[t] = requests[t] \/ requests'[t] = Released(requests[t])
      BY <2>0, <3>1
    <3> QED BY <2>0, <3>2 DEF Row, Request, Released, RowCalm, RequestCalm
  <2>4. CASE Reconciled(w) \/ CompleteReconciliation(w)
    <3>1. /\ rows' = [rows EXCEPT ![s] = [@ EXCEPT !.reconciled = TRUE]]
          /\ \/ requests' = requests
             \/ requests' = [requests EXCEPT ![s] = [@ EXCEPT !.status = "completed",
                               !.owner = NoWorker, !.live = FALSE]]
      BY <2>4 DEF Reconciled, CompleteReconciliation
    <3>2. /\ rows'[t] = rows[t] \/ rows'[t] = [rows[t] EXCEPT !.reconciled = TRUE]
          /\ \/ requests'[t] = requests[t]
             \/ requests'[t] = [requests[t] EXCEPT !.status = "completed", !.owner = NoWorker,
                                  !.live = FALSE]
      BY <2>0, <3>1
    <3> QED BY <2>0, <3>2 DEF Row, Request, RowCalm, RequestCalm
  <2>5. CASE Applied(w)
    <3>1. /\ rows' = [rows EXCEPT ![s] = [@ EXCEPT !.status = "applied", !.owner = NoWorker,
                        !.live = FALSE]]
          /\ requests' = requests
      BY <2>5 DEF Applied
    <3>2. \/ rows'[t] = rows[t]
          \/ rows'[t] = [rows[t] EXCEPT !.status = "applied", !.owner = NoWorker, !.live = FALSE]
      BY <2>0, <3>1
    <3> QED BY <2>0, <3>1, <3>2 DEF Row, RowCalm, RequestCalm
  <2>6. CASE AttemptFails(w)
    <3>1. CASE RetryOrDeadLetter(s)
      <4>1. PICK st \in {"dead_letter", "pending"} :
              rows' = [rows EXCEPT ![s] =
                         [Released(@) EXCEPT !.attempts = rows[s].attempts + 1, !.status = st]]
        BY <3>1 DEF RetryOrDeadLetter
      <4>2. \/ requests' = requests
            \/ requests' = [requests EXCEPT ![s] = [@ EXCEPT !.status = "pending"]]
        BY <3>1 DEF RetryOrDeadLetter
      <4>3. /\ \/ rows'[t] = rows[t]
               \/ rows'[t] = [Released(rows[t]) EXCEPT !.attempts = rows[s].attempts + 1, !.status = st]
            /\ \/ requests'[t] = requests[t]
               \/ requests'[t] = [requests[t] EXCEPT !.status = "pending"]
        BY <2>0, <4>1, <4>2
      <4> QED BY <2>0, <4>3 DEF Row, Request, Released, RowCalm, RequestCalm
    <3>2. CASE RetryReconciliation(s)
      <4>1. PICK st \in {"failed", "pending"} :
              requests' = [requests EXCEPT ![s] =
                             [Released(@) EXCEPT !.attempts = requests[s].attempts + 1, !.status = st]]
        BY <3>2 DEF RetryReconciliation
      <4>2. \/ requests'[t] = requests[t]
            \/ requests'[t] = [Released(requests[t]) EXCEPT !.attempts = requests[s].attempts + 1, !.status = st]
        BY <2>0, <4>1
      <4>3. rows' = rows
        BY <3>2 DEF RetryReconciliation
      <4> QED BY <2>0, <4>2, <4>3 DEF Request, Released, RowCalm, RequestCalm
    <3> QED BY <2>6, <3>1, <3>2 DEF AttemptFails
  <2> QED BY <2>1, <2>2, <2>3, <2>4, <2>5, <2>6
<1> QED BY <1>1, <1>2 DEF Calm

\* A claim gives its worker the task, and the lease is in force.
LEMMA ClaimTaken ==
  ASSUME TypeOK, NEW w \in Worker, Claim(w)
  PROVE  \E s \in Seqs :
           /\ Claimable(s) /\ requests' = requests
           /\ rows'[s].live /\ \A t \in Seqs : t # s => rows'[t] = rows[t]
           /\ task'[w].kind = "event" /\ task'[w].seq = s
           /\ \A v \in Worker : v # w => task'[v] = task[v]
<1>1. PICK s \in Seqs :
        /\ Claimable(s)
        /\ rows' = [rows EXCEPT ![s].status = "leased", ![s].owner = w, ![s].live = TRUE]
        /\ task' = [task EXCEPT ![w] = [Idle EXCEPT !.kind = "event", !.seq = s]]
  BY DEF Claim
<1>2. \A i \in Task : /\ [i EXCEPT !.kind = "event", !.seq = s].kind = "event"
                     /\ [i EXCEPT !.kind = "event", !.seq = s].seq = s
  BY DEF Task
<1>3. task'[w].kind = "event" /\ task'[w].seq = s /\ \A v \in Worker : v # w => task'[v] = task[v]
  BY <1>1, <1>2, IdleTask DEF TypeOK
<1>4. rows'[s].live /\ \A t \in Seqs : t # s => rows'[t] = rows[t]
  BY <1>1 DEF TypeOK, Row
<1> QED BY <1>1, <1>3, <1>4 DEF Claim

LEMMA ReconciliationTaken ==
  ASSUME TypeOK, NEW w \in Worker, ClaimReconciliation(w)
  PROVE  \E s \in Seqs :
           /\ RestoreClaimable(s) /\ rows' = rows
           /\ requests'[s].live /\ \A t \in Seqs : t # s => requests'[t] = requests[t]
           /\ task'[w].kind = "request" /\ task'[w].seq = s
           /\ \A v \in Worker : v # w => task'[v] = task[v]
<1>1. PICK s \in Seqs :
        /\ RestoreClaimable(s)
        /\ requests' = [requests EXCEPT ![s].status = "leased", ![s].owner = w, ![s].live = TRUE]
        /\ task' = [task EXCEPT ![w] = [Idle EXCEPT !.kind = "request", !.seq = s]]
  BY DEF ClaimReconciliation
<1>2. \A i \in Task : /\ [i EXCEPT !.kind = "request", !.seq = s].kind = "request"
                     /\ [i EXCEPT !.kind = "request", !.seq = s].seq = s
  BY DEF Task
<1>3. task'[w].kind = "request" /\ task'[w].seq = s /\ \A v \in Worker : v # w => task'[v] = task[v]
  BY <1>1, <1>2, IdleTask DEF TypeOK
<1>4. requests'[s].live /\ \A t \in Seqs : t # s => requests'[t] = requests[t]
  BY <1>1 DEF TypeOK, Request
<1> QED BY <1>1, <1>3, <1>4 DEF ClaimReconciliation

\* With renewals in time, only a lease nobody works under runs out.
LEMMA LeaseLapsed ==
  ASSUME TypeOK, ~Stalls, ExpireLease
  PROVE  /\ task' = task
         /\ \A s \in Seqs :
              /\ rows'[s].status = rows[s].status /\ rows'[s].owner = rows[s].owner
              /\ \/ rows'[s] = rows[s]
                 \/ ~rows'[s].live /\ Abandoned("event", s, rows[s].owner)
              /\ requests'[s].status = requests[s].status /\ requests'[s].owner = requests[s].owner
              /\ \/ requests'[s] = requests[s]
                 \/ ~requests'[s].live /\ Abandoned("request", s, requests[s].owner)
BY DEF TypeOK, Row, Request, ExpireLease, Expires

\* With renewals in time, a renewal changes nothing.
LEMMA RenewedInTime ==
  ASSUME TypeOK, TasksOnEvents, ~Stalls, HeldLeasesLive, NEW w \in Worker, Renew(w)
  PROVE  UNCHANGED <<rows, requests, task>>
<1> DEFINE s == task[w].seq
<1>1. CASE Working(w, "event")
  <2>1. s \in Seqs /\ rows[s].status = "leased" /\ rows[s].owner = w
    BY <1>1, HeldEvent DEF Renew
  <2>2. rows[s].live = TRUE
    BY <1>1, <2>1 DEF HeldLeasesLive, TypeOK, Row
  <2>3. rows' = [rows EXCEPT ![s].live = TRUE] /\ UNCHANGED <<requests, task>>
    BY <1>1 DEF Renew
  <2> QED BY <2>1, <2>2, <2>3 DEF TypeOK, Row
<1>2. CASE ~Working(w, "event")
  <2>0. Working(w, "request")
    BY <1>2 DEF Renew, Working, TypeOK, Task
  <2>1. s \in Seqs /\ requests[s].status = "leased" /\ requests[s].owner = w
    BY <2>0, HeldRequest DEF Renew
  <2>2. requests[s].live = TRUE
    BY <2>0, <2>1 DEF HeldLeasesLive, TypeOK, Request
  <2>3. requests' = [requests EXCEPT ![s].live = TRUE] /\ UNCHANGED <<rows, task>>
    BY <1>2 DEF Renew
  <2> QED BY <2>1, <2>2, <2>3 DEF TypeOK, Request
<1> QED BY <1>1, <1>2

\* Who drops an event in whose claim, and how.
OwnerStep(s) ==
  \/ rows'[s].owner = rows[s].owner
  \/ Due(rows[s])
  \/ /\ rows[s].owner \in Worker
     /\ task[rows[s].owner].kind = "event" /\ task[rows[s].owner].seq = s
     /\ task'[rows[s].owner] = Idle

LEMMA NextOwner == ASSUME TypeOK, TasksOnEvents, [Next]_vars, NEW s \in Seqs PROVE OwnerStep(s)
<1>1. CASE Stage
  BY <1>1 DEF TypeOK, Row, Stage, OwnerStep
<1>2. CASE FilterOutsideScope
  BY <1>2 DEF TypeOK, Row, FilterOutsideScope, OwnerStep
<1>3. CASE ExpireLease
  BY <1>3 DEF TypeOK, Row, ExpireLease, OwnerStep
<1>4. CASE \/ Emits \/ ScopeMoves \/ AdvanceAppliedWatermark \/ OperatorRetryFailedReconciliations
           \/ UNCHANGED vars
  BY <1>4 DEF Emits, ScopeMoves, AdvanceAppliedWatermark, OperatorRetryFailedReconciliations, vars,
              OwnerStep
<1>5. ASSUME NEW w \in Worker, WorkerStep(w) PROVE OwnerStep(s)
  <2>1. CASE Claim(w)
    BY <2>1 DEF TypeOK, Row, Claim, Claimable, OwnerStep
  <2>2. CASE \/ ClaimReconciliation(w) \/ Crash(w) \/ Project(w) \/ ReadRepository(w)
             \/ WriteRecords(w) \/ ClaimLost(w) \/ OutcomeLost(w)
    BY <2>2 DEF ClaimReconciliation, Crash, Project, ReadRepository, WriteRecords, ClaimLost,
                OutcomeLost, OwnerStep
  <2>3. CASE Renew(w) \/ FinishRestore(w)
    BY <2>3 DEF TypeOK, Row, Renew, FinishRestore, OwnerStep
  <2>4. CASE Reconciled(w) \/ CompleteReconciliation(w)
    BY <2>4 DEF TypeOK, Row, Reconciled, CompleteReconciliation, OwnerStep
  <2>5. CASE YieldRestore(w) \/ Applied(w) \/ AttemptFails(w)
    <3>1. CASE Working(w, "event")
      <4>1. /\ task[w].seq \in Seqs /\ rows[task[w].seq].owner = w
            /\ task' = [task EXCEPT ![w] = Idle]
        BY <2>5, <3>1, HeldEvent DEF YieldRestore, Applied, AttemptFails, HoldsLive
      <4>2. \A t \in Seqs : t # task[w].seq => rows'[t] = rows[t]
        BY <2>5, <3>1 DEF TypeOK, YieldRestore, Applied, AttemptFails, RetryOrDeadLetter
      <4>3. task[w].kind = "event" /\ task'[w] = Idle
        BY <3>1, <4>1 DEF TypeOK, Working
      <4> QED BY <4>1, <4>2, <4>3 DEF OwnerStep
    <3>2. CASE ~Working(w, "event")
      BY <2>5, <3>2 DEF YieldRestore, Applied, At, AttemptFails, RetryReconciliation, OwnerStep
    <3> QED BY <3>1, <3>2
  <2> QED BY <1>5, <2>1, <2>2, <2>3, <2>4, <2>5 DEF WorkerStep
<1> QED BY <1>1, <1>2, <1>3, <1>4, <1>5 DEF Next

-----------------------------------------------------------------------------
(* Every step preserves IInv. *)

LEMMA TypeNext ==
  ASSUME Tables, WatermarkTruthful, [Next]_vars PROVE TypeOK'
<1> USE DEF Tables
<1>1. CASE Emits
  BY <1>1, EventAssumption DEF TypeOK, Emits
<1>2. CASE UNCHANGED vars
  BY <1>2 DEF TypeOK, vars
<1>3. ASSUME NEW w \in Worker, WorkerStep(w) PROVE TypeOK'
  BY <1>3, TypeClaim, TypeClaimReconciliation, TypeRenew, TypeCrash, TypeProject, TypeReadRepository,
     TypeWriteRecords, TypeFinishRestore, TypeYieldRestore, TypeReconciled, TypeApplied,
     TypeAttemptFails, TypeClaimLost, TypeOutcomeLost, TypeCompleteReconciliation DEF WorkerStep
<1> QED BY <1>1, <1>2, <1>3, TypeStage, TypeScopeMoves, TypeFilter, TypeExpireLease, TypeAdvance,
           TypeOperatorRetry DEF Next

LEMMA TasksNext == ASSUME TypeOK, TasksOnEvents, [Next]_vars PROVE TasksOnEvents'
<1>1. ASSUME Calm PROVE TasksOnEvents'
  BY <1>1 DEF Calm, TasksFollow, TasksOnEvents
<1>2. ASSUME task' = task PROVE TasksOnEvents'
  BY <1>2 DEF TasksOnEvents
<1>3. ASSUME NEW w \in Worker, WorkerStep(w) PROVE TasksOnEvents'
  <2>1. CASE Claim(w)
    BY <2>1, ClaimTaken DEF TasksOnEvents
  <2>2. CASE ClaimReconciliation(w)
    BY <2>2, ReconciliationTaken DEF TasksOnEvents
  <2>3. CASE Renew(w)
    BY <1>2, <2>3 DEF Renew
  <2> QED BY <1>1, <1>3, <2>1, <2>2, <2>3, CalmWorker DEF WorkerStep
<1>4. CASE ExpireLease
  BY <1>2, <1>4 DEF ExpireLease
<1> QED BY <1>1, <1>3, <1>4, CalmWorld DEF Next

\* Attempts, what is staged and who owes a restore follow from the tables.
LEMMA TablesNext ==
  ASSUME Tables, RowStep, RequestStep, TypeOK'
  PROVE  /\ AttemptsLeft'
         /\ \A s \in Seqs : s > staged' => rows'[s].status = "absent"
         /\ \A s \in Seqs : rows'[s].status = "absent" => ~rows'[s].reconciled
         /\ RequestsOfDeadLetters'
<1>1. AttemptsLeft'
  <2>1. AttemptsLeft
    BY DEF Tables
  <2>2. CASE (\A s \in Seqs : Kept(s)) \/ RowsFiltered
    BY <2>1, <2>2 DEF AttemptsLeft, Kept, RowsFiltered
  <2>3. CASE \E s \in Seqs : RowClaimed(s)
    BY <2>1, <2>3 DEF AttemptsLeft, RowClaimed, Claimable, Due, KeptBut, Kept
  <2>4. CASE \E s \in Seqs : RowLeft(s) \/ RowReconciled(s)
    BY <2>1, <2>4 DEF AttemptsLeft, RowLeft, RowReconciled, KeptBut, Kept
  <2>5. CASE RowStaged
    <3>1. staged + 1 > staged
      BY EventAssumption DEF Tables, TypeOK
    <3>2. rows[staged + 1].status = "absent" /\ staged + 1 \in Seqs
      BY <2>5, <3>1 DEF Tables, StagedOnly, RowStaged
    <3> QED BY <2>1, <2>5, <3>2 DEF AttemptsLeft, RowStaged, KeptBut, Kept
  <2> QED BY <2>2, <2>3, <2>4, <2>5 DEF RowStep
<1>2. ASSUME NEW s \in Seqs, s > staged' PROVE rows'[s].status = "absent"
  <2>1. s \in Nat /\ staged \in Nat
    BY EventAssumption DEF Tables, TypeOK, Seqs
  <2>2. rows[s].status = "absent" /\ (s # staged + 1 \/ staged' = staged)
    BY <1>2, <2>1 DEF Tables, StagedOnly, RowStep
  <2> QED BY <2>1, <2>2 DEF RowStep, RowStaged, RowsFiltered, RowClaimed, RowLeft,
                            RowReconciled, Kept, KeptBut, Claimable, Due
<1>3. \A s \in Seqs : rows'[s].status = "absent" => ~rows'[s].reconciled
  BY DEF Tables, StagedOnly, RowStep, RowStaged, RowsFiltered, RowClaimed, RowLeft,
         RowReconciled, Kept, KeptBut
<1>4. \A s \in Seqs : rows[s].status = "dead_letter" => rows'[s].status = "dead_letter"
  BY DEF Tables, StagedOnly, TypeOK, RowStep, RowStaged, RowsFiltered, RowClaimed, RowLeft,
         RowReconciled, Kept, KeptBut, Claimable, Due
<1>5. RequestsOfDeadLetters'
  BY <1>4 DEF Tables, RequestsOfDeadLetters, RequestStep, RequestKept
<1> QED BY <1>1, <1>2, <1>3, <1>5

\* A settled row stays settled: it leaves its place only when it is staged anew.
LEMMA SettledStaysSettled ==
  ASSUME Tables, RowStep, NEW s \in Seqs, s <= staged, rows[s].status = "absent" \/ Settled(rows[s])
  PROVE  rows'[s].status = "absent" \/ Settled(rows'[s])
<1>1. s # staged + 1
  BY EventAssumption DEF Tables, TypeOK, Seqs
<1>2. CASE (\A t \in Seqs : Kept(t)) \/ RowsFiltered \/ RowStaged
  BY <1>1, <1>2 DEF Kept, RowsFiltered, RowStaged, KeptBut, Settled
<1>3. CASE \E t \in Seqs : RowClaimed(t)
  BY <1>3 DEF RowClaimed, Claimable, Due, KeptBut, Kept, Settled
<1>4. CASE \E t \in Seqs : RowLeft(t) \/ RowReconciled(t)
  BY <1>4 DEF RowLeft, RowReconciled, KeptBut, Kept, Settled
<1> QED BY <1>2, <1>3, <1>4 DEF RowStep

LEMMA WatermarkMoves ==
  ASSUME [Next]_vars
  PROVE  watermark' = watermark \/ (watermark' = AppliedWatermark(rows') /\ staged' = staged)
<1>1. ASSUME NEW w \in Worker, WorkerStep(w)
      PROVE  watermark' = watermark \/ (watermark' = AppliedWatermark(rows') /\ staged' = staged)
  BY <1>1 DEF WorkerStep, Claim, ClaimReconciliation, Renew, Crash, Project, ReadRepository,
     WriteRecords, FinishRestore, YieldRestore, Reconciled, Applied, AttemptFails, ClaimLost,
     OutcomeLost, CompleteReconciliation
<1>2. ASSUME AdvanceAppliedWatermark
      PROVE  watermark' = AppliedWatermark(rows') /\ staged' = staged
  <2>1. rows' = rows /\ watermark' = AppliedWatermark(rows) /\ staged' = staged
    BY <1>2 DEF AdvanceAppliedWatermark
  <2>2. AppliedWatermark(rows') = AppliedWatermark(rows)
    BY <2>1
  <2> QED BY <2>1, <2>2
<1> QED BY <1>1, <1>2 DEF Next, Emits, Stage, ScopeMoves, FilterOutsideScope, ExpireLease,
           OperatorRetryFailedReconciliations, vars

LEMMA WatermarkNext ==
  ASSUME Tables, WatermarkTruthful, RowStep, RequestStep, [Next]_vars, TypeOK'
  PROVE  StagedOnly' /\ WatermarkTruthful'
<1>1. /\ \A s \in Seqs : s > staged' => rows'[s].status = "absent"
      /\ \A s \in Seqs : rows'[s].status = "absent" => ~rows'[s].reconciled
  BY TablesNext
<1>2. staged \in 0..MaxSeq /\ watermark \in 0..staged /\ staged \in Nat /\ watermark \in Nat
  BY EventAssumption DEF Tables, TypeOK, StagedOnly
<1>3. staged' = staged \/ staged' = staged + 1
  BY DEF RowStep
<1>4. \A s \in Seqs : s <= watermark => s <= staged
  BY <1>2, EventAssumption DEF Seqs
<1>5. \A s \in Seqs : s <= watermark => rows'[s].status = "absent" \/ Settled(rows'[s])
  BY <1>4, SettledStaysSettled DEF WatermarkTruthful
<1>6. CASE watermark' = watermark
  <2>1. watermark' <= staged'
    BY <1>2, <1>3, <1>6
  <2> QED BY <1>1, <1>5, <1>6, <2>1 DEF StagedOnly, WatermarkTruthful, Settled
<1>7. CASE watermark' = AppliedWatermark(rows') /\ staged' = staged
  <2>1. rows' \in [Seqs -> Row]
    BY DEF TypeOK
  <2>2. /\ AppliedWatermark(rows') \in 0..staged
        /\ \A s \in Seqs : s <= AppliedWatermark(rows') =>
             rows'[s].status = "absent" \/ Settled(rows'[s])
    BY <1>1, <1>2, <1>5, <1>7, <2>1, WatermarkFacts
  <2>3. watermark' <= staged'
    BY <1>2, <1>7, <2>2
  <2> QED BY <1>1, <1>7, <2>2, <2>3 DEF StagedOnly, WatermarkTruthful, Settled
<1> QED BY <1>6, <1>7, WatermarkMoves

\* Two waiting events of a repository are in order, however their leases move:
\* only the first of a repository is claimed, and what is staged comes last.
LEMMA OrderNext ==
  ASSUME Tables, OneTurnPerRepository, RowStep, TypeOK'
  PROVE  OneTurnPerRepository'
<1> SUFFICES ASSUME NEW s \in Seqs, NEW t \in Seqs, rows'[s].status = "leased", t # s,
                    RepoOf[t] = RepoOf[s], rows'[t].status \in {"pending", "leased"}
             PROVE  s < t /\ rows'[t].status = "pending"
  BY DEF OneTurnPerRepository, Waiting
<1>0. Seqs \subseteq Nat
  BY EventAssumption DEF Seqs
<1>1. CASE \A u \in Seqs : Kept(u)
  BY <1>1 DEF Kept, OneTurnPerRepository, Waiting
<1>2. CASE RowsFiltered
  BY <1>2 DEF RowsFiltered, Kept, OneTurnPerRepository, Waiting
<1>3. CASE \E u \in Seqs : RowReconciled(u)
  BY <1>3 DEF RowReconciled, KeptBut, Kept, OneTurnPerRepository, Waiting
<1>4. ASSUME NEW u \in Seqs, RowLeft(u) PROVE s < t /\ rows'[t].status = "pending"
  BY <1>4 DEF RowLeft, KeptBut, Kept, OneTurnPerRepository, Waiting
<1>5. ASSUME NEW u \in Seqs, RowClaimed(u) PROVE s < t /\ rows'[t].status = "pending"
  <2>1. \A v \in Seqs : v < u /\ RepoOf[v] = RepoOf[u] => ~Waiting(v)
    BY <1>5 DEF RowClaimed, Claimable
  <2>2. Waiting(u)
    BY <1>5 DEF RowClaimed, Claimable, Due, Waiting
  <2>3. \A v \in Seqs : v # u => rows'[v].status = rows[v].status
    BY <1>5 DEF RowClaimed, KeptBut, Kept
  <2>4. CASE s = u
    <3>1. u < t
      BY <1>0, <2>1, <2>3, <2>4 DEF Waiting
    <3>2. rows[t].status # "leased"
      BY <1>0, <2>2, <2>4, <3>1 DEF OneTurnPerRepository
    <3> QED BY <2>3, <2>4, <3>1, <3>2
  <2>5. CASE s # u
    <3>1. rows[s].status = "leased"
      BY <2>3, <2>5
    <3>2. t # u
      <4> SUFFICES ASSUME t = u PROVE FALSE
        OBVIOUS
      <4>1. s < u
        BY <2>2, <3>1, <2>5 DEF OneTurnPerRepository
      <4> QED BY <2>1, <3>1, <4>1 DEF Waiting
    <3> QED BY <2>3, <3>1, <3>2 DEF OneTurnPerRepository, Waiting
  <2> QED BY <2>4, <2>5
<1>6. CASE staged' = staged + 1 /\ RowStaged
  <2>1. /\ staged \in Nat /\ rows[staged + 1].status = "absent"
        /\ \A v \in Seqs : rows[v].status # "absent" => v < staged + 1
    <3>1. staged \in Nat
      BY EventAssumption DEF Tables, TypeOK
    <3>2. \A v \in Seqs : v > staged => rows[v].status = "absent"
      BY DEF Tables, StagedOnly
    <3> QED BY <1>0, <1>6, <3>1, <3>2 DEF RowStaged
  <2>2. s # staged + 1 /\ rows[s].status = "leased"
    BY <1>6, <2>1 DEF RowStaged, KeptBut, Kept
  <2>3. CASE t = staged + 1
    BY <1>6, <2>1, <2>2, <2>3 DEF RowStaged, Kept
  <2>4. CASE t # staged + 1
    BY <1>6, <2>2, <2>4 DEF RowStaged, KeptBut, Kept, OneTurnPerRepository, Waiting
  <2> QED BY <2>3, <2>4
<1> QED BY <1>1, <1>2, <1>3, <1>4, <1>5, <1>6 DEF RowStep

LEMMA OwedNext ==
  ASSUME Tables, DeadLetterOwed, RowStep, RequestStep
  PROVE  DeadLetterOwed'
<1> SUFFICES ASSUME NEW s \in Seqs
             PROVE  /\ rows'[s].status = "dead_letter" /\ ~rows'[s].reconciled
                         => requests'[s].status \in {"pending", "leased", "failed"}
                    /\ requests'[s].status = "completed" => rows'[s].reconciled
  BY DEF DeadLetterOwed
<1>1. rows[s].status = "dead_letter" =>
        /\ rows'[s].status = "dead_letter"
        /\ rows[s].reconciled => rows'[s].reconciled
  <2>1. staged + 1 > staged
    BY EventAssumption DEF Tables, TypeOK
  <2> QED BY <2>1 DEF Tables, StagedOnly, RowStep, RowStaged, RowsFiltered, RowClaimed, RowLeft,
                     RowReconciled, Kept, KeptBut, Claimable, Due
<1>2. requests[s].status # "absent" => rows[s].status = "dead_letter"
  BY DEF Tables, RequestsOfDeadLetters
<1>3. requests'[s].status = "completed" => rows'[s].reconciled
  <2> SUFFICES ASSUME requests'[s].status = "completed" PROVE rows'[s].reconciled
    OBVIOUS
  <2>1. requests[s].status = "completed" \/ rows'[s].reconciled
    BY DEF RequestStep, RequestKept
  <2>2. requests[s].status = "completed" => rows[s].reconciled /\ rows[s].status = "dead_letter"
    BY <1>2 DEF DeadLetterOwed
  <2> QED BY <1>1, <2>1, <2>2
<1>4. ASSUME rows'[s].status = "dead_letter", ~rows'[s].reconciled
      PROVE  requests'[s].status \in {"pending", "leased", "failed"}
  <2>1. CASE rows[s].status = "dead_letter"
    BY <1>1, <1>4, <2>1 DEF DeadLetterOwed, RequestStep, RequestKept
  <2>2. CASE rows[s].status # "dead_letter"
    <3>1. RowLeft(s)
      BY <1>4, <2>2 DEF RowStep, RowStaged, RowsFiltered, RowClaimed, RowLeft, RowReconciled, Kept, KeptBut
    <3> QED BY <1>2, <1>4, <2>2, <3>1 DEF RowLeft
  <2> QED BY <2>1, <2>2
<1> QED BY <1>3, <1>4

\* The lease a worker works under is in force.
EventLive(v, s) ==
  (task[v].kind = "event" /\ rows[s].status = "leased" /\ rows[s].owner = v) => rows[s].live
RequestLive(v, s) ==
  (task[v].kind = "request" /\ requests[s].status = "leased" /\ requests[s].owner = v)
    => requests[s].live

LEMMA HeldNext ==
  ASSUME TypeOK, TasksOnEvents, HeldLeasesLive, [Next]_vars PROVE HeldLeasesLive'
<1> USE DEF EventLive, RequestLive
<1> SUFFICES ASSUME ~Stalls, NEW v \in Worker, NEW s \in Seqs, task'[v].seq = s
             PROVE  EventLive(v, s)' /\ RequestLive(v, s)'
  BY DEF HeldLeasesLive, Working
<1>1. task[v].seq = s => EventLive(v, s) /\ RequestLive(v, s)
  BY DEF HeldLeasesLive, Working
<1> DEFINE Goal == EventLive(v, s)' /\ RequestLive(v, s)'
<1>2. ASSUME Calm PROVE Goal
  BY <1>1, <1>2 DEF Calm, TasksFollow, RowCalm, RequestCalm
<1>3. CASE ExpireLease
  BY <1>1, <1>3, LeaseLapsed DEF Abandoned
<1>4. ASSUME NEW w \in Worker, WorkerStep(w) PROVE Goal
  <2>1. CASE Claim(w)
    <3>1. PICK u \in Seqs :
            /\ requests' = requests
            /\ rows'[u].live /\ \A t \in Seqs : t # u => rows'[t] = rows[t]
            /\ task'[w].kind = "event" /\ task'[w].seq = u
            /\ \A i \in Worker : i # w => task'[i] = task[i]
      BY <2>1, ClaimTaken
    <3>2. CASE v = w
      BY <3>1, <3>2
    <3>3. CASE v # w
      BY <1>1, <3>1, <3>3
    <3> QED BY <3>2, <3>3
  <2>2. CASE ClaimReconciliation(w)
    <3>1. PICK u \in Seqs :
            /\ rows' = rows
            /\ requests'[u].live /\ \A t \in Seqs : t # u => requests'[t] = requests[t]
            /\ task'[w].kind = "request" /\ task'[w].seq = u
            /\ \A i \in Worker : i # w => task'[i] = task[i]
      BY <2>2, ReconciliationTaken
    <3>2. CASE v = w
      BY <3>1, <3>2
    <3>3. CASE v # w
      BY <1>1, <3>1, <3>3
    <3> QED BY <3>2, <3>3
  <2>3. CASE Renew(w)
    BY <1>1, <2>3, RenewedInTime
  <2> QED BY <1>2, <1>4, <2>1, <2>2, <2>3, CalmWorker DEF WorkerStep
<1> QED BY <1>2, <1>3, <1>4, CalmWorld DEF Next

\* With renewals in time, a live lease beside another one in the repository
\* would have to be claimed, and both claims look for the other one.
LEMMA AloneNext ==
  ASSUME Tables, HeldLeasesLive, RestoresAloneInTime, [Next]_vars PROVE RestoresAloneInTime'
<1> SUFFICES ASSUME ~Stalls, NEW s \in Seqs, NEW t \in Seqs, RepoOf[s] = RepoOf[t],
                    rows'[s].status = "leased", requests'[t].status = "leased",
                    rows'[s].live, requests'[t].live
             PROVE  FALSE
  BY DEF RestoresAloneInTime, RestoresAlone
<1>0. TypeOK /\ TasksOnEvents
  BY DEF Tables
<1>1. ~(/\ rows[s].status = "leased" /\ requests[t].status = "leased"
        /\ rows[s].live /\ requests[t].live)
  BY DEF RestoresAloneInTime, RestoresAlone
<1>2. ASSUME Calm PROVE FALSE
  BY <1>1, <1>2 DEF Calm, RowCalm, RequestCalm
<1>3. CASE ExpireLease
  BY <1>0, <1>1, <1>3, LeaseLapsed
<1>4. ASSUME NEW w \in Worker, WorkerStep(w) PROVE FALSE
  <2>1. CASE Claim(w)
    <3>1. PICK u \in Seqs : /\ Claimable(u) /\ requests' = requests
                           /\ \A i \in Seqs : i # u => rows'[i] = rows[i]
      BY <1>0, <2>1, ClaimTaken
    <3>2. CASE s = u
      BY <3>1, <3>2 DEF Claimable
    <3>3. CASE s # u
      BY <1>1, <3>1, <3>3
    <3> QED BY <3>2, <3>3
  <2>2. CASE ClaimReconciliation(w)
    <3>1. PICK u \in Seqs : /\ RestoreClaimable(u) /\ rows' = rows
                           /\ \A i \in Seqs : i # u => requests'[i] = requests[i]
      BY <1>0, <2>2, ReconciliationTaken
    <3>2. CASE t = u
      BY <3>1, <3>2 DEF RestoreClaimable
    <3>3. CASE t # u
      BY <1>1, <3>1, <3>3
    <3> QED BY <3>2, <3>3
  <2>3. CASE Renew(w)
    BY <1>0, <1>1, <2>3, RenewedInTime
  <2> QED BY <1>0, <1>2, <1>4, <2>1, <2>2, <2>3, CalmWorker DEF WorkerStep
<1> QED BY <1>0, <1>2, <1>3, <1>4, CalmWorld DEF Next

LEMMA InitIInv == Init => IInv
<1> SUFFICES ASSUME Init PROVE IInv
  OBVIOUS
<1>1. TypeOK
  BY TypeInit
<1>2. /\ \A s \in Seqs : /\ rows[s].status = "absent" /\ ~rows[s].reconciled
                         /\ rows[s].attempts = 0 /\ requests[s].status = "absent"
      /\ \A w \in Worker : task[w].kind = "idle"
      /\ watermark = 0 /\ staged = 0
  BY DEF Init, AbsentRow, AbsentReq, Idle
<1>3. TasksOnEvents /\ RequestsOfDeadLetters /\ OneTurnPerRepository /\ WatermarkTruthful
  BY <1>2 DEF TasksOnEvents, RequestsOfDeadLetters, OneTurnPerRepository, WatermarkTruthful
<1>4. DeadLetterOwed /\ HeldLeasesLive /\ RestoresAloneInTime
  BY <1>2 DEF DeadLetterOwed, HeldLeasesLive, RestoresAloneInTime, RestoresAlone, Working
<1>5. AttemptsLeft /\ StagedOnly
  BY <1>2, EventAssumption DEF AttemptsLeft, StagedOnly
<1> QED BY <1>1, <1>3, <1>4, <1>5 DEF IInv

LEMMA NextIInv == IInv /\ [Next]_vars => IInv'
<1> SUFFICES ASSUME IInv, [Next]_vars PROVE IInv'
  OBVIOUS
<1>1. Tables
  BY DEF IInv, Tables
<1>2. TypeOK' /\ TasksOnEvents'
  BY <1>1, TypeNext, TasksNext DEF IInv
<1>3. RowStep /\ RequestStep
  BY <1>1, NextStep
<1>4. AttemptsLeft' /\ RequestsOfDeadLetters'
  BY <1>1, <1>2, <1>3, TablesNext
<1>5. StagedOnly' /\ WatermarkTruthful'
  BY <1>1, <1>2, <1>3, WatermarkNext DEF IInv
<1>6. OneTurnPerRepository' /\ DeadLetterOwed'
  BY <1>1, <1>2, <1>3, OrderNext, OwedNext DEF IInv
<1>7. HeldLeasesLive' /\ RestoresAloneInTime'
  BY <1>1, HeldNext, AloneNext DEF IInv
<1> QED BY <1>2, <1>4, <1>5, <1>6, <1>7 DEF IInv

-----------------------------------------------------------------------------
(* The theorems. *)

\* IInv is an invariant of the inbox: rows, requests, leases and the watermark
\* that inboxClaimSQL and the settlement transactions keep consistent.
THEOREM Inductive == Spec => []IInv
<1>1. Init => IInv
  BY InitIInv
<1>2. IInv /\ [Next]_vars => IInv'
  BY NextIInv
<1> QED BY <1>1, <1>2, PTL DEF Spec

\* Every value of the inbox tables, the checkpoint and the workers has its type;
\* in particular no event is tried more often than MaxAttempts.
THEOREM TypeCorrect == Spec => []TypeOK
<1>1. IInv => TypeOK
  BY DEF IInv
<1> QED BY <1>1, Inductive, PTL

\* inboxClaimSQL leases one event of a repository at a time and the first one,
\* whatever leases expire, are renewed late or are taken over.
THEOREM OrderHolds == Spec => []OneTurnPerRepository
<1>1. IInv => OneTurnPerRepository
  BY DEF IInv
<1> QED BY <1>1, Inductive, PTL

\* The watermark that inboxWatermarkSQL advances never passes an event that is
\* neither applied, filtered nor reconciled.
THEOREM WatermarkHolds == Spec => []WatermarkTruthful
<1>1. IInv => WatermarkTruthful
  BY DEF IInv
<1> QED BY <1>1, Inductive, PTL

\* No dead letter loses the restore it owes, and none is completed for nothing.
THEOREM DeadLettersHold == Spec => []DeadLetterOwed
<1>1. IInv => DeadLetterOwed
  BY DEF IInv
<1> QED BY <1>1, Inductive, PTL

\* Where renewals are in time, leases on an event and on a restore of its
\* repository are never in force together: each claim query looks for the other.
THEOREM RestoresHold == Spec => [](~Stalls => RestoresAlone)
<1>1. IInv => (~Stalls => RestoresAlone)
  BY DEF IInv, RestoresAloneInTime
<1> QED BY <1>1, Inductive, PTL

\* No worker moves an event that is settled, nor takes its reconciliation back.
THEOREM SettledStays == Spec => SettledForGood
<1> DEFINE Stays(s) == rows[s].status \in {"applied", "filtered_scope", "dead_letter"} =>
                         /\ rows'[s].status = rows[s].status
                         /\ rows[s].reconciled => rows'[s].reconciled
<1>1. ASSUME IInv, [Next]_vars PROVE \A s \in Seqs : Stays(s)
  <2>1. Tables
    BY <1>1 DEF IInv, Tables
  <2>2. RowStep
    BY <1>1, <2>1, NextStep
  <2>3. rows[staged + 1].status = "absent" \/ staged + 1 \notin Seqs
    BY <2>1, EventAssumption DEF Tables, TypeOK, StagedOnly
  <2> QED BY <2>2, <2>3 DEF RowStep, RowStaged, RowsFiltered, RowClaimed, RowLeft, RowReconciled,
                            Kept, KeptBut, Claimable, Due
<1>2. IInv /\ [Next]_vars => [\A s \in Seqs : Stays(s)]_vars
  BY <1>1
<1> QED BY <1>2, Inductive, PTL DEF Spec, SettledForGood

\* While a claim is in force, its row leaves the hands of its owner only by what
\* that worker does: owner and token fence every transition.
THEOREM ClaimsHold == Spec => ClaimsAreExclusive
<1> DEFINE Exclusive(s) ==
             LET w == rows[s].owner IN
             (rows[s].status = "leased" /\ rows[s].live /\ rows'[s].owner # w)
               => task[w].kind = "event" /\ task[w].seq = s /\ task'[w] = Idle
<1>1. ASSUME IInv, [Next]_vars PROVE \A s \in Seqs : Exclusive(s)
  <2>1. \A s \in Seqs : OwnerStep(s)
    BY <1>1, NextOwner DEF IInv
  <2> QED BY <2>1 DEF OwnerStep, Due
<1>2. IInv /\ [Next]_vars => [\A s \in Seqs : Exclusive(s)]_vars
  BY <1>1
<1> QED BY <1>2, Inductive, PTL DEF Spec, ClaimsAreExclusive
=============================================================================
