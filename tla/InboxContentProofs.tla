------------------------ MODULE InboxContentProofs ------------------------
(***************************************************************************)
(* The content that DurableInbox projects, for every number of workers,    *)
(* repositories, events and faults, where renewals are in time: what rows  *)
(* and requests say of content_items is so.  Nothing fences the writes of  *)
(* a projection or a restore, so the argument is about turns: an event     *)
(* that was taken from the queue is never followed by an earlier one of    *)
(* its repository, and what a restore has read is not older than any event *)
(* taken meanwhile, because its claim keeps the repository to itself.      *)
(***************************************************************************)
EXTENDS DurableInboxProofs

\* The event was claimed and is not simply waiting again.
Taken(s) ==
  \/ rows[s].status \in {"leased", "applied", "dead_letter"}
  \/ rows[s].restored \/ rows[s].reconciled

\* The content of s's repository is at least as new as s, and so is what s wrote.
Covered(s)  == \A r \in RecordsOf(RepoOf[s]) : content[r] >= Version(r, s)
Recorded(s) == \A r \in Writes[s] : content[r] >= s

\* Who claims that it is: rows, requests and the workers' progress.
SaysCovered(s) ==
  \/ rows[s].restored \/ rows[s].reconciled \/ requests[s].restored
  \/ \E w \in Worker : /\ ~Working(w, "idle") /\ task[w].seq = s
                       /\ task[w].step \in {"written", "restored"}
SaysRecorded(s) ==
  \/ rows[s].status = "applied"
  \/ \E w \in Worker : At(w, "event", "done") /\ task[w].seq = s

\* A row or request has an owner while it is leased; what is not there is blank.
OwnedWhenLeased ==
  \A s \in Seqs :
    /\ rows[s].owner \in Worker => rows[s].status = "leased"
    /\ requests[s].owner \in Worker => requests[s].status = "leased"
    /\ rows[s].status = "absent" => ~rows[s].restored
    /\ requests[s].status = "absent" => ~requests[s].restored

\* Events are emitted before they are staged, and taken in the repository's order.
TurnsInOrder ==
  /\ staged <= pds
  /\ \A s, t \in Seqs : Taken(s) /\ t < s /\ RepoOf[t] = RepoOf[s] => ~Waiting(t)

\* With renewals in time, a worker holds the claim it works on.
TasksHold == ~Stalls => \A w \in Worker : ~Working(w, "idle") => Holds(w)

\* What a restore has read is as new as every event taken in its repository.
ReadsCurrent ==
  ~Stalls => \A w \in Worker, s \in Seqs :
    /\ ~Working(w, "idle") /\ task[w].step = "read"
    /\ RepoOf[s] = RepoOf[task[w].seq] /\ Taken(s)
    => s <= task[w].snap

ContentHolds ==
  ~Stalls => \A s \in Seqs : /\ SaysCovered(s) => Covered(s)
                             /\ SaysRecorded(s) => Recorded(s)

ContentInv == OwnedWhenLeased /\ TurnsInOrder /\ TasksHold /\ ReadsCurrent /\ ContentHolds

-----------------------------------------------------------------------------
(* Versions and the records of a repository. *)

LEMMA VersionFacts ==
  ASSUME NEW r \in Record, NEW n \in 0..MaxSeq
  PROVE  /\ Version(r, n) \in 0..n
         /\ \A s \in Projected : s <= n /\ r \in Writes[s] => s <= Version(r, n)
         /\ \A m \in 0..n : Version(r, m) <= Version(r, n)
<1> DEFINE Before(k) == {s \in Projected : s <= k /\ r \in Writes[s]}
<1>1. MaxSeq \in Nat /\ \A s \in Projected : s \in Nat /\ s >= 1 /\ s <= MaxSeq
  BY EventAssumption DEF Projected, Seqs
<1>2. ASSUME NEW m \in 0..MaxSeq
      PROVE  /\ Version(r, m) \in Before(m) \cup {0}
             /\ \A s \in Before(m) : s <= Version(r, m)
  <2>1. Before(m) \subseteq 0..MaxSeq
    BY <1>1
  <2>2. Version(r, m) = Highest(Before(m))
    BY DEF Version
  <2> HIDE DEF Before
  <2> QED BY <2>1, <2>2, HighestExists
<1>3. ASSUME NEW m \in 0..MaxSeq PROVE Version(r, m) \in 0..m
  BY <1>1, <1>2
<1>4. ASSUME NEW m \in 0..n PROVE Version(r, m) <= Version(r, n)
  <2>1. m \in 0..MaxSeq /\ m <= n
    BY <1>1
  <2>2. Version(r, m) \in Before(m) \cup {0}
    BY <1>2, <2>1
  <2>3. CASE Version(r, m) \in Before(m)
    <3>1. Version(r, m) \in Before(n)
      BY <1>1, <2>1, <2>3
    <3> QED BY <1>2, <3>1
  <2>4. CASE Version(r, m) = 0
    BY <1>1, <1>3, <2>4
  <2> QED BY <2>2, <2>3, <2>4
<1> QED BY <1>2, <1>3, <1>4

\* What an event writes belongs to its repository and to no other.
LEMMA RecordsApart ==
  ASSUME NEW s \in Seqs, NEW repo, NEW r \in RecordsOf(RepoOf[s]), r \in RecordsOf(repo)
  PROVE  repo = RepoOf[s]
BY WritesAssumption DEF RecordsOf, Projected, Seqs

LEMMA WritesAreRecords ==
  ASSUME NEW s \in Seqs, NEW r \in Writes[s]
  PROVE  s \in Projected /\ r \in RecordsOf(RepoOf[s]) /\ r \in Record
<1>1. s \in Projected
  BY WritesAssumption DEF Projected
<1> QED BY <1>1, EventAssumption DEF RecordsOf, Seqs

LEMMA RecordsType == ASSUME NEW repo PROVE RecordsOf(repo) \subseteq Record
BY EventAssumption DEF RecordsOf, Projected, Seqs

\* A repository whose content is as new as s shows what s wrote.
LEMMA CoveredIsRecorded ==
  ASSUME TypeOK, NEW s \in Seqs, Covered(s) PROVE Recorded(s)
<1> SUFFICES ASSUME NEW r \in Writes[s] PROVE content[r] >= s
  BY DEF Recorded
<1>1. s \in 0..MaxSeq /\ s <= s
  BY EventAssumption DEF Seqs
<1>2. s \in Projected /\ r \in RecordsOf(RepoOf[s]) /\ r \in Record
  BY WritesAreRecords
<1>3. s <= Version(r, s) /\ Version(r, s) \in 0..s
  BY <1>1, <1>2, VersionFacts
<1>4. content[r] >= Version(r, s) /\ content[r] \in 0..MaxSeq
  BY <1>2 DEF Covered, TypeOK
<1> QED BY <1>1, <1>3, <1>4, EventAssumption

-----------------------------------------------------------------------------
(* Owners, restored marks and turns. *)

\* What a step makes of a row and of a request.
RowMoves(s) ==
  \/ rows'[s] = rows[s]
  \/ rows[s].status = "absent" /\ rows'[s] = [rows[s] EXCEPT !.status = "pending"]
  \/ \E w \in Worker :
       /\ Claimable(s) /\ Claim(w) /\ task'[w].seq = s
       /\ rows'[s] = [rows[s] EXCEPT !.status = "leased", !.owner = w, !.live = TRUE]
  \/ /\ Due(rows[s])
     /\ rows'[s] = [rows[s] EXCEPT !.status = "filtered_scope", !.owner = NoWorker,
                      !.live = FALSE, !.reconciled = FALSE]
  \/ \E b \in BOOLEAN : rows'[s] = [rows[s] EXCEPT !.live = b]
  \/ \E w \in Worker :
       /\ Working(w, "event") /\ task[w].seq = s
       /\ \/ FinishRestore(w) /\ rows'[s] = [rows[s] EXCEPT !.restored = TRUE]
          \/ YieldRestore(w) /\ rows'[s] = Released(rows[s])
          \/ Reconciled(w) /\ rows'[s] = [rows[s] EXCEPT !.reconciled = TRUE]
          \/ /\ Applied(w)
             /\ rows'[s] = [rows[s] EXCEPT !.status = "applied", !.owner = NoWorker, !.live = FALSE]
          \/ /\ AttemptFails(w)
             /\ \E n \in Nat, st \in {"dead_letter", "pending"} :
                  rows'[s] = [Released(rows[s]) EXCEPT !.attempts = n, !.status = st]
  \/ \E w \in Worker : /\ CompleteReconciliation(w) /\ task[w].seq = s
                       /\ rows'[s] = [rows[s] EXCEPT !.reconciled = TRUE]

RequestMoves(s) ==
  \/ requests'[s] = requests[s]
  \/ requests[s].status = "absent" /\ requests'[s] = [requests[s] EXCEPT !.status = "pending"]
  \/ \E w \in Worker :
       /\ Due(requests[s])
       /\ requests'[s] = [requests[s] EXCEPT !.status = "leased", !.owner = w, !.live = TRUE]
  \/ \E b \in BOOLEAN : requests'[s] = [requests[s] EXCEPT !.live = b]
  \/ requests[s].status = "failed" /\ requests'[s] = Released(requests[s])
  \/ \E w \in Worker :
       /\ Working(w, "request") /\ task[w].seq = s
       /\ \/ FinishRestore(w) /\ requests'[s] = [requests[s] EXCEPT !.restored = TRUE]
          \/ YieldRestore(w) /\ requests'[s] = Released(requests[s])
          \/ /\ CompleteReconciliation(w)
             /\ requests'[s] = [requests[s] EXCEPT !.status = "completed", !.owner = NoWorker,
                                  !.live = FALSE]
          \/ /\ AttemptFails(w)
             /\ \E n \in Nat, st \in {"failed", "pending"} :
                  requests'[s] = [Released(requests[s]) EXCEPT !.attempts = n, !.status = st]

LEMMA RowsMove == ASSUME Tables, [Next]_vars, NEW s \in Seqs PROVE RowMoves(s)
<1>0. /\ rows \in [Seqs -> Row] /\ TypeOK /\ TasksOnEvents
      /\ \A t \in Seqs : t > staged => rows[t].status = "absent"
  BY DEF Tables, TypeOK, StagedOnly
<1>1. CASE rows' = rows
  BY <1>1 DEF RowMoves
<1>2. CASE Stage
  <2>1. staged + 1 > staged
    BY EventAssumption DEF Tables, TypeOK
  <2>2. s = staged + 1 => rows[s].status = "absent"
    BY <1>0, <2>1
  <2>3. rows' = [rows EXCEPT ![staged + 1] = [@ EXCEPT !.status = "pending"]] \/ rows' = rows
    BY <1>2 DEF Stage
  <2>4. rows'[s] = IF s = staged + 1 /\ rows' # rows THEN [rows[s] EXCEPT !.status = "pending"] ELSE rows[s]
    BY <1>0, <2>3
  <2> QED BY <2>2, <2>4 DEF RowMoves
<1>3. CASE FilterOutsideScope
  BY <1>3 DEF FilterOutsideScope, RowMoves
<1>4. CASE ExpireLease
  <2>1. rows' = rows \/ \E t \in Seqs : rows' = [rows EXCEPT ![t] = [@ EXCEPT !.live = FALSE]]
    BY <1>4 DEF ExpireLease
  <2>2. rows'[s] = rows[s] \/ rows'[s] = [rows[s] EXCEPT !.live = FALSE]
    BY <1>0, <2>1
  <2> QED BY <2>2 DEF RowMoves
<1>5. ASSUME NEW w \in Worker, WorkerStep(w) PROVE RowMoves(s)
  <2> DEFINE u == task[w].seq
  <2>1. CASE Claim(w)
    <3>1. PICK t \in Seqs :
            /\ Claimable(t)
            /\ rows' = [rows EXCEPT ![t].status = "leased", ![t].owner = w, ![t].live = TRUE]
            /\ task' = [task EXCEPT ![w] = [Idle EXCEPT !.kind = "event", !.seq = t]]
      BY <2>1 DEF Claim
    <3>2. rows'[s] = IF s = t THEN [rows[s] EXCEPT !.status = "leased", !.owner = w, !.live = TRUE]
                     ELSE rows[s]
      BY <1>0, <3>1
    <3>3. \A i \in Task : [i EXCEPT !.kind = "event", !.seq = t].seq = t
      BY DEF Task
    <3>4. task'[w].seq = t
      BY <1>0, <3>1, <3>3, IdleTask DEF TypeOK
    <3> QED BY <2>1, <3>1, <3>2, <3>4 DEF RowMoves
  <2>2. CASE Renew(w)
    <3>1. rows' = rows \/ rows' = [rows EXCEPT ![u] = [@ EXCEPT !.live = TRUE]]
      BY <2>2 DEF Renew
    <3>2. rows'[s] = rows[s] \/ rows'[s] = [rows[s] EXCEPT !.live = TRUE]
      BY <1>0, <3>1
    <3> QED BY <3>2 DEF RowMoves
  <2>3. CASE FinishRestore(w)
    <3>1. \/ rows' = rows
          \/ Working(w, "event") /\ rows' = [rows EXCEPT ![u] = [@ EXCEPT !.restored = TRUE]]
      BY <2>3 DEF FinishRestore
    <3>2. \/ rows'[s] = rows[s]
          \/ Working(w, "event") /\ s = u /\ rows'[s] = [rows[s] EXCEPT !.restored = TRUE]
      BY <1>0, <3>1
    <3> QED BY <2>3, <3>2 DEF RowMoves
  <2>4. CASE YieldRestore(w)
    <3>1. \/ rows' = rows
          \/ Working(w, "event") /\ rows' = [rows EXCEPT ![u] = Released(@)]
      BY <2>4 DEF YieldRestore
    <3>2. \/ rows'[s] = rows[s]
          \/ Working(w, "event") /\ s = u /\ rows'[s] = Released(rows[s])
      BY <1>0, <3>1
    <3> QED BY <2>4, <3>2 DEF RowMoves
  <2>5. CASE Reconciled(w)
    <3>1. Working(w, "event") /\ rows' = [rows EXCEPT ![u] = [@ EXCEPT !.reconciled = TRUE]]
      BY <2>5 DEF Reconciled, At
    <3>2. \/ rows'[s] = rows[s]
          \/ Working(w, "event") /\ s = u /\ rows'[s] = [rows[s] EXCEPT !.reconciled = TRUE]
      BY <1>0, <3>1
    <3> QED BY <2>5, <3>2 DEF RowMoves
  <2>6. CASE Applied(w)
    <3>1. /\ Working(w, "event")
          /\ rows' = [rows EXCEPT ![u] = [@ EXCEPT !.status = "applied", !.owner = NoWorker, !.live = FALSE]]
      BY <2>6 DEF Applied, At
    <3>2. \/ rows'[s] = rows[s]
          \/ /\ Working(w, "event") /\ s = u
             /\ rows'[s] = [rows[s] EXCEPT !.status = "applied", !.owner = NoWorker, !.live = FALSE]
      BY <1>0, <3>1
    <3> QED BY <2>6, <3>2 DEF RowMoves
  <2>7. CASE AttemptFails(w)
    <3>1. CASE Working(w, "event")
      <4>1. PICK st \in {"dead_letter", "pending"} :
              rows' = [rows EXCEPT ![u] = [Released(@) EXCEPT !.attempts = rows[u].attempts + 1, !.status = st]]
        BY <2>7, <3>1 DEF AttemptFails, RetryOrDeadLetter
      <4>2. u \in Seqs
        BY <1>0, <2>7, <3>1, HeldEvent DEF AttemptFails
      <4>3. rows[u].attempts + 1 \in Nat
        BY <1>0, <4>2, EventAssumption DEF Row
      <4>4. \/ rows'[s] = rows[s]
            \/ s = u /\ rows'[s] = [Released(rows[s]) EXCEPT !.attempts = rows[u].attempts + 1, !.status = st]
        BY <1>0, <4>1
      <4> QED BY <2>7, <3>1, <4>3, <4>4 DEF RowMoves
    <3>2. CASE ~Working(w, "event")
      BY <1>1, <2>7, <3>2 DEF AttemptFails, RetryReconciliation
    <3> QED BY <3>1, <3>2
  <2>8. CASE CompleteReconciliation(w)
    <3>1. rows' = [rows EXCEPT ![u] = [@ EXCEPT !.reconciled = TRUE]]
      BY <2>8 DEF CompleteReconciliation
    <3>2. rows'[s] = rows[s] \/ (s = u /\ rows'[s] = [rows[s] EXCEPT !.reconciled = TRUE])
      BY <1>0, <3>1
    <3> QED BY <2>8, <3>2 DEF RowMoves
  <2>9. CASE ClaimReconciliation(w)
    BY <1>1, <2>9 DEF ClaimReconciliation
  <2> QED BY <1>1, <1>5, <2>1, <2>2, <2>3, <2>4, <2>5, <2>6, <2>7, <2>8, <2>9, QuietWorker
          DEF WorkerStep, Quiet
<1>6. CASE OperatorRetryFailedReconciliations
  BY <1>1, <1>6 DEF OperatorRetryFailedReconciliations
<1> QED BY <1>1, <1>2, <1>3, <1>4, <1>5, <1>6, QuietWorld DEF Next, Quiet

LEMMA RequestsMove == ASSUME Tables, [Next]_vars, NEW s \in Seqs PROVE RequestMoves(s)
<1>0. requests \in [Seqs -> Request] /\ TypeOK /\ TasksOnEvents
  BY DEF Tables, TypeOK
<1>1. CASE requests' = requests
  BY <1>1 DEF RequestMoves
<1>2. CASE OperatorRetryFailedReconciliations
  BY <1>2 DEF OperatorRetryFailedReconciliations, RequestMoves
<1>3. CASE ExpireLease
  <2>1. \/ requests' = requests
        \/ \E t \in Seqs : requests' = [requests EXCEPT ![t] = [@ EXCEPT !.live = FALSE]]
    BY <1>3 DEF ExpireLease
  <2>2. requests'[s] = requests[s] \/ requests'[s] = [requests[s] EXCEPT !.live = FALSE]
    BY <1>0, <2>1
  <2> QED BY <2>2 DEF RequestMoves
<1>4. ASSUME NEW w \in Worker, WorkerStep(w) PROVE RequestMoves(s)
  <2> DEFINE u == task[w].seq
  <2>0. ~Working(w, "idle") /\ ~Working(w, "event") => Working(w, "request")
    BY <1>0 DEF TypeOK, Task, Working
  <2>1. CASE ClaimReconciliation(w)
    <3>1. PICK t \in Seqs :
            /\ Due(requests[t])
            /\ requests' = [requests EXCEPT ![t].status = "leased", ![t].owner = w, ![t].live = TRUE]
      BY <2>1 DEF ClaimReconciliation, RestoreClaimable
    <3>2. requests'[s] = IF s = t
            THEN [requests[s] EXCEPT !.status = "leased", !.owner = w, !.live = TRUE] ELSE requests[s]
      BY <1>0, <3>1
    <3> QED BY <3>1, <3>2 DEF RequestMoves
  <2>2. CASE Renew(w)
    <3>1. requests' = requests \/ requests' = [requests EXCEPT ![u] = [@ EXCEPT !.live = TRUE]]
      BY <2>2 DEF Renew
    <3>2. requests'[s] = requests[s] \/ requests'[s] = [requests[s] EXCEPT !.live = TRUE]
      BY <1>0, <3>1
    <3> QED BY <3>2 DEF RequestMoves
  <2>3. CASE FinishRestore(w)
    <3>1. \/ requests' = requests
          \/ Working(w, "request") /\ requests' = [requests EXCEPT ![u] = [@ EXCEPT !.restored = TRUE]]
      BY <2>3 DEF FinishRestore, Restores
    <3>2. \/ requests'[s] = requests[s]
          \/ Working(w, "request") /\ s = u /\ requests'[s] = [requests[s] EXCEPT !.restored = TRUE]
      BY <1>0, <3>1
    <3> QED BY <2>3, <3>2 DEF RequestMoves
  <2>4. CASE YieldRestore(w)
    <3>1. \/ requests' = requests
          \/ Working(w, "request") /\ requests' = [requests EXCEPT ![u] = Released(@)]
      BY <2>4 DEF YieldRestore, Restores
    <3>2. \/ requests'[s] = requests[s]
          \/ Working(w, "request") /\ s = u /\ requests'[s] = Released(requests[s])
      BY <1>0, <3>1
    <3> QED BY <2>4, <3>2 DEF RequestMoves
  <2>5. CASE Reconciled(w)
    <3>1. u \in Seqs /\ rows[u].status = "leased"
      BY <1>0, <2>5, HeldEvent DEF Reconciled, At
    <3>2. requests' = requests
      BY <2>5, <3>1 DEF Tables, RequestsOfDeadLetters, Reconciled
    <3> QED BY <1>1, <3>2
  <2>6. CASE AttemptFails(w)
    <3>1. CASE Working(w, "event")
      <4>1. /\ \/ requests' = requests
               \/ /\ requests[u].status = "absent"
                  /\ requests' = [requests EXCEPT ![u] = [@ EXCEPT !.status = "pending"]]
        BY <2>6, <3>1 DEF AttemptFails, RetryOrDeadLetter
      <4>2. \/ requests'[s] = requests[s]
            \/ /\ requests[s].status = "absent"
               /\ requests'[s] = [requests[s] EXCEPT !.status = "pending"]
        BY <1>0, <4>1
      <4> QED BY <4>2 DEF RequestMoves
    <3>2. CASE ~Working(w, "event")
      <4>0. Working(w, "request")
        BY <2>0, <2>6, <3>2 DEF AttemptFails
      <4>1. PICK st \in {"failed", "pending"} :
              requests' = [requests EXCEPT ![u] =
                             [Released(@) EXCEPT !.attempts = requests[u].attempts + 1, !.status = st]]
        BY <2>6, <3>2 DEF AttemptFails, RetryReconciliation
      <4>2. u \in Seqs
        BY <1>0, <2>6, <4>0, HeldRequest DEF AttemptFails
      <4>3. requests[u].attempts + 1 \in Nat
        BY <1>0, <4>2 DEF Request
      <4>4. \/ requests'[s] = requests[s]
            \/ /\ s = u
               /\ requests'[s] = [Released(requests[s]) EXCEPT !.attempts = requests[u].attempts + 1, !.status = st]
        BY <1>0, <4>1
      <4> QED BY <2>6, <4>0, <4>3, <4>4 DEF RequestMoves
    <3> QED BY <3>1, <3>2
  <2>7. CASE CompleteReconciliation(w)
    <3>1. /\ Working(w, "request")
          /\ requests' = [requests EXCEPT ![u] = [@ EXCEPT !.status = "completed", !.owner = NoWorker, !.live = FALSE]]
      BY <2>7 DEF CompleteReconciliation, At
    <3>2. \/ requests'[s] = requests[s]
          \/ /\ s = u
             /\ requests'[s] = [requests[s] EXCEPT !.status = "completed", !.owner = NoWorker, !.live = FALSE]
      BY <1>0, <3>1
    <3> QED BY <2>7, <3>1, <3>2 DEF RequestMoves
  <2>8. CASE Claim(w) \/ Applied(w)
    BY <1>1, <2>8 DEF Claim, Applied
  <2> QED BY <1>1, <1>4, <2>1, <2>2, <2>3, <2>4, <2>5, <2>6, <2>7, <2>8, QuietWorker
          DEF WorkerStep, Quiet
<1>5. CASE Stage \/ FilterOutsideScope
  BY <1>1, <1>5 DEF Stage, FilterOutsideScope
<1> QED BY <1>1, <1>2, <1>3, <1>4, <1>5, QuietWorld DEF Next, Quiet

\* Whoever gains a row or request, or keeps it, has it leased.
LEMMA OwnedNext == ASSUME Tables, OwnedWhenLeased, [Next]_vars PROVE OwnedWhenLeased'
<1> SUFFICES ASSUME NEW s \in Seqs
             PROVE  /\ rows'[s].owner \in Worker => rows'[s].status = "leased"
                    /\ requests'[s].owner \in Worker => requests'[s].status = "leased"
                    /\ rows'[s].status = "absent" => ~rows'[s].restored
                    /\ requests'[s].status = "absent" => ~requests'[s].restored
  BY DEF OwnedWhenLeased
<1>1. rows[s] \in Row /\ requests[s] \in Request /\ NoWorker \notin Worker
  BY WorkerAssumption DEF Tables, TypeOK
<1>2. /\ rows[s].owner \in Worker => rows[s].status = "leased"
      /\ rows[s].status = "absent" => ~rows[s].restored
      /\ \A w \in Worker : Working(w, "event") /\ FinishRestore(w) /\ task[w].seq = s
           => rows[s].status = "leased"
  BY HeldEvent DEF OwnedWhenLeased, Tables, FinishRestore, HoldsLive
<1>3. /\ requests[s].owner \in Worker => requests[s].status = "leased"
      /\ requests[s].status = "absent" => ~requests[s].restored
      /\ \A w \in Worker : Working(w, "request") /\ FinishRestore(w) /\ task[w].seq = s
           => requests[s].status = "leased"
  BY HeldRequest DEF OwnedWhenLeased, Tables, FinishRestore, HoldsLive
<1>4. RowMoves(s) /\ RequestMoves(s)
  BY RowsMove, RequestsMove
<1>5. /\ rows'[s].owner \in Worker => rows'[s].status = "leased"
      /\ rows'[s].status = "absent" => ~rows'[s].restored
  BY <1>1, <1>2, <1>4 DEF RowMoves, Row, Released, Due
<1>6. /\ requests'[s].owner \in Worker => requests'[s].status = "leased"
      /\ requests'[s].status = "absent" => ~requests'[s].restored
  BY <1>1, <1>3, <1>4 DEF RequestMoves, Request, Released, Due
<1> QED BY <1>5, <1>6

LEMMA EmittedFirst == ASSUME TypeOK, TurnsInOrder, [Next]_vars PROVE staged' <= pds'
<1>1. staged \in Nat /\ pds \in Nat /\ staged <= pds
  BY EventAssumption DEF TypeOK, TurnsInOrder
<1>2. /\ pds' = pds \/ pds' = pds + 1
      /\ staged' = staged \/ (staged < pds /\ staged' = staged + 1 /\ pds' = pds)
  BY DEF Next, Emits, Stage, ScopeMoves, FilterOutsideScope, ExpireLease, AdvanceAppliedWatermark,
     OperatorRetryFailedReconciliations, WorkerStep, Claim, ClaimReconciliation, Renew, Crash,
     Project, ReadRepository, WriteRecords, FinishRestore, YieldRestore, Reconciled, Applied,
     AttemptFails, ClaimLost, OutcomeLost, CompleteReconciliation, vars
<1> QED BY <1>1, <1>2

\* An event is taken by a claim; a waiting one was waiting before or is staged.
LEMMA TakenStep ==
  ASSUME Tables, OwnedWhenLeased, [Next]_vars, NEW s \in Seqs
  PROVE  /\ Taken(s)' => \/ Taken(s)
                         \/ /\ Claimable(s)
                            /\ \E w \in Worker : Claim(w) /\ task'[w].seq = s
         /\ Waiting(s)' => Waiting(s) \/ s = staged + 1
         /\ Taken(s) => s <= staged
<1>1. /\ rows[s] \in Row /\ staged \in Nat /\ s \in Nat
      /\ s > staged => rows[s].status = "absent"
      /\ rows[s].status = "absent" => ~rows[s].restored /\ ~rows[s].reconciled
  BY EventAssumption DEF Tables, TypeOK, StagedOnly, OwnedWhenLeased, Seqs
<1>2. /\ \A w \in Worker : Working(w, "event") /\ task[w].seq = s /\
           (FinishRestore(w) \/ YieldRestore(w) \/ Reconciled(w) \/ Applied(w) \/ AttemptFails(w))
           => rows[s].status = "leased"
      /\ \A w \in Worker : CompleteReconciliation(w) /\ task[w].seq = s
           => rows[s].status = "dead_letter"
  BY HeldEvent DEF Tables, FinishRestore, HoldsLive, YieldRestore, Reconciled, Applied, AttemptFails,
                   CompleteReconciliation
<1>3. RowMoves(s) /\ RowStep
  BY RowsMove, NextStep
<1>4. Taken(s)' => \/ Taken(s)
                   \/ Claimable(s) /\ \E w \in Worker : Claim(w) /\ task'[w].seq = s
  BY <1>1, <1>2, <1>3 DEF Taken, RowMoves, Row, Released, Due
<1>5. Waiting(s)' => Waiting(s) \/ s = staged + 1
  BY <1>3 DEF Waiting, RowStep, RowStaged, RowsFiltered, RowClaimed, RowLeft, RowReconciled, Kept,
              KeptBut, Claimable, Due
<1>6. Taken(s) => s <= staged
  BY <1>1 DEF Taken
<1> QED BY <1>4, <1>5, <1>6

LEMMA TurnsNext == ASSUME Tables, OwnedWhenLeased, TurnsInOrder, [Next]_vars PROVE TurnsInOrder'
<1>1. staged' <= pds'
  BY EmittedFirst DEF Tables
<1>2. ASSUME NEW s \in Seqs, NEW t \in Seqs, Taken(s)', t < s, RepoOf[t] = RepoOf[s]
      PROVE  ~Waiting(t)'
  <2>1. staged \in Nat /\ s \in Nat /\ t \in Nat
    BY EventAssumption DEF Tables, TypeOK, Seqs
  <2>2. CASE Taken(s)
    <3>1. ~Waiting(t) /\ s <= staged
      BY <1>2, <2>2, TakenStep DEF TurnsInOrder
    <3> QED BY <1>2, <2>1, <3>1, TakenStep
  <2>3. CASE ~Taken(s)
    <3>1. PICK w \in Worker : Claimable(s) /\ Claim(w)
      BY <1>2, <2>3, TakenStep
    <3>2. ~Waiting(t)
      BY <1>2, <3>1 DEF Claimable
    <3>3. s <= staged
      BY <2>1, <3>1 DEF Claimable, Due, Tables, StagedOnly
    <3> QED BY <1>2, <2>1, <3>2, <3>3, TakenStep
  <2> QED BY <2>2, <2>3
<1> QED BY <1>1, <1>2 DEF TurnsInOrder

-----------------------------------------------------------------------------
(* Workers and the claims they hold. *)

TaskMoves(v) ==
  \/ task'[v] = task[v]
  \/ task'[v] = Idle
  \/ \E s \in Seqs : /\ Claim(v) /\ task'[v] = [Idle EXCEPT !.kind = "event", !.seq = s]
                     /\ rows'[s].status = "leased" /\ rows'[s].owner = v
  \/ \E s \in Seqs : /\ ClaimReconciliation(v)
                     /\ task'[v] = [Idle EXCEPT !.kind = "request", !.seq = s]
                     /\ requests'[s].status = "leased" /\ requests'[s].owner = v
  \/ (Project(v) \/ Reconciled(v)) /\ task'[v] = [task[v] EXCEPT !.step = "done"]
  \/ /\ ReadRepository(v) /\ Claimed(v).restored
     /\ task'[v] = [task[v] EXCEPT !.step = "restored"]
  \/ ReadRepository(v) /\ task'[v] = [task[v] EXCEPT !.step = "read", !.snap = pds]
  \/ WriteRecords(v) /\ task'[v] = [task[v] EXCEPT !.step = "written"]
  \/ FinishRestore(v) /\ task'[v] = [task[v] EXCEPT !.step = "restored", !.snap = 0]

LEMMA TasksMove == ASSUME TypeOK, [Next]_vars, NEW v \in Worker PROVE TaskMoves(v)
<1>0. task \in [Worker -> Task] /\ rows \in [Seqs -> Row] /\ requests \in [Seqs -> Request]
  BY DEF TypeOK
<1>1. ASSUME NEW w \in Worker, WorkerStep(w), w # v PROVE task'[v] = task[v]
  <2>1. \E i : task' = [task EXCEPT ![w] = i]
    <3>1. Renew(w) => task' = [task EXCEPT ![w] = @]
      BY <1>0 DEF Renew
    <3>2. ASSUME ~Renew(w) PROVE \E i : task' = [task EXCEPT ![w] = i]
      <4>1. CASE Claim(w)
        <5>1. PICK s \in Seqs : task' = [task EXCEPT ![w] = [Idle EXCEPT !.kind = "event", !.seq = s]]
          BY <4>1 DEF Claim
        <5> QED BY <5>1
      <4>2. CASE ClaimReconciliation(w)
        <5>1. PICK s \in Seqs : task' = [task EXCEPT ![w] = [Idle EXCEPT !.kind = "request", !.seq = s]]
          BY <4>2 DEF ClaimReconciliation
        <5> QED BY <5>1
      <4>3. CASE Project(w) \/ Reconciled(w)
        <5>1. task' = [task EXCEPT ![w] = [@ EXCEPT !.step = "done"]]
          BY <4>3 DEF Project, Reconciled
        <5> QED BY <5>1
      <4>4. CASE ReadRepository(w)
        <5>1. task' = [task EXCEPT ![w] = IF Claimed(w).restored THEN [@ EXCEPT !.step = "restored"]
                                          ELSE [@ EXCEPT !.step = "read", !.snap = pds]]
          BY <4>4 DEF ReadRepository
        <5> QED BY <5>1
      <4>5. CASE WriteRecords(w)
        <5>1. task' = [task EXCEPT ![w] = [@ EXCEPT !.step = "written"]]
          BY <4>5 DEF WriteRecords
        <5> QED BY <5>1
      <4>6. CASE FinishRestore(w)
        <5>1. task' = [task EXCEPT ![w] = [@ EXCEPT !.step = "restored", !.snap = 0]]
          BY <4>6 DEF FinishRestore
        <5> QED BY <5>1
      <4>7. CASE \/ Crash(w) \/ YieldRestore(w) \/ Applied(w) \/ AttemptFails(w) \/ ClaimLost(w)
                 \/ OutcomeLost(w) \/ CompleteReconciliation(w)
        <5>1. task' = [task EXCEPT ![w] = Idle]
          BY <4>7 DEF Crash, YieldRestore, Applied, AttemptFails, ClaimLost, OutcomeLost,
                      CompleteReconciliation
        <5> QED BY <5>1
      <4> QED BY <1>1, <3>2, <4>1, <4>2, <4>3, <4>4, <4>5, <4>6, <4>7 DEF WorkerStep
    <3> QED BY <3>1, <3>2
  <2> QED BY <1>0, <1>1, <2>1
<1>2. ASSUME WorkerStep(v) PROVE TaskMoves(v)
  <2>1. CASE Claim(v)
    <3>1. PICK s \in Seqs :
            /\ rows' = [rows EXCEPT ![s].status = "leased", ![s].owner = v, ![s].live = TRUE]
            /\ task' = [task EXCEPT ![v] = [Idle EXCEPT !.kind = "event", !.seq = s]]
      BY <2>1 DEF Claim
    <3>2. rows'[s].status = "leased" /\ rows'[s].owner = v
      BY <1>0, <3>1 DEF Row
    <3>3. task'[v] = [Idle EXCEPT !.kind = "event", !.seq = s]
      BY <1>0, <3>1
    <3> QED BY <2>1, <3>2, <3>3 DEF TaskMoves
  <2>2. CASE ClaimReconciliation(v)
    <3>1. PICK s \in Seqs :
            /\ requests' = [requests EXCEPT ![s].status = "leased", ![s].owner = v, ![s].live = TRUE]
            /\ task' = [task EXCEPT ![v] = [Idle EXCEPT !.kind = "request", !.seq = s]]
      BY <2>2 DEF ClaimReconciliation
    <3>2. requests'[s].status = "leased" /\ requests'[s].owner = v
      BY <1>0, <3>1 DEF Request
    <3>3. task'[v] = [Idle EXCEPT !.kind = "request", !.seq = s]
      BY <1>0, <3>1
    <3> QED BY <2>2, <3>2, <3>3 DEF TaskMoves
  <2>3. CASE Project(v) \/ Reconciled(v)
    <3>1. task' = [task EXCEPT ![v] = [@ EXCEPT !.step = "done"]]
      BY <2>3 DEF Project, Reconciled
    <3> QED BY <1>0, <2>3, <3>1 DEF TaskMoves
  <2>4. CASE ReadRepository(v)
    <3>1. task' = [task EXCEPT ![v] = IF Claimed(v).restored THEN [@ EXCEPT !.step = "restored"]
                                      ELSE [@ EXCEPT !.step = "read", !.snap = pds]]
      BY <2>4 DEF ReadRepository
    <3> QED BY <1>0, <2>4, <3>1 DEF TaskMoves
  <2>5. CASE WriteRecords(v)
    <3>1. task' = [task EXCEPT ![v] = [@ EXCEPT !.step = "written"]]
      BY <2>5 DEF WriteRecords
    <3> QED BY <1>0, <2>5, <3>1 DEF TaskMoves
  <2>6. CASE FinishRestore(v)
    <3>1. task' = [task EXCEPT ![v] = [@ EXCEPT !.step = "restored", !.snap = 0]]
      BY <2>6 DEF FinishRestore
    <3> QED BY <1>0, <2>6, <3>1 DEF TaskMoves
  <2>7. CASE \/ Crash(v) \/ YieldRestore(v) \/ Applied(v) \/ AttemptFails(v) \/ ClaimLost(v)
             \/ OutcomeLost(v) \/ CompleteReconciliation(v)
    <3>1. task' = [task EXCEPT ![v] = Idle]
      BY <2>7 DEF Crash, YieldRestore, Applied, AttemptFails, ClaimLost, OutcomeLost,
                  CompleteReconciliation
    <3> QED BY <1>0, <3>1 DEF TaskMoves
  <2>8. CASE Renew(v)
    BY <2>8 DEF Renew, TaskMoves
  <2> QED BY <1>2, <2>1, <2>2, <2>3, <2>4, <2>5, <2>6, <2>7, <2>8 DEF WorkerStep
<1>3. CASE task' = task
  BY <1>3 DEF TaskMoves
<1>4. (\E w \in Worker : WorkerStep(w)) \/ task' = task
  BY DEF Next, Emits, Stage, ScopeMoves, FilterOutsideScope, ExpireLease, AdvanceAppliedWatermark,
     OperatorRetryFailedReconciliations, vars
<1>5. task'[v] = task[v] => TaskMoves(v)
  BY DEF TaskMoves
<1> QED BY <1>1, <1>2, <1>3, <1>4, <1>5

\* A request leaves the hands of its owner while the lease is in force only by
\* what that worker does.
LEMMA RequestOwnerStep ==
  ASSUME Tables, [Next]_vars, NEW s \in Seqs, NEW v \in Worker, requests[s].status = "leased",
         requests[s].owner = v, requests[s].live, task'[v] # Idle
  PROVE  requests'[s].owner = v
<1>1. requests[s] \in Request /\ TypeOK
  BY DEF Tables, TypeOK
<1>2. ASSUME NEW w \in Worker, Working(w, "request"), task[w].seq = s,
             YieldRestore(w) \/ CompleteReconciliation(w) \/ AttemptFails(w)
      PROVE  FALSE
  <2>1. w = v
    BY <1>2, HeldRequest DEF Tables, YieldRestore, HoldsLive, CompleteReconciliation, AttemptFails
  <2>2. task' = [task EXCEPT ![w] = Idle]
    BY <1>2 DEF YieldRestore, CompleteReconciliation, AttemptFails
  <2> QED BY <1>1, <2>1, <2>2 DEF TypeOK
<1>3. RequestMoves(s)
  BY RequestsMove
<1> QED BY <1>1, <1>2, <1>3 DEF RequestMoves, Request, Due

LEMMA HoldNext ==
  ASSUME Tables, HeldLeasesLive, TasksHold, OwnedWhenLeased', [Next]_vars
  PROVE  TasksHold'
<1> SUFFICES ASSUME ~Stalls, NEW v \in Worker, ~Working(v, "idle")' PROVE Holds(v)'
  BY DEF TasksHold
<1>0. TypeOK /\ TasksOnEvents /\ task[v] \in Task /\ Idle \in Task /\ Idle.kind = "idle"
  BY IdleTask DEF Tables, TypeOK, Idle
<1>1. TaskMoves(v)
  BY <1>0, TasksMove
<1>2. CASE ~Working(v, "idle") /\ task'[v].kind = task[v].kind /\ task'[v].seq = task[v].seq
  <2> DEFINE s == task[v].seq
  <2>1. Holds(v) /\ s \in Seqs /\ task'[v] # Idle
    BY <1>0, <1>2 DEF TasksHold, TasksOnEvents, Working
  <2>2. CASE Working(v, "event")
    <3>1. rows[s].status = "leased" /\ rows[s].owner = v /\ rows[s].live
      BY <1>0, <2>1, <2>2, HeldEvent DEF HeldLeasesLive
    <3>2. OwnerStep(s)
      BY <1>0, <2>1, NextOwner
    <3>3. rows'[s].owner = v
      BY <2>1, <3>1, <3>2 DEF OwnerStep, Due
    <3>4. rows'[s].status = "leased"
      BY <2>1, <3>3 DEF OwnedWhenLeased
    <3> QED BY <1>2, <2>2, <3>3, <3>4 DEF Holds, Claimed, Working
  <2>3. CASE ~Working(v, "event")
    <3>0. Working(v, "request")
      BY <1>0, <1>2, <2>3 DEF Task, Working
    <3>1. requests[s].status = "leased" /\ requests[s].owner = v /\ requests[s].live
      BY <1>0, <2>1, <3>0, HeldRequest DEF HeldLeasesLive
    <3>2. requests'[s].owner = v
      BY <2>1, <3>1, RequestOwnerStep
    <3>3. requests'[s].status = "leased"
      BY <2>1, <3>2 DEF OwnedWhenLeased
    <3> QED BY <1>2, <3>0, <3>2, <3>3 DEF Holds, Claimed, Working
  <2> QED BY <2>2, <2>3
<1>3. CASE \E s \in Seqs : /\ task'[v] = [Idle EXCEPT !.kind = "event", !.seq = s]
                           /\ rows'[s].status = "leased" /\ rows'[s].owner = v
  BY <1>0, <1>3 DEF Task, Holds, Claimed, Working
<1>4. CASE \E s \in Seqs : /\ task'[v] = [Idle EXCEPT !.kind = "request", !.seq = s]
                           /\ requests'[s].status = "leased" /\ requests'[s].owner = v
  BY <1>0, <1>4 DEF Task, Holds, Claimed, Working
<1>5. CASE ~(\E s \in Seqs : /\ task'[v] = [Idle EXCEPT !.kind = "event", !.seq = s]
                             /\ rows'[s].status = "leased" /\ rows'[s].owner = v)
           /\ ~(\E s \in Seqs : /\ task'[v] = [Idle EXCEPT !.kind = "request", !.seq = s]
                                /\ requests'[s].status = "leased" /\ requests'[s].owner = v)
  <2>1. task'[v].kind = task[v].kind /\ task'[v].seq = task[v].seq
    BY <1>0, <1>1, <1>5 DEF TaskMoves, Task, Working
  <2> QED BY <1>2, <2>1 DEF Working
<1> QED BY <1>3, <1>4, <1>5

\* With renewals in time, an event somebody works on is taken, and nobody
\* claims another one of its repository.
LEMMA WorkTakes ==
  ASSUME Tables, TasksHold, ~Stalls, NEW w \in Worker, ~Working(w, "idle")
  PROVE  task[w].seq \in Seqs /\ Taken(task[w].seq)
<1>1. Holds(w) /\ task[w].seq \in Seqs
  BY DEF TasksHold, Tables, TasksOnEvents, Working
<1>2. Working(w, "event") \/ Working(w, "request")
  BY DEF Tables, TypeOK, Task, Working
<1> QED BY <1>1, <1>2, HeldEvent, HeldRequest DEF Tables, RequestsOfDeadLetters, Taken

LEMMA WorkExcludes ==
  ASSUME Tables, OneTurnPerRepository, HeldLeasesLive, TasksHold, ~Stalls,
         NEW w \in Worker, ~Working(w, "idle"), NEW s \in Seqs, Claimable(s)
  PROVE  RepoOf[s] # RepoOf[task[w].seq]
<1> SUFFICES ASSUME RepoOf[s] = RepoOf[task[w].seq] PROVE FALSE
  OBVIOUS
<1> DEFINE u == task[w].seq
<1>1. Holds(w) /\ u \in Seqs /\ TasksOnEvents
  BY DEF TasksHold, Tables, TasksOnEvents, Working
<1>2. CASE Working(w, "event")
  <2>1. rows[u].status = "leased" /\ rows[u].owner = w /\ rows[u].live
    BY <1>1, <1>2, HeldEvent DEF HeldLeasesLive
  <2>2. s # u
    BY <2>1 DEF Claimable, Due
  <2>3. u < s
    BY <1>1, <2>1, <2>2 DEF OneTurnPerRepository, Claimable, Due, Waiting
  <2> QED BY <1>1, <2>1, <2>3 DEF Claimable, Waiting
<1>3. CASE Working(w, "request")
  BY <1>1, <1>3, HeldRequest DEF Claimable
<1>4. Working(w, "event") \/ Working(w, "request")
  BY DEF Tables, TypeOK, Task, Working
<1> QED BY <1>2, <1>3, <1>4

LEMMA ReadsNext ==
  ASSUME Tables, OneTurnPerRepository, HeldLeasesLive, OwnedWhenLeased, TurnsInOrder, TasksHold,
         ReadsCurrent, [Next]_vars
  PROVE  ReadsCurrent'
<1> SUFFICES ASSUME ~Stalls, NEW v \in Worker, NEW s \in Seqs, ~Working(v, "idle")',
                    task'[v].step = "read", RepoOf[s] = RepoOf[task'[v].seq], Taken(s)'
             PROVE  s <= task'[v].snap
  BY DEF ReadsCurrent
<1>0. /\ TypeOK /\ task[v] \in Task /\ Idle \in Task /\ Idle.kind = "idle" /\ Idle.step = "claimed"
      /\ staged \in Nat /\ pds \in 0..MaxSeq /\ pds \in Nat /\ s \in Nat
  BY IdleTask, EventAssumption DEF Tables, TypeOK, Idle, Seqs
<1>1. TaskMoves(v)
  BY <1>0, TasksMove
<1>2. CASE task'[v] = task[v]
  <2>1. ~Working(v, "idle") /\ RepoOf[s] = RepoOf[task[v].seq]
    BY <1>2 DEF Working
  <2>2. Taken(s)
    BY <2>1, TakenStep, WorkExcludes
  <2> QED BY <1>2, <2>1, <2>2 DEF ReadsCurrent
<1>3. CASE ReadRepository(v) /\ task'[v] = [task[v] EXCEPT !.step = "read", !.snap = pds]
  <2>1. task'[v].snap = pds /\ task'[v].seq = task[v].seq
    BY <1>0, <1>3 DEF Task
  <2>2. ~Working(v, "idle") /\ RepoOf[s] = RepoOf[task[v].seq]
    BY <1>3, <2>1 DEF ReadRepository, Restores, Working
  <2>3. Taken(s) /\ s <= staged
    BY <2>2, TakenStep, WorkExcludes
  <2> QED BY <1>0, <2>1, <2>3 DEF TurnsInOrder
<1>4. task'[v] = task[v] \/ (ReadRepository(v) /\ task'[v] = [task[v] EXCEPT !.step = "read", !.snap = pds])
  BY <1>0, <1>1 DEF TaskMoves, Task, Working
<1> QED BY <1>2, <1>3, <1>4

-----------------------------------------------------------------------------
(* What is said of the content stays true. *)

LEMMA SaidOfTaken ==
  ASSUME Tables, OwnedWhenLeased, TasksHold, ~Stalls, NEW s \in Seqs,
         SaysCovered(s) \/ SaysRecorded(s)
  PROVE  Taken(s)
<1>1. requests[s].restored => Taken(s)
  BY DEF OwnedWhenLeased, Tables, RequestsOfDeadLetters, Taken
<1>2. ASSUME NEW w \in Worker, ~Working(w, "idle"), task[w].seq = s PROVE Taken(s)
  BY <1>2, WorkTakes
<1>3. \A w \in Worker : At(w, "event", "done") => ~Working(w, "idle")
  BY DEF At, Working
<1> QED BY <1>1, <1>2, <1>3 DEF SaysCovered, SaysRecorded, Taken

\* A record keeps a version that every snapshot from s on would give it.
LEMMA RecordKept ==
  ASSUME Tables, OwnedWhenLeased, TurnsInOrder, TasksHold, ReadsCurrent, ~Stalls, [Next]_vars,
         NEW s \in Seqs, Taken(s), NEW r \in RecordsOf(RepoOf[s]), NEW k \in 0..s,
         \A n \in 0..MaxSeq : s <= n => k <= Version(r, n), content[r] >= k
  PROVE  content'[r] >= k
<1>0. /\ s \in Nat /\ k \in Nat /\ k <= s /\ r \in Record
      /\ content \in [Record -> 0..MaxSeq] /\ task \in [Worker -> Task] /\ MaxSeq \in Nat
  BY EventAssumption, RecordsType DEF Tables, TypeOK, Seqs
<1>1. CASE content' = content
  BY <1>1
<1>2. ASSUME NEW w \in Worker, Project(w) PROVE content'[r] >= k
  <2> DEFINE u == task[w].seq
  <2>1. ~Working(w, "idle") /\ Working(w, "event") /\ Holds(w)
    BY <1>2 DEF Project, At, Working, TasksHold
  <2>2. u \in Seqs /\ Waiting(u)
    BY <2>1, HeldEvent DEF Tables, Waiting
  <2>3. content'[r] = IF r \in Writes[u] THEN u ELSE content[r]
    BY <1>0, <1>2 DEF Project
  <2>4. CASE r \in Writes[u]
    <3>1. RepoOf[u] = RepoOf[s]
      BY <2>2, <2>4, WritesAreRecords, RecordsApart
    <3>2. ~(u < s) /\ u \in Nat
      BY <2>2, <3>1, EventAssumption DEF TurnsInOrder, Seqs
    <3> QED BY <1>0, <2>3, <2>4, <3>2
  <2> QED BY <2>3, <2>4
<1>3. ASSUME NEW w \in Worker, WriteRecords(w) PROVE content'[r] >= k
  <2> DEFINE u == task[w].seq
             n == task[w].snap
  <2>1. content'[r] = IF r \in RecordsOf(RepoOf[u]) THEN Version(r, n) ELSE content[r]
    BY <1>0, <1>3 DEF WriteRecords
  <2>2. CASE r \in RecordsOf(RepoOf[u])
    <3>1. ~Working(w, "idle") /\ task[w].step = "read" /\ n \in 0..MaxSeq
      BY <1>0, <1>3 DEF WriteRecords, Restores, Working, Task
    <3>2. RepoOf[u] = RepoOf[s]
      BY <2>2, RecordsApart
    <3>3. s <= n
      BY <3>1, <3>2 DEF ReadsCurrent
    <3>4. Version(r, n) \in 0..n
      BY <1>0, <3>1, VersionFacts
    <3> QED BY <1>0, <2>1, <2>2, <3>1, <3>3, <3>4
  <2> QED BY <2>1, <2>2
<1>4. content' = content \/ \E w \in Worker : Project(w) \/ WriteRecords(w)
  BY DEF Next, Emits, Stage, ScopeMoves, FilterOutsideScope, ExpireLease, AdvanceAppliedWatermark,
     OperatorRetryFailedReconciliations, WorkerStep, Claim, ClaimReconciliation, Renew, Crash,
     ReadRepository, FinishRestore, YieldRestore, Reconciled, Applied,
     AttemptFails, ClaimLost, OutcomeLost, CompleteReconciliation, vars
<1> QED BY <1>1, <1>2, <1>3, <1>4

LEMMA ContentKept ==
  ASSUME Tables, OwnedWhenLeased, TurnsInOrder, TasksHold, ReadsCurrent, ~Stalls, [Next]_vars,
         NEW s \in Seqs, Taken(s)
  PROVE  /\ Covered(s) => Covered(s)'
         /\ Recorded(s) => Recorded(s)'
<1>0. s \in Nat /\ s \in 0..MaxSeq /\ s \in 0..s
  BY EventAssumption DEF Seqs
<1>1. ASSUME Covered(s), NEW r \in RecordsOf(RepoOf[s]) PROVE content'[r] >= Version(r, s)
  <2>1. r \in Record
    BY RecordsType
  <2>2. PICK k : k = Version(r, s)
    OBVIOUS
  <2>3. k \in 0..s /\ content[r] >= k
    BY <1>0, <1>1, <2>1, <2>2, VersionFacts DEF Covered
  <2>4. ASSUME NEW n \in 0..MaxSeq, s <= n PROVE k <= Version(r, n)
    <3>1. s \in 0..n
      BY <1>0, <2>4
    <3> QED BY <2>1, <2>2, <3>1, VersionFacts
  <2> QED BY <2>2, <2>3, <2>4, RecordKept
<1>2. ASSUME Recorded(s), NEW r \in Writes[s] PROVE content'[r] >= s
  <2>1. s \in Projected /\ r \in RecordsOf(RepoOf[s]) /\ r \in Record
    BY WritesAreRecords
  <2>2. \A n \in 0..MaxSeq : s <= n => s <= Version(r, n)
    BY <1>2, <2>1, VersionFacts
  <2>3. content[r] >= s
    BY <1>2 DEF Recorded
  <2> QED BY <1>0, <2>1, <2>2, <2>3, RecordKept
<1> QED BY <1>1, <1>2 DEF Covered, Recorded

\* What is said of a repository was said before or has just been written.
LEMMA CoveredSaid ==
  ASSUME Tables, [Next]_vars, NEW s \in Seqs, SaysCovered(s)'
  PROVE  SaysCovered(s) \/ \E w \in Worker : WriteRecords(w) /\ task[w].seq = s
<1>0. rows[s] \in Row /\ requests[s] \in Request /\ TypeOK
  BY DEF Tables, TypeOK
<1>1. \A w \in Worker : /\ Restores(w) => ~Working(w, "idle")
                        /\ At(w, "event", "restored") \/ At(w, "request", "restored") => ~Working(w, "idle")
  BY DEF Restores, Working, At
<1>2. \A w \in Worker :
        /\ task[w].seq = s
        /\ FinishRestore(w) \/ Reconciled(w) \/ CompleteReconciliation(w)
        => SaysCovered(s)
  BY <1>1 DEF FinishRestore, Reconciled, CompleteReconciliation, At, SaysCovered
<1>3. RowMoves(s) /\ RequestMoves(s)
  BY RowsMove, RequestsMove
<1>4. rows'[s].restored => SaysCovered(s)
  <2>1. rows'[s].restored =>
          \/ rows[s].restored
          \/ \E w \in Worker : task[w].seq = s /\ FinishRestore(w)
    BY <1>0, <1>3 DEF RowMoves, Row, Released
  <2> QED BY <1>2, <2>1 DEF SaysCovered
<1>5. rows'[s].reconciled => SaysCovered(s)
  <2>1. rows'[s].reconciled =>
          \/ rows[s].reconciled
          \/ \E w \in Worker : task[w].seq = s /\ (Reconciled(w) \/ CompleteReconciliation(w))
    BY <1>0, <1>3 DEF RowMoves, Row, Released
  <2> QED BY <1>2, <2>1 DEF SaysCovered
<1>6. requests'[s].restored => SaysCovered(s)
  <2>1. requests'[s].restored =>
          \/ requests[s].restored
          \/ \E w \in Worker : task[w].seq = s /\ FinishRestore(w)
    BY <1>0, <1>3 DEF RequestMoves, Request, Released
  <2> QED BY <1>2, <2>1 DEF SaysCovered
<1>7. ASSUME NEW v \in Worker, ~Working(v, "idle")', task'[v].seq = s,
             task'[v].step \in {"written", "restored"}
      PROVE  SaysCovered(s) \/ \E w \in Worker : WriteRecords(w) /\ task[w].seq = s
  <2>0. task[v] \in Task /\ Idle \in Task /\ Idle.kind = "idle" /\ Idle.step = "claimed"
    BY <1>0, IdleTask DEF TypeOK, Idle
  <2>1. TaskMoves(v)
    BY <1>0, TasksMove
  <2>2. CASE task'[v] = task[v]
    BY <1>7, <2>2 DEF SaysCovered, Working
  <2>3. CASE ReadRepository(v) /\ Claimed(v).restored /\ task'[v] = [task[v] EXCEPT !.step = "restored"]
    <3>1. task[v].seq = s
      BY <1>7, <2>0, <2>3 DEF Task
    <3> QED BY <2>3, <3>1 DEF Claimed, SaysCovered
  <2>4. CASE WriteRecords(v) /\ task'[v] = [task[v] EXCEPT !.step = "written"]
    <3>1. task[v].seq = s
      BY <1>7, <2>0, <2>4 DEF Task
    <3> QED BY <2>4, <3>1
  <2>5. CASE FinishRestore(v) /\ task'[v] = [task[v] EXCEPT !.step = "restored", !.snap = 0]
    <3>1. task[v].seq = s
      BY <1>7, <2>0, <2>5 DEF Task
    <3> QED BY <1>2, <2>5, <3>1
  <2>6. \/ task'[v] = task[v]
        \/ ReadRepository(v) /\ Claimed(v).restored /\ task'[v] = [task[v] EXCEPT !.step = "restored"]
        \/ WriteRecords(v) /\ task'[v] = [task[v] EXCEPT !.step = "written"]
        \/ FinishRestore(v) /\ task'[v] = [task[v] EXCEPT !.step = "restored", !.snap = 0]
    BY <1>7, <2>0, <2>1 DEF TaskMoves, Task, Working
  <2> QED BY <2>2, <2>3, <2>4, <2>5, <2>6
<1> QED BY <1>4, <1>5, <1>6, <1>7 DEF SaysCovered

LEMMA RecordedSaid ==
  ASSUME Tables, [Next]_vars, NEW s \in Seqs, SaysRecorded(s)'
  PROVE  \/ SaysRecorded(s) \/ SaysCovered(s)
         \/ \E w \in Worker : Project(w) /\ task[w].seq = s
<1>0. rows[s] \in Row /\ TypeOK
  BY DEF Tables, TypeOK
<1>1. rows'[s].status = "applied" => SaysRecorded(s)
  <2>1. RowMoves(s)
    BY RowsMove
  <2>2. rows'[s].status = "applied" =>
          rows[s].status = "applied" \/ \E w \in Worker : Applied(w) /\ task[w].seq = s
    BY <1>0, <2>1 DEF RowMoves, Row, Released
  <2> QED BY <2>2 DEF Applied, SaysRecorded
<1>2. ASSUME NEW v \in Worker, At(v, "event", "done")', task'[v].seq = s
      PROVE  \/ SaysRecorded(s) \/ SaysCovered(s)
             \/ \E w \in Worker : Project(w) /\ task[w].seq = s
  <2>0. task[v] \in Task /\ Idle \in Task /\ Idle.kind = "idle" /\ Idle.step = "claimed"
    BY <1>0, IdleTask DEF TypeOK, Idle
  <2>1. TaskMoves(v)
    BY <1>0, TasksMove
  <2>2. CASE task'[v] = task[v]
    BY <1>2, <2>2 DEF SaysRecorded, At, Working
  <2>3. CASE (Project(v) \/ Reconciled(v)) /\ task'[v] = [task[v] EXCEPT !.step = "done"]
    <3>1. task[v].seq = s
      BY <1>2, <2>0, <2>3 DEF Task
    <3>2. Reconciled(v) => SaysCovered(s)
      BY <3>1 DEF Reconciled, At, Working, SaysCovered
    <3> QED BY <2>3, <3>1, <3>2
  <2>4. \/ task'[v] = task[v]
        \/ (Project(v) \/ Reconciled(v)) /\ task'[v] = [task[v] EXCEPT !.step = "done"]
    BY <1>2, <2>0, <2>1 DEF TaskMoves, Task, At, Working
  <2> QED BY <2>2, <2>3, <2>4
<1> QED BY <1>1, <1>2 DEF SaysRecorded

LEMMA ContentNext ==
  ASSUME Tables, OwnedWhenLeased, TurnsInOrder, TasksHold, ReadsCurrent, ContentHolds, [Next]_vars
  PROVE  ContentHolds'
<1> SUFFICES ASSUME ~Stalls, NEW s \in Seqs
             PROVE  /\ SaysCovered(s)' => Covered(s)'
                    /\ SaysRecorded(s)' => Recorded(s)'
  BY DEF ContentHolds
<1>0. TypeOK /\ s \in 0..MaxSeq /\ s \in Nat
  BY EventAssumption DEF Tables, Seqs
<1>1. SaysCovered(s) => Covered(s)' /\ Recorded(s)'
  BY <1>0, SaidOfTaken, ContentKept, CoveredIsRecorded DEF ContentHolds
<1>2. SaysRecorded(s) => Recorded(s)'
  BY SaidOfTaken, ContentKept DEF ContentHolds
<1>3. ASSUME NEW w \in Worker, WriteRecords(w), task[w].seq = s PROVE Covered(s)'
  <2> DEFINE n == task[w].snap
  <2>1. ~Working(w, "idle") /\ task[w].step = "read" /\ n \in 0..MaxSeq
    BY <1>0, <1>3 DEF WriteRecords, Restores, Working, TypeOK, Task
  <2>2. Taken(s)
    BY <1>3, <2>1, WorkTakes
  <2>3. s <= n /\ s \in 0..n
    BY <1>0, <1>3, <2>1, <2>2 DEF ReadsCurrent
  <2>4. ASSUME NEW r \in RecordsOf(RepoOf[s]) PROVE content'[r] >= Version(r, s)
    <3>1. r \in Record
      BY RecordsType
    <3>2. content'[r] = Version(r, n)
      BY <1>3, <3>1 DEF WriteRecords
    <3>3. Version(r, s) <= Version(r, n) /\ Version(r, n) \in 0..n /\ Version(r, s) \in 0..s
      BY <1>0, <2>1, <2>3, <3>1, VersionFacts
    <3> QED BY <1>0, <2>1, <3>2, <3>3
  <2> QED BY <2>4 DEF Covered
<1>4. ASSUME NEW w \in Worker, Project(w), task[w].seq = s PROVE Recorded(s)'
  <2>1. \A r \in Writes[s] : content'[r] = s
    BY <1>4, WritesAreRecords DEF Project
  <2> QED BY <1>0, <2>1 DEF Recorded
<1> QED BY <1>1, <1>2, <1>3, <1>4, CoveredSaid, RecordedSaid

LEMMA InitContent == Init => ContentInv
<1> SUFFICES ASSUME Init PROVE ContentInv
  OBVIOUS
<1>1. /\ \A s \in Seqs : /\ rows[s].status = "absent" /\ ~rows[s].reconciled /\ ~rows[s].restored
                         /\ requests[s].status = "absent" /\ ~requests[s].restored
                         /\ rows[s].owner = NoWorker /\ requests[s].owner = NoWorker
      /\ \A w \in Worker : task[w].kind = "idle"
      /\ staged = 0 /\ pds = 0
  BY DEF Init, AbsentRow, AbsentReq, Idle
<1>2. OwnedWhenLeased /\ TurnsInOrder
  BY <1>1, WorkerAssumption DEF OwnedWhenLeased, TurnsInOrder, Taken
<1>3. TasksHold /\ ReadsCurrent
  BY <1>1 DEF TasksHold, ReadsCurrent, Working
<1>4. \A s \in Seqs : ~SaysCovered(s) /\ ~SaysRecorded(s)
  BY <1>1 DEF SaysCovered, SaysRecorded, At, Working
<1> QED BY <1>2, <1>3, <1>4 DEF ContentInv, ContentHolds

LEMMA NextContent == IInv /\ ContentInv /\ [Next]_vars => ContentInv'
<1> SUFFICES ASSUME IInv, ContentInv, [Next]_vars PROVE ContentInv'
  OBVIOUS
<1>1. Tables /\ HeldLeasesLive /\ OneTurnPerRepository
  BY DEF IInv, Tables
<1>2. OwnedWhenLeased' /\ TurnsInOrder'
  BY <1>1, OwnedNext, TurnsNext DEF ContentInv
<1>3. TasksHold' /\ ReadsCurrent'
  BY <1>1, <1>2, HoldNext, ReadsNext DEF ContentInv
<1>4. ContentHolds'
  BY <1>1, ContentNext DEF ContentInv
<1> QED BY <1>2, <1>3, <1>4 DEF ContentInv

\* Where renewals are in time, what is settled is projected: an applied event is
\* visible in its records, in its own version or a later one, and a reconciled
\* one in all records of its repository, whatever crashes, restores and retries.
THEOREM ProjectionHolds == Spec => [](~Stalls => ProjectionCurrent)
<1>1. Init => ContentInv
  BY InitContent
<1>2. IInv /\ ContentInv /\ [Next]_vars => ContentInv'
  BY NextContent
<1>3. ContentInv => (~Stalls => ProjectionCurrent)
  BY DEF ContentInv, ContentHolds, SaysCovered, SaysRecorded, Covered, Recorded, ProjectionCurrent
<1> QED BY <1>1, <1>2, <1>3, Inductive, PTL DEF Spec
=============================================================================
