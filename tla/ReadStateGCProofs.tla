------------------------- MODULE ReadStateGCProofs -------------------------
(***************************************************************************)
(* Proofs about ReadStateGC, for any devices, collectors, chunks and       *)
(* clocks.  First the types.  Then the inductive invariant IInv: what a    *)
(* plan and a collection still know of a repository that others write.     *)
(***************************************************************************)
EXTENDS ReadStateGC, TLAPS

(* Types. *)

LEMMA TypeInit == Init => TypeOK
<1> SUFFICES ASSUME Init PROVE TypeOK
  OBVIOUS
<1>1. FirstManifest \in Manifest /\ NoReading \in Reading /\ NoWatch \in Watch
  BY DeviceAssumption DEF FirstManifest, Manifest, NoReading, Reading, NoWatch, Watch
<1>2. NoJob \in Job
  BY <1>1 DEF NoJob, Job, Phases
<1>3. repo \in [commit : Nat, manifest : Manifest, chunks : SUBSET Chunks]
  BY <1>1, DeviceAssumption DEF Init
<1>4. ledger \in [Devices -> [watched : SUBSET Chunks, watch : [Chunks -> Watch],
                              ever : BOOLEAN, observed : Reading]]
  BY <1>1 DEF Init
<1> QED BY <1>2, <1>3, <1>4, BoundAssumption DEF Init, TypeOK

LEMMA NoJobType == NoJob \in Job
<1>1. FirstManifest \in Manifest /\ NoReading \in Reading
  BY DeviceAssumption DEF FirstManifest, Manifest, NoReading, Reading
<1> QED BY <1>1 DEF NoJob, Job, Phases

LEMMA EndType == ASSUME TypeOK, NEW d \in Devices, End(d) PROVE job' \in [Devices -> Job]
BY NoJobType DEF TypeOK, End

LEMMA TypeLoad == ASSUME TypeOK, NEW d \in Devices, Load(d) PROVE TypeOK'
<1>1. job[d] \in Job /\ repo.manifest \in Manifest
  BY DEF TypeOK
<1>2. [job[d] EXCEPT !.pc = "loading", !.base = repo.manifest] \in Job
  BY <1>1 DEF Job, Phases
<1>3. job' \in [Devices -> Job]
  BY <1>2 DEF TypeOK, Load
<1> QED BY <1>3 DEF TypeOK, Load

LEMMA TypePlan == ASSUME TypeOK, NEW d \in Devices, Plan(d) PROVE TypeOK'
<1>1. CASE End(d) /\ UNCHANGED uploaded
  BY <1>1, EndType DEF TypeOK, Plan
<1>2. ASSUME NEW kept \in SUBSET job[d].base.refs, NEW new \in SUBSET Chunks, StartPlan(d, kept, new)
      PROVE  TypeOK'
  <2>1. job[d] \in Job /\ kept \subseteq Chunks
    BY DEF TypeOK, Job, Manifest
  <2>2. [job[d] EXCEPT !.pc = "uploading", !.refs = kept \cup new, !.todo = new] \in Job
    BY <2>1 DEF Job, Phases
  <2>3. job' \in [Devices -> Job] /\ uploaded' \in [Devices -> SUBSET Chunks]
    BY <1>2, <2>2 DEF TypeOK, StartPlan
  <2> QED BY <2>3 DEF TypeOK, Plan
<1> QED BY <1>1, <1>2 DEF Plan

LEMMA UploadedType ==
  ASSUME TypeOK, NEW d \in Devices, NEW c \in Chunks, Uploaded(d, c)
  PROVE  job' \in [Devices -> Job] /\ uploaded' \in [Devices -> SUBSET Chunks]
<1>1. job[d] \in Job /\ uploaded[d] \subseteq Chunks
  BY DEF TypeOK
<1>2. [job[d] EXCEPT !.pc = "uploading", !.todo = @ \ {c}, !.probe = {}] \in Job
  BY <1>1 DEF Job, Phases
<1> QED BY <1>1, <1>2 DEF TypeOK, Uploaded

LEMMA TypeUpload == ASSUME TypeOK, NEW d \in Devices, Upload(d) PROVE TypeOK'
<1>1. PICK c \in job[d].todo :
         \/ /\ repo' = [repo EXCEPT !.chunks = @ \cup {c}, !.commit = @ + 1]
            /\ Uploaded(d, c)
         \/ /\ job' = [job EXCEPT ![d].pc = "probing", ![d].probe = {c}]
            /\ UNCHANGED <<repo, uploaded>>
  BY DEF Upload
<1>2. job[d] \in Job /\ c \in Chunks
  BY <1>1 DEF TypeOK, Job
<1>3. CASE UNCHANGED <<repo, uploaded>> /\ job' = [job EXCEPT ![d].pc = "probing", ![d].probe = {c}]
  <2>1. [job[d] EXCEPT !.pc = "probing", !.probe = {c}] \in Job
    BY <1>2 DEF Job, Phases
  <2>2. job' \in [Devices -> Job]
    BY <1>3, <2>1 DEF TypeOK
  <2> QED BY <1>3, <2>2 DEF TypeOK, Upload
<1>4. CASE Uploaded(d, c) /\ repo' = [repo EXCEPT !.chunks = @ \cup {c}, !.commit = @ + 1]
  <2>1. repo.commit + 1 \in Nat /\ repo.chunks \cup {c} \subseteq Chunks
    BY <1>2 DEF TypeOK
  <2>2. repo' \in [commit : Nat, manifest : Manifest, chunks : SUBSET Chunks]
    BY <1>4, <2>1 DEF TypeOK
  <2> QED BY <1>2, <1>4, <2>2, UploadedType DEF TypeOK, Upload
<1> QED BY <1>1, <1>3, <1>4

LEMMA TypeProbe == ASSUME TypeOK, NEW d \in Devices, Probe(d) PROVE TypeOK'
<1>1. CASE End(d) /\ UNCHANGED uploaded
  BY <1>1, EndType DEF TypeOK, Probe
<1>2. ASSUME NEW c \in job[d].probe, Uploaded(d, c) PROVE TypeOK'
  <2>1. c \in Chunks
    BY DEF TypeOK, Job
  <2> QED BY <1>2, <2>1, UploadedType DEF TypeOK, Probe
<1> QED BY <1>1, <1>2 DEF Probe

LEMMA TypePublish == ASSUME TypeOK, NEW d \in Devices, Publish(d) PROVE TypeOK'
<1>1. End(d)
  BY DEF Publish
<1>2. job' \in [Devices -> Job]
  BY <1>1, EndType
<1>3. repo' \in [commit : Nat, manifest : Manifest, chunks : SUBSET Chunks]
  <2>1. CASE UNCHANGED repo
    BY <2>1 DEF TypeOK
  <2>2. CASE repo' = [repo EXCEPT !.commit = @ + 1,
                        !.manifest = [rev |-> @.rev + 1, last |-> @.last + 1, refs |-> job[d].refs]]
    <3>1. [rev |-> repo.manifest.rev + 1, last |-> repo.manifest.last + 1, refs |-> job[d].refs] \in Manifest
      BY DEF TypeOK, Manifest, Job
    <3>2. repo.commit + 1 \in Nat
      BY DEF TypeOK
    <3> QED BY <2>2, <3>1, <3>2 DEF TypeOK
  <2> QED BY <2>1, <2>2 DEF Publish
<1>4. uploaded' \in [Devices -> SUBSET Chunks] /\ faults' \in 0..MaxFaults
  BY BoundAssumption DEF TypeOK, Publish
<1> QED BY <1>2, <1>3, <1>4 DEF TypeOK, Publish

LEMMA TypeProve == ASSUME TypeOK, NEW d \in Devices, Prove(d) PROVE TypeOK'
<1>1. PICK page \in 0..now, skew \in Skews :
         job' = [job EXCEPT ![d].pc = "proved", ![d].base = repo.manifest, ![d].commit = repo.commit,
                            ![d].reading = Clocks(page, skew)]
  BY DEF Prove
<1>2. Clocks(page, skew) \in Reading
  BY BoundAssumption DEF TypeOK, Clocks, Reading
<1>3. job[d] \in Job /\ repo.manifest \in Manifest /\ repo.commit \in Nat
  BY DEF TypeOK
<1>4. [job[d] EXCEPT !.pc = "proved", !.base = repo.manifest, !.commit = repo.commit,
                     !.reading = Clocks(page, skew)] \in Job
  BY <1>2, <1>3 DEF Job, Phases
<1>5. job' \in [Devices -> Job]
  BY <1>1, <1>4 DEF TypeOK
<1> QED BY <1>5 DEF TypeOK, Prove

LEMMA StepType ==
  ASSUME TypeOK, NEW d \in Devices, NEW pc \in Phases, Step(d, pc) PROVE job' \in [Devices -> Job]
<1>1. job[d] \in Job
  BY DEF TypeOK
<1>2. [job[d] EXCEPT !.pc = pc] \in Job
  BY <1>1 DEF Job
<1> QED BY <1>2 DEF TypeOK, Step

Ledger == [watched : SUBSET Chunks, watch : [Chunks -> Watch], ever : BOOLEAN, observed : Reading]

LEMMA SurveyedType ==
  ASSUME TypeOK, NEW d \in Devices, NEW page \in SUBSET Chunks PROVE Surveyed(d, page) \in Ledger
<1> DEFINE r == job[d].reading
           l == ledger[d]
           spared == job[d].base.refs \cup uploaded[d]
           fresh == [wall |-> r.wall, mono |-> r.mono, since |-> now]
           watched == (l.watched \cup page) \ spared
           watch(c) == IF c \notin watched THEN NoWatch
                       ELSE IF c \notin l.watched \/ ClockUncertain(l, r) THEN fresh ELSE l.watch[c]
<1>1. job[d] \in Job /\ r \in Reading
  BY DEF TypeOK, Job
<1>2. l \in Ledger
  BY DEF TypeOK, Ledger
<1>3. NoWatch \in Watch /\ fresh \in Watch
  BY <1>1 DEF NoWatch, Watch, Reading, TypeOK
<1>4. watched \in SUBSET Chunks
  BY <1>2 DEF Ledger
<1>5. \A c \in Chunks : watch(c) \in Watch
  BY <1>2, <1>3 DEF Ledger
<1>6. Surveyed(d, page) = [watched |-> watched, watch |-> [c \in Chunks |-> watch(c)],
                           ever |-> TRUE, observed |-> r]
  BY DEF Surveyed
<1> HIDE DEF watched, watch, r
<1> QED BY <1>1, <1>4, <1>5, <1>6 DEF Ledger

LEMMA TypeSurvey == ASSUME TypeOK, NEW d \in Devices, Survey(d) PROVE TypeOK'
<1>1. CASE End(d) /\ UNCHANGED ledger
  BY <1>1, EndType DEF TypeOK, Survey
<1>2. ASSUME NEW page \in SUBSET repo.chunks, ledger' = [ledger EXCEPT ![d] = Surveyed(d, page)],
             Step(d, "surveyed")
      PROVE  TypeOK'
  <2>1. page \in SUBSET Chunks /\ "surveyed" \in Phases
    BY DEF TypeOK, Phases
  <2>2. job' \in [Devices -> Job]
    BY <1>2, <2>1, StepType
  <2>3. ledger' \in [Devices -> Ledger]
    BY <1>2, <2>1, SurveyedType DEF TypeOK, Ledger
  <2> QED BY <2>2, <2>3 DEF TypeOK, Survey, Ledger
<1> QED BY <1>1, <1>2 DEF Survey

LEMMA TypeCheck == ASSUME TypeOK, NEW d \in Devices, Check(d) PROVE TypeOK'
<1>1. CASE End(d)
  BY <1>1, EndType DEF TypeOK, Check
<1>2. CASE job' = [job EXCEPT ![d].pc = "checked", ![d].todo = Due(d) \cap repo.chunks]
  <2>1. job[d] \in Job /\ Due(d) \cap repo.chunks \subseteq Chunks
    BY DEF TypeOK
  <2>2. [job[d] EXCEPT !.pc = "checked", !.todo = Due(d) \cap repo.chunks] \in Job
    BY <2>1 DEF Job, Phases
  <2>3. job' \in [Devices -> Job]
    BY <1>2, <2>2 DEF TypeOK
  <2> QED BY <2>3 DEF TypeOK, Check
<1> QED BY <1>1, <1>2 DEF Check

LEMMA TypeCollect == ASSUME TypeOK, NEW d \in Devices, Collect(d) PROVE TypeOK'
<1>1. CASE End(d) /\ UNCHANGED <<repo, faults>>
  BY <1>1, EndType DEF TypeOK, Collect
<1>2. CASE repo' = [commit |-> repo.commit + 1, manifest |-> Revised(job[d].base),
                    chunks |-> repo.chunks \ job[d].todo]
  <2>1. job[d] \in Job /\ repo.commit \in Nat /\ repo.chunks \subseteq Chunks /\ faults \in 0..MaxFaults
    BY DEF TypeOK
  <2>2. Revised(job[d].base) \in Manifest
    BY <2>1 DEF Revised, Job, Manifest
  <2>3. repo' \in [commit : Nat, manifest : Manifest, chunks : SUBSET Chunks]
    BY <1>2, <2>1, <2>2
  <2>4. CASE job' = [job EXCEPT ![d].pc = "collected", ![d].commit = repo.commit + 1] /\ UNCHANGED faults
    <3>1. [job[d] EXCEPT !.pc = "collected", !.commit = repo.commit + 1] \in Job
      <4>1. "collected" \in Phases /\ repo.commit + 1 \in Nat
        BY <2>1 DEF Phases
      <4> QED BY <2>1, <4>1 DEF Job
    <3>2. job' \in [Devices -> Job]
      BY <2>4, <3>1 DEF TypeOK
    <3> QED BY <2>3, <2>4, <3>2 DEF TypeOK, Collect
  <2>5. CASE End(d) /\ faults < MaxFaults /\ faults' = faults + 1
    <3>1. faults' \in 0..MaxFaults
      BY <2>1, <2>5, BoundAssumption
    <3> QED BY <2>3, <2>5, <3>1, EndType DEF TypeOK, Collect
  <2> QED BY <1>2, <2>4, <2>5, EndType DEF TypeOK, Collect
<1> QED BY <1>1, <1>2 DEF Collect

LEMMA TypeFinish == ASSUME TypeOK, NEW d \in Devices, Finish(d) PROVE TypeOK'
<1>1. job' \in [Devices -> Job]
  BY EndType DEF Finish
<1>2. ledger' \in [Devices -> Ledger]
  <2>1. ledger[d] \in Ledger /\ NoWatch \in Watch
    BY DEF TypeOK, Ledger, NoWatch, Watch
  <2>2. [ledger[d] EXCEPT !.watched = @ \ job[d].todo,
                          !.watch = [c \in Chunks |-> IF c \in job[d].todo THEN NoWatch ELSE @[c]]] \in Ledger
    BY <2>1 DEF Ledger
  <2>3. CASE UNCHANGED ledger
    BY <2>3 DEF TypeOK, Ledger
  <2>4. CASE ledger' = [ledger EXCEPT ![d].watched = @ \ job[d].todo,
                           ![d].watch = [c \in Chunks |-> IF c \in job[d].todo THEN NoWatch ELSE @[c]]]
    BY <2>2, <2>4 DEF TypeOK, Ledger
  <2> QED BY <2>3, <2>4 DEF Finish
<1> QED BY <1>1, <1>2 DEF TypeOK, Finish, Ledger

LEMMA TypeFail == ASSUME TypeOK, NEW d \in Devices, Fail(d) PROVE TypeOK'
<1>1. faults' \in 0..MaxFaults
  BY BoundAssumption DEF TypeOK, Fail
<1> QED BY <1>1, EndType DEF TypeOK, Fail

LEMMA TypeStep == TypeOK /\ [Next]_vars => TypeOK'
<1> SUFFICES ASSUME TypeOK, [Next]_vars PROVE TypeOK'
  OBVIOUS
<1>1. CASE Tick
  BY <1>1, BoundAssumption DEF TypeOK, Tick
<1>2. CASE UNCHANGED vars
  BY <1>2 DEF TypeOK, vars
<1> QED BY <1>1, <1>2, TypeLoad, TypePlan, TypeUpload, TypeProbe, TypePublish, TypeProve, TypeSurvey,
          TypeCheck, TypeCollect, TypeFinish, TypeFail DEF Next

\* Every record keeps its shape, for any devices, chunks, clocks and faults.
THEOREM TypeCorrect == Spec => []TypeOK
BY TypeInit, TypeStep, PTL DEF Spec
-----------------------------------------------------------------------------
(* The inductive invariant.  What holds of a device: *)

\* Its job knows no revision and no commit that is still to come.
BaseBehind(d) == job[d].base.rev <= repo.manifest.rev /\ job[d].commit <= repo.commit

\* While the revision its plan starts from is current, what it need not upload exists.
PlanExists(d) ==
  job[d].pc \in {"uploading", "probing"} /\ job[d].base.rev = repo.manifest.rev
     => job[d].refs \ job[d].todo \subseteq repo.chunks

\* Until the next commit, its collection's proof shows the manifest.
Proved(d) == job[d].pc \in {"proved", "surveyed", "checked"}
ProofCurrent(d) == Proved(d) /\ job[d].commit = repo.commit => job[d].base = repo.manifest

\* The monotonic clock its collection has read counts the ticks since the page was opened.
ClockRead(d) == Proved(d) => /\ d \in Collectors
                             /\ job[d].reading.mono + job[d].reading.epoch = now

\* The clock a watched chunk was first seen by is that of the page of the last survey.
WatchTimed(d) == \A c \in ledger[d].watched :
                   ledger[d].watch[c].mono + ledger[d].observed.epoch = ledger[d].watch[c].since

\* Its survey has left a ledger of its own reading, with no chunk of its manifest.
SurveyHolds(d) ==
  /\ job[d].pc \in {"surveyed", "checked"} => /\ ledger[d].observed = job[d].reading
                                             /\ ledger[d].watched \cap job[d].base.refs = {}
  /\ job[d].pc = "checked" => job[d].todo \subseteq Due(d)

DeviceInv(d) == /\ BaseBehind(d) /\ PlanExists(d) /\ ProofCurrent(d)
                /\ ClockRead(d) /\ WatchTimed(d) /\ SurveyHolds(d)

IInv == TypeOK /\ NothingDangles /\ \A d \in Devices : DeviceInv(d)

\* What every write does to the repository: revisions and commits go up, a new manifest is
\* a new commit, and chunks disappear only under a new revision.
RepoMoves ==
  /\ repo'.commit >= repo.commit /\ repo'.manifest.rev >= repo.manifest.rev
  /\ repo'.commit = repo.commit => repo'.manifest = repo.manifest
  /\ repo'.manifest.rev = repo.manifest.rev => repo.chunks \subseteq repo'.chunks

LEMMA RecordTypes ==
  ASSUME TypeOK, NEW d \in Devices
  PROVE  /\ repo.commit \in Nat /\ repo.chunks \subseteq Chunks /\ repo.manifest \in Manifest
         /\ repo.manifest.rev \in Nat /\ repo.manifest.last \in Nat /\ repo.manifest.refs \subseteq Chunks
         /\ job[d] \in Job /\ job[d].base \in Manifest /\ job[d].base.rev \in Nat /\ job[d].commit \in Nat
         /\ job[d].base.refs \subseteq Chunks /\ job[d].refs \subseteq Chunks /\ job[d].todo \subseteq Chunks
         /\ job[d].probe \subseteq Chunks
         /\ job[d].reading.mono \in Nat /\ job[d].reading.epoch \in Nat /\ job[d].reading.wall \in Int
         /\ ledger[d].watched \subseteq Chunks /\ ledger[d].observed.epoch \in Nat
         /\ \A c \in Chunks : ledger[d].watch[c].mono \in Nat /\ ledger[d].watch[c].since \in Nat
         /\ now \in Nat
<1>1. repo.manifest \in Manifest /\ repo.commit \in Nat /\ repo.chunks \subseteq Chunks /\ now \in Nat
  BY BoundAssumption DEF TypeOK
<1>2. job[d] \in Job
  BY DEF TypeOK
<1>3. job[d].base \in Manifest /\ job[d].reading \in Reading
  BY <1>2 DEF Job
<1>4. ledger[d] \in Ledger
  BY DEF TypeOK, Ledger
<1>5. ledger[d].observed \in Reading /\ ledger[d].watch \in [Chunks -> Watch]
  BY <1>4 DEF Ledger
<1>6. \A c \in Chunks : ledger[d].watch[c] \in Watch
  BY <1>5
<1> QED BY <1>1, <1>2, <1>3, <1>4, <1>5, <1>6 DEF Manifest, Job, Reading, Ledger, Watch

\* A device keeps what it knows while others write.
LEMMA OthersKeep ==
  ASSUME TypeOK, TypeOK', NEW e \in Devices, DeviceInv(e), RepoMoves,
         job'[e] = job[e], ledger'[e] = ledger[e], now' = now
  PROVE  DeviceInv(e)'
<1>1. repo'.commit \in Nat /\ repo'.manifest.rev \in Nat
  BY DEF TypeOK, Manifest
<1>2. BaseBehind(e)' /\ PlanExists(e)' /\ ProofCurrent(e)'
  BY <1>1, RecordTypes DEF DeviceInv, BaseBehind, PlanExists, ProofCurrent, Proved, RepoMoves
<1>3. ClockRead(e)' /\ WatchTimed(e)'
  BY DEF DeviceInv, ClockRead, Proved, WatchTimed
<1>4. Due(e)' = Due(e)
  BY DEF Due
<1>5. SurveyHolds(e)'
  BY <1>4 DEF DeviceInv, SurveyHolds
<1> QED BY <1>2, <1>3, <1>5 DEF DeviceInv

\* A device without a job knows nothing that could be out of date.
LEMMA IdleKnowsNothing ==
  ASSUME TypeOK', NEW d \in Devices, job'[d] = NoJob, WatchTimed(d)'
  PROVE  DeviceInv(d)'
<1>1. repo'.commit \in Nat /\ repo'.manifest.rev \in Nat
  BY DEF TypeOK, Manifest
<1> QED BY <1>1 DEF DeviceInv, BaseBehind, PlanExists, ProofCurrent, ClockRead, Proved, SurveyHolds,
          NoJob, FirstManifest

LEMMA EndKeeps ==
  ASSUME TypeOK, TypeOK', NEW d \in Devices, DeviceInv(d), End(d), ledger'[d] = ledger[d]
  PROVE  DeviceInv(d)'
<1>1. job'[d] = NoJob
  BY DEF End, TypeOK
<1>2. WatchTimed(d)'
  BY DEF DeviceInv, WatchTimed
<1> QED BY <1>1, <1>2, IdleKnowsNothing

\* A step of one device, from what it does to its own knowledge and to the repository.
LEMMA OneMoves ==
  ASSUME IInv, TypeOK', NEW d \in Devices, DeviceInv(d)', NothingDangles', RepoMoves,
         \A e \in Devices \ {d} : job'[e] = job[e] /\ ledger'[e] = ledger[e], now' = now
  PROVE  IInv'
<1>1. \A e \in Devices : DeviceInv(e)'
  BY OthersKeep DEF IInv
<1> QED BY <1>1 DEF IInv

LEMMA RepoStands == ASSUME TypeOK, UNCHANGED repo PROVE RepoMoves
BY DEF RepoMoves, TypeOK, Manifest
-----------------------------------------------------------------------------
(* Each action keeps the invariant. *)

LEMMA EndStep ==
  ASSUME IInv, TypeOK', NEW d \in Devices, End(d), UNCHANGED <<repo, ledger, now>>
  PROVE  IInv'
<1>1. \A e \in Devices \ {d} : job'[e] = job[e] /\ ledger'[e] = ledger[e]
  BY DEF End, IInv, TypeOK
<1>2. DeviceInv(d)'
  BY EndKeeps DEF IInv
<1>3. RepoMoves /\ NothingDangles'
  BY RepoStands DEF IInv, NothingDangles
<1> QED BY <1>1, <1>2, <1>3, OneMoves

LEMMA LoadStep == ASSUME IInv, TypeOK', NEW d \in Devices, Load(d) PROVE IInv'
<1>1. job'[d] = [job[d] EXCEPT !.pc = "loading", !.base = repo.manifest]
  BY DEF Load, IInv, TypeOK
<1>2. /\ job'[d].pc = "loading" /\ job'[d].base = repo.manifest /\ job'[d].commit = job[d].commit
  BY <1>1, RecordTypes DEF IInv, Job
<1>3. DeviceInv(d)'
  BY <1>2, RecordTypes DEF Load, IInv, DeviceInv, BaseBehind, PlanExists, ProofCurrent, ClockRead, Proved,
     WatchTimed, SurveyHolds
<1>4. RepoMoves /\ NothingDangles'
  BY RepoStands DEF IInv, NothingDangles, Load
<1>5. \A e \in Devices \ {d} : job'[e] = job[e] /\ ledger'[e] = ledger[e]
  BY DEF Load, IInv, TypeOK
<1> QED BY <1>3, <1>4, <1>5, OneMoves DEF Load

\* What a plan keeps was in the manifest it starts from, and was there.
LEMMA PlanStep == ASSUME IInv, TypeOK', NEW d \in Devices, Plan(d) PROVE IInv'
<1>1. CASE End(d) /\ UNCHANGED uploaded
  BY <1>1, EndStep DEF Plan
<1>2. ASSUME job[d].base.refs \subseteq repo.chunks,
             NEW kept \in SUBSET job[d].base.refs, NEW new \in SUBSET Chunks, StartPlan(d, kept, new)
      PROVE  IInv'
  <2>1. job'[d] = [job[d] EXCEPT !.pc = "uploading", !.refs = kept \cup new, !.todo = new]
    BY <1>2 DEF StartPlan, IInv, TypeOK
  <2>2. /\ job'[d].pc = "uploading" /\ job'[d].base = job[d].base /\ job'[d].commit = job[d].commit
        /\ job'[d].refs = kept \cup new /\ job'[d].todo = new
    BY <2>1, RecordTypes DEF IInv, Job
  <2>3. DeviceInv(d)'
    BY <1>2, <2>2 DEF Plan, IInv, DeviceInv, BaseBehind, PlanExists, ProofCurrent, ClockRead, Proved,
       WatchTimed, SurveyHolds
  <2>4. RepoMoves /\ NothingDangles'
    BY RepoStands DEF IInv, NothingDangles, Plan
  <2>5. \A e \in Devices \ {d} : job'[e] = job[e] /\ ledger'[e] = ledger[e]
    BY <1>2 DEF Plan, StartPlan, IInv, TypeOK
  <2> QED BY <2>3, <2>4, <2>5, OneMoves DEF Plan
<1> QED BY <1>1, <1>2 DEF Plan

\* An upload that is done leaves one chunk less to do; the chunk exists.
LEMMA UploadedStep ==
  ASSUME IInv, TypeOK', NEW d \in Devices, NEW c \in Chunks, Uploaded(d, c), c \in repo'.chunks,
         job[d].pc \in {"uploading", "probing"}, repo.chunks \subseteq repo'.chunks,
         repo'.manifest = repo.manifest, repo'.commit >= repo.commit, UNCHANGED <<ledger, now>>
  PROVE  IInv'
<1>1. job'[d] = [job[d] EXCEPT !.pc = "uploading", !.todo = @ \ {c}, !.probe = {}]
  BY DEF Uploaded, IInv, TypeOK
<1>2. /\ job'[d].pc = "uploading" /\ job'[d].base = job[d].base /\ job'[d].commit = job[d].commit
      /\ job'[d].refs = job[d].refs /\ job'[d].todo = job[d].todo \ {c}
  BY <1>1, RecordTypes DEF IInv, Job
<1>3. repo'.commit \in Nat
  BY DEF TypeOK
<1>4. BaseBehind(d)'
  BY <1>2, <1>3, RecordTypes DEF IInv, DeviceInv, BaseBehind
<1>5. PlanExists(d)'
  BY <1>2 DEF IInv, DeviceInv, PlanExists
<1>6. DeviceInv(d)'
  BY <1>2, <1>4, <1>5 DEF IInv, DeviceInv, ProofCurrent, ClockRead, Proved, WatchTimed, SurveyHolds
<1>7. RepoMoves /\ NothingDangles'
  BY DEF IInv, NothingDangles, RepoMoves, TypeOK, Manifest
<1>8. \A e \in Devices \ {d} : job'[e] = job[e] /\ ledger'[e] = ledger[e]
  BY DEF Uploaded, IInv, TypeOK
<1> QED BY <1>6, <1>7, <1>8, OneMoves

LEMMA UploadStep == ASSUME IInv, TypeOK', NEW d \in Devices, Upload(d) PROVE IInv'
<1>1. PICK c \in job[d].todo :
         \/ /\ repo' = [repo EXCEPT !.chunks = @ \cup {c}, !.commit = @ + 1]
            /\ Uploaded(d, c)
         \/ /\ job' = [job EXCEPT ![d].pc = "probing", ![d].probe = {c}]
            /\ UNCHANGED <<repo, uploaded>>
  BY DEF Upload
<1>2. c \in Chunks /\ repo.commit \in Nat
  BY <1>1, RecordTypes DEF IInv
<1>3. CASE Uploaded(d, c) /\ repo' = [repo EXCEPT !.chunks = @ \cup {c}, !.commit = @ + 1]
  <2>1. repo'.chunks = repo.chunks \cup {c} /\ repo'.manifest = repo.manifest /\ repo'.commit = repo.commit + 1
    BY <1>3 DEF IInv, TypeOK
  <2>2. repo'.commit >= repo.commit
    BY <1>2, <2>1
  <2> QED BY <1>2, <1>3, <2>1, <2>2, UploadedStep DEF Upload
<1>4. CASE UNCHANGED <<repo, uploaded>> /\ job' = [job EXCEPT ![d].pc = "probing", ![d].probe = {c}]
  <2>1. job'[d] = [job[d] EXCEPT !.pc = "probing", !.probe = {c}]
    BY <1>4 DEF IInv, TypeOK
  <2>2. /\ job'[d].pc = "probing" /\ job'[d].base = job[d].base /\ job'[d].commit = job[d].commit
        /\ job'[d].refs = job[d].refs /\ job'[d].todo = job[d].todo
    BY <2>1, RecordTypes DEF IInv, Job
  <2>3. DeviceInv(d)'
    BY <1>4, <2>2 DEF Upload, IInv, DeviceInv, BaseBehind, PlanExists, ProofCurrent, ClockRead, Proved,
       WatchTimed, SurveyHolds
  <2>4. RepoMoves /\ NothingDangles'
    BY <1>4, RepoStands DEF IInv, NothingDangles
  <2>5. \A e \in Devices \ {d} : job'[e] = job[e] /\ ledger'[e] = ledger[e]
    BY <1>4 DEF Upload, IInv, TypeOK
  <2> QED BY <2>3, <2>4, <2>5, OneMoves DEF Upload
<1> QED BY <1>1, <1>3, <1>4

LEMMA ProbeStep == ASSUME IInv, TypeOK', NEW d \in Devices, Probe(d) PROVE IInv'
<1>1. CASE End(d) /\ UNCHANGED uploaded
  BY <1>1, EndStep DEF Probe
<1>2. ASSUME job[d].probe \subseteq repo.chunks, NEW c \in job[d].probe, Uploaded(d, c) PROVE IInv'
  <2>1. c \in Chunks /\ repo.commit \in Nat
    BY RecordTypes DEF IInv
  <2> QED BY <1>2, <2>1, UploadedStep DEF Probe
<1> QED BY <1>1, <1>2 DEF Probe

\* A publication refers to what its plan kept, which exists, and to what it uploaded.
LEMMA PublishStep == ASSUME IInv, TypeOK', NEW d \in Devices, Publish(d) PROVE IInv'
<1>1. End(d) /\ UNCHANGED <<ledger, now>>
  BY DEF Publish
<1>2. CASE UNCHANGED repo
  BY <1>1, <1>2, EndStep
<1>3. CASE /\ repo.manifest.rev = job[d].base.rev
           /\ repo' = [repo EXCEPT !.commit = @ + 1,
                  !.manifest = [rev |-> @.rev + 1, last |-> @.last + 1, refs |-> job[d].refs]]
  <2>1. repo'.commit = repo.commit + 1 /\ repo'.chunks = repo.chunks
    BY <1>3 DEF IInv, TypeOK
  <2>2. repo'.manifest.rev = repo.manifest.rev + 1 /\ repo'.manifest.refs = job[d].refs
    BY <1>3 DEF IInv, TypeOK
  <2>3. RepoMoves
    BY <2>1, <2>2, RecordTypes DEF RepoMoves, IInv
  <2>4. NothingDangles'
    BY <1>3, <2>1, <2>2 DEF IInv, DeviceInv, PlanExists, NothingDangles, Publish
  <2>5. \A e \in Devices \ {d} : job'[e] = job[e] /\ ledger'[e] = ledger[e]
    BY <1>1 DEF End, IInv, TypeOK
  <2>6. DeviceInv(d)'
    BY <1>1, EndKeeps DEF IInv
  <2> QED BY <1>1, <2>3, <2>4, <2>5, <2>6, OneMoves
<1> QED BY <1>2, <1>3 DEF Publish

LEMMA ProveStep == ASSUME IInv, TypeOK', NEW d \in Devices, Prove(d) PROVE IInv'
<1>1. PICK page \in 0..now, skew \in Skews :
         job' = [job EXCEPT ![d].pc = "proved", ![d].base = repo.manifest, ![d].commit = repo.commit,
                            ![d].reading = Clocks(page, skew)]
  BY DEF Prove
<1>2. job'[d] = [job[d] EXCEPT !.pc = "proved", !.base = repo.manifest, !.commit = repo.commit,
                               !.reading = Clocks(page, skew)]
  BY <1>1 DEF IInv, TypeOK
<1>3. /\ job'[d].pc = "proved" /\ job'[d].base = repo.manifest /\ job'[d].commit = repo.commit
      /\ job'[d].reading = Clocks(page, skew)
  BY <1>2, RecordTypes DEF IInv, Job
<1>4. Clocks(page, skew).mono + Clocks(page, skew).epoch = now
  BY RecordTypes DEF IInv, Clocks
<1>5. DeviceInv(d)'
  BY <1>3, <1>4, RecordTypes DEF Prove, IInv, DeviceInv, BaseBehind, PlanExists, ProofCurrent, ClockRead,
     Proved, WatchTimed, SurveyHolds
<1>6. RepoMoves /\ NothingDangles'
  BY RepoStands DEF IInv, NothingDangles, Prove
<1>7. \A e \in Devices \ {d} : job'[e] = job[e] /\ ledger'[e] = ledger[e]
  BY DEF Prove, IInv, TypeOK
<1> QED BY <1>5, <1>6, <1>7, OneMoves DEF Prove

\* A chunk keeps its first reading only in the page that took it, where the monotonic
\* clock is the same; so the survey's reading dates every chunk it leaves watched.
LEMMA SurveyTimes ==
  ASSUME IInv, NEW d \in Devices, job[d].pc = "proved", NEW page \in SUBSET Chunks,
         NEW c \in Surveyed(d, page).watched
  PROVE  Surveyed(d, page).watch[c].mono + job[d].reading.epoch = Surveyed(d, page).watch[c].since
<1> DEFINE r == job[d].reading
           l == ledger[d]
           watched == (l.watched \cup page) \ (job[d].base.refs \cup uploaded[d])
           fresh == [wall |-> r.wall, mono |-> r.mono, since |-> now]
<1>1. Surveyed(d, page).watched = watched
  BY DEF Surveyed
<1>2. c \in watched /\ c \in Chunks
  BY <1>1, RecordTypes DEF IInv
<1>3. Surveyed(d, page).watch[c] = IF c \notin l.watched \/ ClockUncertain(l, r) THEN fresh ELSE l.watch[c]
  BY <1>1, <1>2 DEF Surveyed
<1>4. r.mono + r.epoch = now
  BY DEF IInv, DeviceInv, ClockRead, Proved
<1>5. CASE c \notin l.watched \/ ClockUncertain(l, r)
  BY <1>3, <1>4, <1>5
<1>6. CASE c \in l.watched /\ ~ClockUncertain(l, r)
  <2>1. l.observed.epoch = r.epoch
    BY <1>6 DEF ClockUncertain
  <2>2. l.watch[c].mono + l.observed.epoch = l.watch[c].since
    BY <1>6 DEF IInv, DeviceInv, WatchTimed
  <2> QED BY <1>3, <1>6, <2>1, <2>2
<1> QED BY <1>5, <1>6

LEMMA SurveyStep == ASSUME IInv, TypeOK', NEW d \in Devices, Survey(d) PROVE IInv'
<1>1. CASE End(d) /\ UNCHANGED ledger
  BY <1>1, EndStep DEF Survey
<1>2. ASSUME NEW page \in SUBSET repo.chunks, ledger' = [ledger EXCEPT ![d] = Surveyed(d, page)],
             Step(d, "surveyed")
      PROVE  IInv'
  <2>1. page \in SUBSET Chunks /\ job[d].pc = "proved"
    BY RecordTypes DEF IInv, Survey
  <2>2. job'[d] = [job[d] EXCEPT !.pc = "surveyed"]
    BY <1>2 DEF Step, IInv, TypeOK
  <2>3. /\ job'[d].pc = "surveyed" /\ job'[d].base = job[d].base /\ job'[d].commit = job[d].commit
        /\ job'[d].reading = job[d].reading
    BY <2>2, RecordTypes DEF IInv, Job
  <2>4. ledger'[d] = Surveyed(d, page)
    BY <1>2 DEF IInv, TypeOK
  <2>5. Surveyed(d, page).observed = job[d].reading /\ Surveyed(d, page).watched \cap job[d].base.refs = {}
    BY DEF Surveyed
  <2>6. WatchTimed(d)'
    BY <2>1, <2>4, <2>5, SurveyTimes DEF WatchTimed
  <2>7. SurveyHolds(d)'
    BY <2>3, <2>4, <2>5 DEF SurveyHolds
  <2>8. DeviceInv(d)'
    BY <2>1, <2>3, <2>6, <2>7 DEF Survey, IInv, DeviceInv, BaseBehind, PlanExists, ProofCurrent, ClockRead, Proved
  <2>9. RepoMoves /\ NothingDangles'
    BY RepoStands DEF IInv, NothingDangles, Survey
  <2>10. \A e \in Devices \ {d} : job'[e] = job[e] /\ ledger'[e] = ledger[e]
    BY <1>2 DEF Step, IInv, TypeOK
  <2> QED BY <2>8, <2>9, <2>10, OneMoves DEF Survey
<1> QED BY <1>1, <1>2 DEF Survey

LEMMA CheckStep == ASSUME IInv, TypeOK', NEW d \in Devices, Check(d) PROVE IInv'
<1>1. CASE End(d)
  BY <1>1, EndStep DEF Check
<1>2. CASE job' = [job EXCEPT ![d].pc = "checked", ![d].todo = Due(d) \cap repo.chunks]
  <2>1. job'[d] = [job[d] EXCEPT !.pc = "checked", !.todo = Due(d) \cap repo.chunks]
    BY <1>2 DEF IInv, TypeOK
  <2>2. /\ job'[d].pc = "checked" /\ job'[d].base = job[d].base /\ job'[d].commit = job[d].commit
        /\ job'[d].reading = job[d].reading /\ job'[d].todo = Due(d) \cap repo.chunks
    BY <2>1, RecordTypes DEF IInv, Job
  <2>3. Due(d)' = Due(d)
    BY <2>2 DEF Due, Check
  <2>4. SurveyHolds(d)'
    BY <2>2, <2>3 DEF Check, IInv, DeviceInv, SurveyHolds
  <2>5. DeviceInv(d)'
    BY <2>2, <2>4 DEF Check, IInv, DeviceInv, BaseBehind, PlanExists, ProofCurrent, ClockRead, Proved, WatchTimed
  <2>6. RepoMoves /\ NothingDangles'
    BY RepoStands DEF IInv, NothingDangles, Check
  <2>7. \A e \in Devices \ {d} : job'[e] = job[e] /\ ledger'[e] = ledger[e]
    BY <1>2 DEF Check, IInv, TypeOK
  <2> QED BY <2>5, <2>6, <2>7, OneMoves DEF Check
<1> QED BY <1>1, <1>2 DEF Check

\* The commit a collection swaps is the one of its proof, so it keeps the manifest it has
\* checked the chunks against.
LEMMA CollectedManifest ==
  ASSUME IInv, NEW d \in Devices, job[d].pc = "checked", SwapsCommit(job[d].commit)
  PROVE  job[d].base = repo.manifest /\ job[d].todo \cap repo.manifest.refs = {}
<1>1. job[d].base = repo.manifest
  BY DEF IInv, DeviceInv, ProofCurrent, Proved, SwapsCommit
<1>2. job[d].todo \subseteq ledger[d].watched
  BY DEF IInv, DeviceInv, SurveyHolds, Due
<1>3. ledger[d].watched \cap job[d].base.refs = {}
  BY DEF IInv, DeviceInv, SurveyHolds
<1> QED BY <1>1, <1>2, <1>3

LEMMA CollectStep == ASSUME IInv, TypeOK', NEW d \in Devices, Collect(d) PROVE IInv'
<1>1. CASE End(d) /\ UNCHANGED repo
  BY <1>1, EndStep DEF Collect
<1>2. CASE /\ SwapsCommit(job[d].commit)
           /\ repo' = [commit |-> repo.commit + 1, manifest |-> Revised(job[d].base),
                       chunks |-> repo.chunks \ job[d].todo]
           /\ \/ job' = [job EXCEPT ![d].pc = "collected", ![d].commit = repo.commit + 1]
              \/ End(d)
  <2>1. job[d].base = repo.manifest /\ job[d].todo \cap repo.manifest.refs = {}
    BY <1>2, CollectedManifest DEF Collect
  <2>2. repo'.commit = repo.commit + 1 /\ repo'.chunks = repo.chunks \ job[d].todo
    BY <1>2
  <2>3. repo'.manifest.rev = repo.manifest.rev + 1 /\ repo'.manifest.refs = repo.manifest.refs
    BY <1>2, <2>1, RecordTypes DEF Revised, IInv, Manifest
  <2>4. RepoMoves
    BY <2>2, <2>3, RecordTypes DEF RepoMoves, IInv
  <2>5. NothingDangles'
    BY <2>1, <2>2, <2>3 DEF IInv, NothingDangles
  <2>6. \A e \in Devices \ {d} : job'[e] = job[e] /\ ledger'[e] = ledger[e]
    BY <1>2 DEF Collect, End, IInv, TypeOK
  <2>7. CASE job' = [job EXCEPT ![d].pc = "collected", ![d].commit = repo.commit + 1]
    <3>1. job'[d] = [job[d] EXCEPT !.pc = "collected", !.commit = repo.commit + 1]
      BY <2>7 DEF IInv, TypeOK
    <3>2. job'[d].pc = "collected" /\ job'[d].base = job[d].base /\ job'[d].commit = repo.commit + 1
      BY <3>1, RecordTypes DEF IInv, Job
    <3>3. DeviceInv(d)'
      BY <2>1, <2>2, <2>3, <3>2, RecordTypes DEF Collect, IInv, DeviceInv, BaseBehind, PlanExists, ProofCurrent,
         ClockRead, Proved, WatchTimed, SurveyHolds
    <3> QED BY <2>4, <2>5, <2>6, <3>3, OneMoves DEF Collect
  <2>8. CASE End(d)
    BY <2>4, <2>5, <2>6, <2>8, EndKeeps, OneMoves DEF IInv, Collect
  <2> QED BY <1>2, <2>7, <2>8
<1> QED BY <1>1, <1>2 DEF Collect

LEMMA FinishStep == ASSUME IInv, TypeOK', NEW d \in Devices, Finish(d) PROVE IInv'
<1>1. CASE UNCHANGED ledger
  BY <1>1, EndStep DEF Finish
<1>2. CASE ledger' = [ledger EXCEPT ![d].watched = @ \ job[d].todo,
                        ![d].watch = [c \in Chunks |-> IF c \in job[d].todo THEN NoWatch ELSE @[c]]]
  <2>1. ledger[d] \in Ledger
    BY DEF IInv, TypeOK, Ledger
  <2>2. /\ ledger'[d].watched = ledger[d].watched \ job[d].todo
        /\ ledger'[d].observed = ledger[d].observed
        /\ \A c \in Chunks \ job[d].todo : ledger'[d].watch[c] = ledger[d].watch[c]
    BY <1>2, <2>1 DEF IInv, TypeOK, Ledger
  <2>3. WatchTimed(d)'
    BY <2>2, RecordTypes DEF IInv, DeviceInv, WatchTimed
  <2>4. job'[d] = NoJob
    BY DEF Finish, End, IInv, TypeOK
  <2>5. DeviceInv(d)'
    BY <2>3, <2>4, IdleKnowsNothing
  <2>6. RepoMoves /\ NothingDangles'
    BY RepoStands DEF IInv, NothingDangles, Finish
  <2>7. \A e \in Devices \ {d} : job'[e] = job[e] /\ ledger'[e] = ledger[e]
    BY <1>2 DEF Finish, End, IInv, TypeOK
  <2> QED BY <2>5, <2>6, <2>7, OneMoves DEF Finish
<1> QED BY <1>1, <1>2 DEF Finish

\* No tick falls into a collection.
LEMMA TickStep == ASSUME IInv, TypeOK', Tick PROVE IInv'
<1>1. ASSUME NEW d \in Devices PROVE DeviceInv(d)'
  <2>1. ~Proved(d)
    BY DEF Tick, Collecting, Proved
  <2>2. UNCHANGED <<repo, job, ledger>>
    BY DEF Tick
  <2> QED BY <2>1, <2>2 DEF IInv, DeviceInv, BaseBehind, PlanExists, ProofCurrent, ClockRead, Proved,
          WatchTimed, SurveyHolds
<1> QED BY <1>1 DEF IInv, NothingDangles, Tick
-----------------------------------------------------------------------------
LEMMA IInvInit == Init => IInv
<1> SUFFICES ASSUME Init PROVE IInv
  OBVIOUS
<1>1. TypeOK
  BY TypeInit
<1>2. \A d \in Devices : job[d] = NoJob /\ ledger[d].watched = {}
  BY DEF Init
<1>3. \A d \in Devices : DeviceInv(d)
  BY <1>2 DEF Init, DeviceInv, BaseBehind, PlanExists, ProofCurrent, ClockRead, Proved, WatchTimed, SurveyHolds,
     NoJob, FirstManifest
<1>4. NothingDangles
  BY DEF Init, NothingDangles, FirstManifest
<1> QED BY <1>1, <1>3, <1>4 DEF IInv

LEMMA IInvStep == IInv /\ [Next]_vars => IInv'
<1> SUFFICES ASSUME IInv, [Next]_vars PROVE IInv'
  OBVIOUS
<1>1. TypeOK'
  BY TypeStep DEF IInv
<1>2. CASE Tick
  BY <1>1, <1>2, TickStep
<1>3. CASE UNCHANGED vars
  BY <1>3 DEF vars, IInv, NothingDangles, TypeOK, DeviceInv, BaseBehind, PlanExists, ProofCurrent, ClockRead,
     Proved, WatchTimed, SurveyHolds, Due
<1>4. ASSUME NEW d \in Devices, Fail(d) PROVE IInv'
  BY <1>1, <1>4, EndStep DEF Fail
<1> QED BY <1>1, <1>2, <1>3, <1>4, LoadStep, PlanStep, UploadStep, ProbeStep, PublishStep, ProveStep, SurveyStep,
          CheckStep, CollectStep, FinishStep DEF Next

LEMMA IInvAlways == Spec => []IInv
BY IInvInit, IInvStep, PTL DEF Spec

\* Whatever devices write and collect, and in whatever order, the manifest refers to no
\* chunk that is gone.
THEOREM ManifestComplete == Spec => []NothingDangles
<1>1. IInv => NothingDangles
  BY DEF IInv
<1> QED BY <1>1, IInvAlways, PTL
-----------------------------------------------------------------------------
(* Action properties. *)

LEMMA LastKept == IInv /\ [Next]_vars => repo'.manifest.last >= repo.manifest.last
<1> SUFFICES ASSUME IInv, [Next]_vars PROVE repo'.manifest.last >= repo.manifest.last
  OBVIOUS
<1>1. CASE UNCHANGED repo.manifest
  <2>1. repo.manifest.last \in Nat
    BY DEF IInv, TypeOK, Manifest
  <2> QED BY <1>1, <2>1
<1>2. ASSUME NEW d \in Devices, Publish(d) PROVE repo'.manifest.last >= repo.manifest.last
  <2>1. CASE UNCHANGED repo
    BY <1>1, <2>1
  <2>2. CASE repo' = [repo EXCEPT !.commit = @ + 1,
               !.manifest = [rev |-> @.rev + 1, last |-> @.last + 1, refs |-> job[d].refs]]
    <3>1. repo'.manifest.last = repo.manifest.last + 1
      BY <2>2 DEF IInv, TypeOK
    <3> QED BY <1>2, <3>1, RecordTypes DEF IInv
  <2> QED BY <1>2, <2>1, <2>2 DEF Publish
<1>3. ASSUME NEW d \in Devices, Collect(d) PROVE repo'.manifest.last >= repo.manifest.last
  <2>1. CASE SwapsCommit(job[d].commit)
    <3>1. job[d].base = repo.manifest
      BY <1>3, <2>1, CollectedManifest DEF Collect
    <3>2. repo'.manifest = Revised(repo.manifest)
      BY <1>3, <2>1, <3>1 DEF Collect
    <3>3. repo'.manifest.last = repo.manifest.last
      BY <3>2, RecordTypes, <1>3 DEF Revised, IInv, Manifest
    <3> QED BY <1>3, <3>3, RecordTypes DEF IInv
  <2>2. CASE ~SwapsCommit(job[d].commit)
    BY <1>1, <1>3, <2>2 DEF Collect
  <2> QED BY <2>1, <2>2
<1>4. ASSUME NEW d \in Devices, Upload(d) PROVE UNCHANGED repo.manifest
  BY <1>4 DEF Upload, IInv, TypeOK
<1>5. CASE UNCHANGED vars
  BY <1>1, <1>5 DEF vars
<1> QED BY <1>1, <1>2, <1>3, <1>4, <1>5 DEF Next, Load, Plan, Probe, Prove, Survey, Check, Finish, Fail, Tick

\* No publication is undone: neither by another, nor by a collection that rewrites the
\* manifest.
THEOREM PublicationsNeverUndone == Spec => PublicationsStay
<1>1. IInv /\ [Next]_vars => [repo'.manifest.last >= repo.manifest.last]_vars
  BY LastKept
<1> QED BY <1>1, IInvAlways, PTL DEF Spec, PublicationsStay

\* What a collection deletes has been garbage in the eyes of its device for the grace
\* period of true time, since both readings were taken in one page.
LEMMA DueWatched ==
  ASSUME IInv, NEW d \in Devices, job[d].pc = "checked", NEW c \in job[d].todo
  PROVE  d \in Collectors /\ now - ledger[d].watch[c].since >= Grace
<1>1. c \in ledger[d].watched /\ job[d].reading.mono - ledger[d].watch[c].mono >= Grace
  BY DEF IInv, DeviceInv, SurveyHolds, Due
<1>2. ledger[d].observed = job[d].reading
  BY DEF IInv, DeviceInv, SurveyHolds
<1>3. d \in Collectors /\ job[d].reading.mono + job[d].reading.epoch = now
  BY DEF IInv, DeviceInv, ClockRead, Proved
<1>4. ledger[d].watch[c].mono + ledger[d].observed.epoch = ledger[d].watch[c].since
  BY <1>1 DEF IInv, DeviceInv, WatchTimed
<1>5. c \in Chunks
  BY RecordTypes DEF IInv
<1> QED BY <1>1, <1>2, <1>3, <1>4, <1>5, RecordTypes, BoundAssumption DEF IInv

LEMMA DeletionsWatched ==
  IInv /\ [Next]_vars => \A c \in repo.chunks \ repo'.chunks :
                           \E d \in Collectors :
                             /\ job[d].pc = "checked" /\ job'[d] # job[d] /\ c \in job[d].todo
                             /\ now - ledger[d].watch[c].since >= Grace
<1> SUFFICES ASSUME IInv, [Next]_vars, NEW c \in repo.chunks \ repo'.chunks
             PROVE  \E d \in Collectors : /\ job[d].pc = "checked" /\ job'[d] # job[d] /\ c \in job[d].todo
                                          /\ now - ledger[d].watch[c].since >= Grace
  OBVIOUS
<1>1. ~UNCHANGED repo
  OBVIOUS
<1>2. ASSUME NEW d \in Devices PROVE ~Publish(d) /\ ~Upload(d)
  <2>1. ASSUME Publish(d) PROVE FALSE
    <3>1. repo' = [repo EXCEPT !.commit = @ + 1,
             !.manifest = [rev |-> @.rev + 1, last |-> @.last + 1, refs |-> job[d].refs]]
      BY <1>1, <2>1 DEF Publish
    <3> QED BY <3>1 DEF IInv, TypeOK
  <2>2. ASSUME Upload(d) PROVE FALSE
    <3>1. PICK u \in job[d].todo : repo' = [repo EXCEPT !.chunks = @ \cup {u}, !.commit = @ + 1]
      BY <1>1, <2>2 DEF Upload
    <3> QED BY <3>1 DEF IInv, TypeOK
  <2> QED BY <2>1, <2>2
<1>3. PICK d \in Devices : Collect(d)
  BY <1>1, <1>2 DEF Next, vars, Load, Plan, Probe, Prove, Survey, Check, Finish, Fail, Tick
<1>4. job[d].pc = "checked" /\ c \in job[d].todo
  BY <1>1, <1>3 DEF Collect
<1>5. job'[d].pc \in {"collected", "idle"}
  <2>1. CASE End(d)
    BY <2>1 DEF End, IInv, TypeOK, NoJob
  <2>2. CASE job' = [job EXCEPT ![d].pc = "collected", ![d].commit = repo.commit + 1]
    <3>1. job'[d] = [job[d] EXCEPT !.pc = "collected", !.commit = repo.commit + 1]
      BY <2>2 DEF IInv, TypeOK
    <3> QED BY <3>1, RecordTypes DEF IInv, Job
  <2> QED BY <1>3, <2>1, <2>2 DEF Collect
<1> QED BY <1>4, <1>5, DueWatched

\* A chunk is deleted only by a collector that has watched it as garbage for the grace
\* period of true time, however its wall clock was set and its pages were opened.
THEOREM GraceKept == Spec => GraceRespected
<1> DEFINE Watched == \A c \in repo.chunks \ repo'.chunks :
                        \E d \in Collectors :
                          /\ job[d].pc = "checked" /\ job'[d] # job[d] /\ c \in job[d].todo
                          /\ now - ledger[d].watch[c].since >= Grace
<1>1. IInv /\ [Next]_vars => [Watched]_vars
  BY DeletionsWatched
<1> QED BY <1>1, IInvAlways, PTL DEF Spec, GraceRespected
=============================================================================
