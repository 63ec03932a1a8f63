---------------------------- MODULE ReadStateGC ----------------------------
(***************************************************************************)
(* Chunk records on the viewer's PDS: devices upload the chunks of a plan  *)
(* one by one and then swap the manifest that refers to them, while other  *)
(* devices collect chunks no manifest refers to (packages/read-state,      *)
(* v2Repository.ts and v2GarbageCollection.ts).  A chunk is named by the   *)
(* hash of its content, so a plan may need one that is garbage already.    *)
(*                                                                         *)
(* Simplifications:                                                        *)
(*  - a chunk is a name; the marks in it are left out, and 'last' counts   *)
(*    the publications a manifest includes;                                *)
(*  - a tick is some hours; a browser has one wall clock, which may be     *)
(*    set, and in each of its pages a monotonic one, whose start is the    *)
(*    epoch; a collection takes at most 30 seconds, so no tick falls into  *)
(*    one;                                                                 *)
(*  - pages, 2000 candidates and 100 deletions are not counted: a page is  *)
(*    any set of chunks, and every candidate that is due is deleted;       *)
(*  - the lock of a device's tabs is 'job[d].pc # "idle"'.                 *)
(***************************************************************************)
EXTENDS Integers, FiniteSets

CONSTANTS
  Devices,
  Collectors,   \* the devices with garbage collection enabled
  Chunks,
  FirstRefs,    \* the chunks of the manifest at the start
  Grace,        \* ticks a chunk is watched before it is deleted (24 hours)
  MaxTime,      \* bound: ticks
  MaxRev,       \* bound: manifests
  Skews,        \* bound: errors the wall clock may be set to have
  MaxFaults     \* bound: lost answers, failed requests, closed pages

ASSUME DeviceAssumption == Collectors \subseteq Devices /\ FirstRefs \subseteq Chunks
ASSUME BoundAssumption ==
  /\ Grace \in Nat \ {0} /\ MaxTime \in Nat /\ MaxRev \in Nat /\ MaxFaults \in Nat
  /\ Skews \subseteq Int

VARIABLES
  repo,      \* commit, manifest and chunks of the PDS repository
  job,       \* per device: the running flush or collection
  uploaded,  \* per device: the uploads its outbox remembers (publication.uploaded)
  ledger,    \* per device: the garbage it watches
  now,
  faults

vars == <<repo, job, uploaded, ledger, now, faults>>

Phases   == {"idle", "loading", "uploading", "probing", "proved", "surveyed", "checked", "collected"}
Manifest == [rev : Nat, last : Nat, refs : SUBSET Chunks]
Reading  == [wall : Int, mono : Nat, epoch : Nat]
Job      == [pc : Phases, base : Manifest, refs : SUBSET Chunks, todo : SUBSET Chunks,
             probe : SUBSET Chunks, commit : Nat, reading : Reading]
Watch    == [wall : Int, mono : Nat, since : Nat]

TypeOK ==
  /\ repo \in [commit : Nat, manifest : Manifest, chunks : SUBSET Chunks]
  /\ job \in [Devices -> Job]
  /\ uploaded \in [Devices -> SUBSET Chunks]
  /\ ledger \in [Devices -> [watched : SUBSET Chunks, watch : [Chunks -> Watch],
                             ever : BOOLEAN, observed : Reading]]
  /\ now \in 0..MaxTime /\ faults \in 0..MaxFaults
-----------------------------------------------------------------------------
FirstManifest == [rev |-> 0, last |-> 0, refs |-> FirstRefs]
NoReading == [wall |-> 0, mono |-> 0, epoch |-> 0]
NoWatch   == [wall |-> 0, mono |-> 0, since |-> 0]
NoJob == [pc |-> "idle", base |-> FirstManifest, refs |-> {}, todo |-> {}, probe |-> {},
          commit |-> 0, reading |-> NoReading]

Init ==
  /\ repo = [commit |-> 0, manifest |-> FirstManifest, chunks |-> FirstRefs]
  /\ job = [d \in Devices |-> NoJob]
  /\ uploaded = [d \in Devices |-> {}]
  /\ ledger = [d \in Devices |-> [watched |-> {}, ever |-> FALSE, observed |-> NoReading,
                 watch |-> [c \in Chunks |-> NoWatch]]]
  /\ now = 0 /\ faults = 0

Idle(d) == job[d].pc = "idle"
End(d)  == job' = [job EXCEPT ![d] = NoJob]
Step(d, pc) == job' = [job EXCEPT ![d].pc = pc]
-----------------------------------------------------------------------------
(* Publication.  The manifest and then its chunks are read; a chunk that is  *)
(* gone fails the flush.  The plan keeps some of the chunks and uploads      *)
(* others, whatever the PDS may hold of them.                                *)
Load(d) ==
  /\ Idle(d) /\ repo.manifest.rev < MaxRev
  /\ job' = [job EXCEPT ![d].pc = "loading", ![d].base = repo.manifest]
  /\ UNCHANGED <<repo, uploaded, ledger, now, faults>>

StartPlan(d, kept, new) ==
  /\ job' = [job EXCEPT ![d].pc = "uploading", ![d].refs = kept \cup new, ![d].todo = new]
  /\ uploaded' = [uploaded EXCEPT ![d] = {}]

Plan(d) ==
  /\ job[d].pc = "loading"
  /\ \/ /\ job[d].base.refs \subseteq repo.chunks
        /\ \E kept \in SUBSET job[d].base.refs, new \in SUBSET Chunks \ {{}} : StartPlan(d, kept, new)
     \/ /\ ~(job[d].base.refs \subseteq repo.chunks)
        /\ End(d) /\ UNCHANGED uploaded
  /\ UNCHANGED <<repo, ledger, now, faults>>

Uploaded(d, c) ==
  /\ uploaded' = [uploaded EXCEPT ![d] = @ \cup {c}]
  /\ job' = [job EXCEPT ![d].pc = "uploading", ![d].todo = @ \ {c}, ![d].probe = {}]

\* A record is created; a conflict means that one of its name may exist.
Upload(d) ==
  /\ job[d].pc = "uploading"
  /\ \E c \in job[d].todo :
       \/ /\ c \notin repo.chunks
          /\ repo' = [repo EXCEPT !.chunks = @ \cup {c}, !.commit = @ + 1]
          /\ Uploaded(d, c)
       \/ /\ c \in repo.chunks
          /\ job' = [job EXCEPT ![d].pc = "probing", ![d].probe = {c}]
          /\ UNCHANGED <<repo, uploaded>>
  /\ UNCHANGED <<ledger, now, faults>>

Probe(d) ==
  /\ job[d].pc = "probing"
  /\ \/ /\ job[d].probe \subseteq repo.chunks
        /\ \E c \in job[d].probe : Uploaded(d, c)
     \/ /\ ~(job[d].probe \subseteq repo.chunks)
        /\ End(d) /\ UNCHANGED uploaded
  /\ UNCHANGED <<repo, ledger, now, faults>>

\* The manifest is swapped.  A conflict loads it again; the outbox forgets its uploads
\* when the publication is acknowledged, which a lost answer delays.
Publish(d) ==
  /\ job[d].pc = "uploading" /\ job[d].todo = {}
  /\ IF repo.manifest.rev = job[d].base.rev
     THEN /\ repo' = [repo EXCEPT !.commit = @ + 1,
                        !.manifest = [rev |-> @.rev + 1, last |-> @.last + 1, refs |-> job[d].refs]]
          /\ End(d)
          /\ \/ uploaded' = [uploaded EXCEPT ![d] = {}] /\ UNCHANGED faults
             \/ faults < MaxFaults /\ faults' = faults + 1 /\ UNCHANGED uploaded
     ELSE End(d) /\ UNCHANGED <<repo, uploaded, faults>>
  /\ UNCHANGED <<ledger, now>>
-----------------------------------------------------------------------------
(* Collection.  It runs in a page of the browser, opened at any time before, *)
(* starts from a proof of the manifest in a commit, and reads the clocks.    *)
ClocksBackwards(page, skew) == [wall |-> now + skew, mono |-> page - now, epoch |-> page]
Clocks(page, skew) == [wall |-> now + skew, mono |-> now - page, epoch |-> page]

Prove(d) ==
  /\ d \in Collectors /\ Idle(d) /\ repo.manifest.rev < MaxRev
  /\ \E page \in 0..now, skew \in Skews :
       job' = [job EXCEPT ![d].pc = "proved", ![d].base = repo.manifest, ![d].commit = repo.commit,
                          ![d].reading = Clocks(page, skew)]
  /\ UNCHANGED <<repo, uploaded, ledger, now, faults>>

\* Another page, or clocks that went back or apart since the last run.
ClockUncertainInPage(l, r) ==
  \/ ~l.ever
  \/ r.wall < l.observed.wall \/ r.mono < l.observed.mono
  \/ r.wall - l.observed.wall # r.mono - l.observed.mono
ClockUncertain(l, r) ==
  \/ ~l.ever
  \/ l.observed.epoch # r.epoch
  \/ r.wall < l.observed.wall \/ r.mono < l.observed.mono
  \/ r.wall - l.observed.wall # r.mono - l.observed.mono

\* What the device watches after a page of chunks: nothing reachable, the rest since it
\* was first seen, or since now if the clocks are uncertain.
Surveyed(d, page) ==
  LET r == job[d].reading
      l == ledger[d]
      spared == job[d].base.refs \cup uploaded[d]
      fresh == [wall |-> r.wall, mono |-> r.mono, since |-> now]
      watched == (l.watched \cup page) \ spared IN
  [watched  |-> watched,
   watch    |-> [c \in Chunks |-> IF c \notin watched THEN NoWatch
                                  ELSE IF c \notin l.watched \/ ClockUncertain(l, r) THEN fresh ELSE l.watch[c]],
   ever     |-> TRUE,
   observed |-> r]

Survey(d) ==
  /\ job[d].pc = "proved"
  /\ IF job[d].base.refs \subseteq repo.chunks /\ repo.manifest.rev = job[d].base.rev
     THEN /\ \E page \in SUBSET repo.chunks : ledger' = [ledger EXCEPT ![d] = Surveyed(d, page)]
          /\ Step(d, "surveyed")
     ELSE End(d) /\ UNCHANGED ledger
  /\ UNCHANGED <<repo, uploaded, now, faults>>

Due(d) == {c \in ledger[d].watched :
             /\ ledger[d].watch[c].wall <= job[d].reading.wall
             /\ job[d].reading.wall - ledger[d].watch[c].wall >= Grace
             /\ job[d].reading.mono - ledger[d].watch[c].mono >= Grace}

\* Every due candidate is proved to exist in the commit of the manifest's proof.
Check(d) ==
  /\ job[d].pc = "surveyed"
  /\ \/ /\ Due(d) \cap repo.chunks # {} /\ repo.commit = job[d].commit
        /\ job' = [job EXCEPT ![d].pc = "checked", ![d].todo = Due(d) \cap repo.chunks]
     \/ /\ Due(d) \cap repo.chunks = {} \/ repo.commit # job[d].commit
        /\ End(d)
  /\ UNCHANGED <<repo, uploaded, ledger, now, faults>>

SwapsCommitAny(commit) == TRUE
SwapsCommit(commit) == repo.commit = commit

Rewritten(m) == m
Revised(m) == [m EXCEPT !.rev = @ + 1]

\* One transaction rewrites the manifest under a new revision and deletes the chunks.
Collect(d) ==
  /\ job[d].pc = "checked"
  /\ IF SwapsCommit(job[d].commit)
     THEN /\ repo' = [commit |-> repo.commit + 1, manifest |-> Revised(job[d].base),
                      chunks |-> repo.chunks \ job[d].todo]
          /\ \/ /\ job' = [job EXCEPT ![d].pc = "collected", ![d].commit = repo.commit + 1]
                /\ UNCHANGED faults
             \/ faults < MaxFaults /\ faults' = faults + 1 /\ End(d)
     ELSE End(d) /\ UNCHANGED <<repo, faults>>
  /\ UNCHANGED <<uploaded, ledger, now>>

\* The ledger forgets what was deleted, if nobody wrote in between.
Finish(d) ==
  /\ job[d].pc = "collected"
  /\ ledger' = IF repo.commit = job[d].commit
               THEN [ledger EXCEPT ![d].watched = @ \ job[d].todo,
                       ![d].watch = [c \in Chunks |-> IF c \in job[d].todo THEN NoWatch ELSE @[c]]]
               ELSE ledger
  /\ End(d)
  /\ UNCHANGED <<repo, uploaded, now, faults>>
-----------------------------------------------------------------------------
Collecting(d) == job[d].pc \in {"proved", "surveyed", "checked", "collected"}

Tick ==
  /\ now < MaxTime /\ \A d \in Devices : ~Collecting(d)
  /\ now' = now + 1
  /\ UNCHANGED <<repo, job, uploaded, ledger, faults>>

\* A request fails, or the page is closed.
Fail(d) ==
  /\ faults < MaxFaults /\ faults' = faults + 1
  /\ ~Idle(d) /\ End(d)
  /\ UNCHANGED <<repo, uploaded, ledger, now>>

Next == \/ \E d \in Devices :
             \/ Load(d) \/ Plan(d) \/ Upload(d) \/ Probe(d) \/ Publish(d)
             \/ Prove(d) \/ Survey(d) \/ Check(d) \/ Collect(d) \/ Finish(d)
             \/ Fail(d)
        \/ Tick

Spec == Init /\ [][Next]_vars
-----------------------------------------------------------------------------
(* Safety.                                                                   *)

\* Every chunk the manifest refers to exists, whatever was deleted while a writer relied
\* on garbage it found on the PDS.
NothingDangles == repo.manifest.refs \subseteq repo.chunks

\* A collection never puts an older manifest over a newer publication.
PublicationsStay == [][repo'.manifest.last >= repo.manifest.last]_vars

\* A chunk is deleted only by a collector that has watched it as garbage for the whole
\* grace period, however its clocks were set or started again.
GraceRespected == [][\A c \in repo.chunks \ repo'.chunks :
                       \E d \in Collectors :
                         /\ job[d].pc = "checked" /\ job'[d] # job[d] /\ c \in job[d].todo
                         /\ now - ledger[d].watch[c].since >= Grace]_vars
=============================================================================
