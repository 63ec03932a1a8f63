--------------------- MODULE SocialComposerDraftProofs ---------------------
(***************************************************************************)
(* What SocialComposerDraft promises, for every set of drafts and texts    *)
(* and every bound: the type invariant, that nothing is called saved which *)
(* upstream never held, that the draft is created once, that a finished    *)
(* cleanup leaves nothing behind, and, where New Post is not opened again  *)
(* once its draft was opened from the list, that the post is sent under    *)
(* one key and that the text typed last stays in a local copy.             *)
(*                                                                         *)
(* The inductive invariant IInv has five layers, each resting on the ones  *)
(* before: CopiesOK speaks of each copy of the composition alone, wherever *)
(* it is held; OnceOK of the one create and of who knows about it;         *)
(* PostedOK of the journal the post was sent under; CleanedOK of the       *)
(* background cleanup; KeptOK of the text typed last.  For each layer,     *)
(* every group of actions first gets a summary (SaverKeeps, OpKeeps,       *)
(* DrainStep and so on), proved once with CopiesOK' and used by the rest.  *)
(***************************************************************************)
EXTENDS SocialComposerDraft, SequenceTheorems, FiniteSetTheorems, TLAPS

(* Layer 1: every copy alone.                                              *)

CloudOK(c) ==
  /\ c.id = None => c.ack = None /\ c.pending = None
  /\ c.id # None /\ ~c.done => c.ack # None

\* What a copy says of upstream and of the post.
StoredOK(c) ==
  /\ c.id # None => Created(c.id)
  /\ c.ack # None => c.ack \in stash[c.id].ever
  /\ c.deleted => c.id # None /\ ~Exists(c.id)
  /\ c.done => sent # {}

BlankOK(c) == c.segs = None /\ ~c.cloud.done => c.cloud.id = None /\ c.cloud.intent = None

CopyOK(c) == c \in Copy /\ CloudOK(c.cloud) /\ StoredOK(c.cloud) /\ BlankOK(c)

Fits(k, c) == (k \in Ids => c.cloud.id = k) /\ (k = "cleanup" => c.cloud.done)

\* What the saver's place says of the editor, and what the publication's does.
SaverOK(r) ==
  /\ r.saver # "idle" => ~r.stopped /\ r.op \in {"idle", "begin"}
  /\ r.saver \notin {"idle", "begin"} => ~Tried(r)
  /\ r.saver \in {"confirm", "recheck", "preserved", "pending"} => r.cloud.pending # None
  /\ r.saver \in {"check", "intent", "creating"} => r.payload # None /\ r.segs # None
  /\ r.saver \in {"intent", "creating"} => r.cloud.id = None /\ r.cloud.intent = r.payload
  /\ r.saver = "created" => r.cloud.id # None
  /\ r.saver \in {"loop", "check"} /\ r.cloud.id = None => r.cloud.intent = None

OpOK(r) ==
  /\ r.op \in {"checkpoint", "send"} => r.journal # None
  /\ r.op = "send" => r.journal.tried
  /\ r.op \in {"begin", "prepare", "checkpoint", "send"} => ~r.stopped
  /\ r.op \in {"complete", "archive", "tombstone", "retire", "free"} => r.cloud.done
  /\ r.op \in {"close", "closed"} => r.stopped

EditorOK(r) ==
  /\ r \in Editor /\ CopyOK(CopyOf(r))
  /\ r.slot \in Ids => r.cloud.id = r.slot
  /\ r.cloud.done => r.stopped
  /\ SaverOK(r) /\ OpOK(r)

Write    == [key : {"new"} \cup Ids, copy : Copy, by : {"saver", "op", "edit"}, mirrors : BOOLEAN]
WriteOK(w) == w \in Write /\ CopyOK(w.copy) /\ Fits(w.key, w.copy)

CleanerPc == {"reconcile", "claim", "delete", "tombstone", "retire", "drop"}
CleanerOK(c) ==
  /\ c \in [at : CleanerPc, copy : Copy] /\ CopyOK(c.copy) /\ c.copy.cloud.done
  /\ c.at \in {"delete", "tombstone", "retire"} => c.copy.cloud.id # None
  /\ c.at # "reconcile" => ~Uncertain(c.copy.cloud)
  /\ c.at \in {"tombstone", "retire", "drop"} /\ c.copy.cloud.id # None => ~Exists(c.copy.cloud.id)

RestOK ==
  /\ stash \in [Ids -> [now : Maybe, ever : SUBSET Texts]]
  /\ \A d \in Ids : Exists(d) => Created(d)
  /\ late \in SUBSET ([id : Ids \cup {None}, text : Texts])
  /\ sent \in SUBSET (1..MaxJournals)
  /\ mind \in [typed : Maybe, kept : BOOLEAN]
  /\ seen \in [begun : BOOLEAN, listed : BOOLEAN, blind : BOOLEAN, finished : BOOLEAN, minted : 0..MaxJournals]
  /\ used \in [edits : 0..MaxEdits, faults : 0..MaxFaults]

DiskOK   == disk \in [Slots -> Copy \cup {None}] /\ \A k \in Slots : disk[k] # None => CopyOK(disk[k]) /\ Fits(k, disk[k])
WritesOK == writes \in Seq(Write) /\ \A i \in DOMAIN writes : WriteOK(writes[i])
RunOK    == run # None => EditorOK(run)
CleanOK  == cleaner # None => CleanerOK(cleaner)

CopiesOK == RestOK /\ DiskOK /\ WritesOK /\ RunOK /\ CleanOK
-----------------------------------------------------------------------------
(* Layer 2: the one create.                                                *)

Asked   == \E req \in late : req.id = None
Started == Asked \/ \E d \in Ids : Created(d)

\* The copy knows that the composition may have a draft.
Knows(c) == c.cloud.id # None \/ c.cloud.intent # None

\* The saver's copy for New Post is still to be saved after the j-th save.
IntentComing(j) == \E i \in DOMAIN writes : i > j /\ writes[i].by = "saver" /\ writes[i].key = "new"

IntentNoted ==
  /\ disk["new"] # None => Knows(disk["new"]) \/ IntentComing(0)
  /\ \A j \in DOMAIN writes : writes[j].key = "new" => Knows(writes[j].copy) \/ IntentComing(j)

OneRequest ==
  /\ \A d, e \in Ids : Created(d) /\ Created(e) => d = e
  /\ Asked => \A d \in Ids : ~Created(d)
  /\ \A p, q \in late : p.id = None /\ q.id = None => p = q

AllKnow ==
  /\ run # None => Knows(run) /\ run.saver \notin {"intent", "creating"}
  /\ disk["new"] # None => Knows(disk["new"])
  /\ \A i \in DOMAIN writes : writes[i].key = "new" => Knows(writes[i].copy)

OnceOK ==
  /\ OneRequest
  /\ Started => AllKnow
  /\ run # None /\ run.saver \in {"intent", "creating"} => IntentNoted
  /\ seen.listed => \E d \in Ids : Created(d)
  /\ ~seen.begun => run = None /\ writes = <<>> /\ disk["new"] = None /\ ~Started
-----------------------------------------------------------------------------
(* Layer 3: the journal of the post.                                       *)

\* The save of slot s that carries the editor's journal is still to come after the j-th save.
JournalComing(j, s) ==
  \E i \in DOMAIN writes :
    /\ writes[i].by = "op"
    /\ \/ i > j /\ writes[i].key = s
       \/ s # run.slot /\ writes[i].key = run.slot /\ writes[i].mirrors

Carries(c) == c.cloud.done \/ c.journal = run.journal

JournalNoted(s) ==
  /\ \/ IF disk[s] = None THEN s = "new" ELSE Carries(disk[s])
     \/ JournalComing(0, s)
  /\ \A j \in DOMAIN writes : writes[j].key = s => Carries(writes[j].copy) \/ JournalComing(j, s)

Posted(c) == c.cloud.done \/ (c.journal # None /\ c.journal.tried /\ c.journal.key \in sent)

\* Nothing is posted while it is unknown whether the draft exists.
Settled == ~Started \/ (~seen.blind /\ ~LeftoverReopened)

AllPosted ==
  /\ \A p, q \in sent : p = q
  /\ ~Asked
  /\ run # None => Posted(run)
  /\ \A d \in Ids : Created(d) => disk[d] # None /\ Posted(disk[d])
  /\ disk["new"] # None /\ ~seen.listed => Posted(disk["new"])
  /\ \A i \in DOMAIN writes : Posted(writes[i].copy)

\* Which copies are saved, and from where the editor was opened.
SlotsKept ==
  /\ run # None => \A i \in DOMAIN writes : writes[i].key \in {run.slot, run.cloud.id}
  /\ run # None /\ run.slot # "new" => seen.listed
  /\ seen.listed /\ ~LeftoverReopened => (run # None => run.slot # "new") /\ \A i \in DOMAIN writes : writes[i].key # "new"
  /\ ~seen.begun => sent = {}

SendNoted == run # None /\ run.op = "send" => \A s \in {run.slot, run.cloud.id} \ {None} : JournalNoted(s)

PostedOK == SlotsKept /\ SendNoted /\ (Settled /\ sent # {} => AllPosted)
-----------------------------------------------------------------------------
(* Layer 4: the cleanup.                                                   *)

CleanedOK ==
  /\ disk["cleanup"] # None /\ ~Knows(disk["cleanup"]) => ~Started
  /\ cleaner # None /\ ~Knows(cleaner.copy) => ~Started
  /\ seen.finished => sent # {} /\ ~Asked /\ \A d \in Ids : ~Exists(d)

-----------------------------------------------------------------------------
(* Layer 5: what the user typed last.                                      *)

\* In the copy under k, and in all that is still to be saved over it.
HeldAt(k) ==
  /\ k # "new" => seen.listed
  /\ IF run = None THEN writes = <<>>
     ELSE run.slot = k /\ run.segs = mind.typed /\ ~Tried(run) /\ run.op \notin {"close", "closed"}
  /\ mind.kept => /\ disk[k] # None /\ disk[k].segs = mind.typed /\ ~Tried(disk[k])
                  /\ \A i \in DOMAIN writes : writes[i].copy.segs = mind.typed
  /\ ~mind.kept => /\ run # None
                   /\ \E e \in DOMAIN writes :
                        /\ writes[e].key = k
                        /\ e > 1 => writes[e - 1].copy.segs # mind.typed
                        /\ \A i \in e..Len(writes) : writes[i].copy.segs = mind.typed

\* Under New Post, which is not opened any more.
HeldAside == seen.listed /\ disk["new"] # None /\ disk["new"].segs = mind.typed

Held == HeldAside \/ \E k \in {"new"} \cup Ids : HeldAt(k)

\* What is still to be saved, next to the editor it was saved from.
QueueOK ==
  /\ mind.kept => mind.typed # None
  /\ run # None /\ ~run.stopped /\ writes # <<>> => writes[Len(writes)].copy.segs = run.segs
  /\ run # None /\ ~Tried(run) => \A i \in DOMAIN writes : ~Tried(writes[i].copy)
  /\ run # None /\ run.op = "send" => mind.typed = None
  /\ run # None /\ run.stopped => run.cloud.done \/ run.op \in {"close", "closed"}

Wanted == ~LeftoverReopened /\ ~seen.blind /\ mind.typed # None

KeptOK == QueueOK /\ (Wanted => sent = {} /\ Held)

IInv == CopiesOK /\ OnceOK /\ PostedOK /\ CleanedOK /\ KeptOK
-----------------------------------------------------------------------------
(* What every step does with the copies it does not touch.                 *)

\* What upstream had, what it lost and what was posted stays so.
Grows ==
  /\ \A d \in Ids : stash[d].ever \subseteq stash'[d].ever /\ (Created(d) /\ ~Exists(d) => ~Exists(d)')
  /\ sent \subseteq sent'

By == {"saver", "op", "edit"}

\* The editor's next copy is queued for its slot.
Saved(by) ==
  writes' = Append(writes, [key |-> run'.slot, copy |-> CopyOf(run'), by |-> by, mirrors |-> TRUE])

QueueMoves == writes' = writes \/ \E by \in By : Saved(by)

LEMMA CopyStays ==
  ASSUME NEW c, CopyOK(c), Grows PROVE CopyOK(c)'
<1>1. c.cloud.id \in Ids \cup {None}
  BY DEF CopyOK, Copy, Cloud
<1>2. StoredOK(c.cloud)'
  BY <1>1 DEF CopyOK, StoredOK, CloudOK, Grows, Created
<1> QED BY <1>2 DEF CopyOK

LEMMA EditorStays ==
  ASSUME NEW r, EditorOK(r), Grows PROVE EditorOK(r)'
<1>1. PICK c : c = CopyOf(r)
  OBVIOUS
<1>2. CopyOK(c)'
  BY <1>1, CopyStays DEF EditorOK
<1> QED BY <1>1, <1>2 DEF EditorOK

LEMMA CleanerStays ==
  ASSUME NEW c, CleanerOK(c), Grows PROVE CleanerOK(c)'
<1>1. PICK k : k = c.copy
  OBVIOUS
<1>2. CopyOK(k)' /\ CopyOK(k)
  BY <1>1, CopyStays DEF CleanerOK
<1>3. k.cloud.id \in Ids \cup {None} /\ (k.cloud.id # None => Created(k.cloud.id))
  BY <1>2 DEF CopyOK, Copy, Cloud, StoredOK
<1> QED BY <1>1, <1>2, <1>3 DEF CleanerOK, Grows

LEMMA DiskStays ==
  ASSUME DiskOK, Grows, disk' = disk PROVE DiskOK'
<1>1. ASSUME NEW k \in Slots, disk[k] # None PROVE CopyOK(disk[k])'
  <2>1. PICK c : c = disk[k]
    OBVIOUS
  <2> QED BY <1>1, <2>1, CopyStays DEF DiskOK
<1> QED BY <1>1 DEF DiskOK, Fits

LEMMA DiskMoves ==
  ASSUME DiskOK, Grows, NEW k \in Slots, NEW c, disk' = [disk EXCEPT ![k] = c],
         c = None \/ (CopyOK(c)' /\ Fits(k, c))
  PROVE  DiskOK'
<1>1. disk' \in [Slots -> Copy \cup {None}]
  BY DEF DiskOK, CopyOK
<1>2. ASSUME NEW j \in Slots, disk'[j] # None PROVE CopyOK(disk[j])' /\ Fits(j, disk'[j])
  <2>1. CASE j = k
    BY <1>1, <1>2, <2>1 DEF DiskOK, Fits
  <2>2. CASE j # k
    <3>1. PICK x : x = disk[j]
      OBVIOUS
    <3> QED BY <1>2, <2>2, <3>1, CopyStays DEF DiskOK, Fits
  <2> QED BY <2>1, <2>2
<1> QED BY <1>1, <1>2 DEF DiskOK, Fits

LEMMA WritesStay ==
  ASSUME WritesOK, Grows, writes' = writes PROVE WritesOK'
<1>1. ASSUME NEW i \in DOMAIN writes PROVE CopyOK(writes[i].copy)'
  <2>1. PICK c : c = writes[i].copy
    OBVIOUS
  <2> QED BY <2>1, CopyStays DEF WritesOK, WriteOK
<1> QED BY <1>1 DEF WritesOK, WriteOK, Fits

LEMMA WritesAppended ==
  ASSUME WritesOK, Grows, NEW w, w \in Write, CopyOK(w.copy)', Fits(w.key, w.copy), writes' = Append(writes, w)
  PROVE  WritesOK'
<1>1. writes' \in Seq(Write) /\ Len(writes') = Len(writes) + 1 /\ writes'[Len(writes) + 1] = w
      /\ \A i \in 1..Len(writes) : writes'[i] = writes[i]
  BY AppendProperties DEF WritesOK
<1>2. ASSUME NEW i \in DOMAIN writes' PROVE WriteOK(writes[i])'
  <2>1. i \in 1..Len(writes) + 1
    BY <1>1, <1>2
  <2>2. CASE i = Len(writes) + 1
    BY <1>1, <2>2 DEF WriteOK, Fits
  <2>3. CASE i # Len(writes) + 1
    <3>1. PICK x : x = writes[i]
      OBVIOUS
    <3>2. x = writes'[i] /\ WriteOK(x)
      BY <1>1, <2>1, <2>3, <3>1 DEF WritesOK
    <3>3. PICK c : c = x.copy
      OBVIOUS
    <3> QED BY <3>2, <3>3, CopyStays DEF WriteOK, Fits
  <2> QED BY <2>2, <2>3
<1> QED BY <1>1, <1>2 DEF WritesOK

\* The editor moves on, and its copy may be queued.
LEMMA EditorMoves ==
  ASSUME CopiesOK, Grows, RestOK', run' # None, EditorOK(run)', QueueMoves, disk' = disk, cleaner' = cleaner
  PROVE  CopiesOK'
<1>1. ASSUME writes' = writes PROVE WritesOK'
  BY <1>1, WritesStay DEF CopiesOK
<1>2. ASSUME NEW by \in By, Saved(by) PROVE WritesOK'
  <2>1. PICK w : w = [key |-> run'.slot, copy |-> CopyOf(run'), by |-> by, mirrors |-> TRUE]
    OBVIOUS
  <2>2. w \in Write /\ CopyOK(w.copy)' /\ Fits(w.key, w.copy)
    BY <2>1, <1>2, NameAssumption DEF Write, Editor, EditorOK, By, Fits, CopyOf, CopyOK
  <2> QED BY <1>2, <2>1, <2>2, WritesAppended DEF CopiesOK, Saved
<1>3. WritesOK'
  BY <1>1, <1>2 DEF QueueMoves
<1>4. DiskOK'
  BY DiskStays DEF CopiesOK
<1>5. CleanOK'
  <2>1. PICK c : c = cleaner
    OBVIOUS
  <2> QED BY <2>1, CleanerStays DEF CopiesOK, CleanOK
<1> QED BY <1>3, <1>4, <1>5 DEF CopiesOK, RunOK

\* Nothing upstream and no posts: only the editor moves on, to r.
LEMMA QuietlyMoves ==
  ASSUME CopiesOK, stash' = stash, sent' = sent, disk' = disk, cleaner' = cleaner, QueueMoves,
         NEW r, EditorOK(r), run' = r, RestOK'
  PROVE  CopiesOK'
<1>1. Grows
  BY DEF Grows, Created, Exists
<1>2. EditorOK(run)' /\ run' # None
  BY <1>1, EditorStays, NoneAssumption DEF EditorOK
<1> QED BY <1>1, <1>2, EditorMoves

LEMMA ConfirmedType ==
  ASSUME RestOK, NEW t, Confirmed(t) PROVE mind' \in [typed : Maybe, kept : BOOLEAN]
BY DEF RestOK, Confirmed, Forgotten, Maybe

LEMMA PersistSaves ==
  ASSUME NEW r, NEW by \in By, Persist(r, by) PROVE run' = r /\ QueueMoves
BY DEF Persist, QueueMoves, Saved

\* The same composition, whatever the saver does with it.
Alike(q, r) ==
  /\ q.slot = r.slot /\ q.segs = r.segs /\ q.journal = r.journal /\ q.stopped = r.stopped /\ q.op = r.op
  /\ q.cloud.done = r.cloud.done /\ q.cloud.id = r.cloud.id /\ q.cloud.intent = r.cloud.intent

LEMMA AlikeTrans == ASSUME NEW p, NEW q, NEW r, Alike(p, q), Alike(q, r) PROVE Alike(p, r)
BY DEF Alike

LEMMA GoPlace ==
  ASSUME NEW r \in Editor, NEW pc \in SaverPc, NEW q, q = Go(r, pc)
  PROVE  q \in Editor /\ CopyOf(q) = CopyOf(r) /\ Alike(q, r) /\ q.cloud = r.cloud /\ q.payload = r.payload /\ q.saver = pc
         /\ q.publishing = r.publishing
BY DEF Go, Editor, CopyOf, Alike

LEMMA RestPlace ==
  ASSUME NEW r \in Editor, NEW q, q = Rest(r)
  PROVE  q \in Editor /\ CopyOf(q) = CopyOf(r) /\ Alike(q, r) /\ q.cloud = r.cloud /\ q.saver = "idle"
BY DEF Rest, Editor, CopyOf, SaverPc, Maybe, Alike

LEMMA DoPlace ==
  ASSUME NEW r \in Editor, NEW pc \in OpPc, NEW q, q = Do(r, pc)
  PROVE  /\ q \in Editor /\ CopyOf(q) = CopyOf(r)
         /\ q.slot = r.slot /\ q.segs = r.segs /\ q.journal = r.journal /\ q.cloud = r.cloud /\ q.stopped = r.stopped
         /\ q.publishing = r.publishing /\ q.payload = r.payload /\ q.saver = r.saver /\ q.op = pc
BY DEF Do, Editor, CopyOf

LEMMA RestStays ==
  ASSUME RestOK, stash' = stash, late' = late, sent' = sent, mind' \in [typed : Maybe, kept : BOOLEAN], seen' = seen, used' = used
  PROVE  RestOK'
BY DEF RestOK, Exists, Created

\* The same cloud state, the saver at another place.
LEMMA PlaceMoves ==
  ASSUME NEW r, EditorOK(r), NEW q \in Editor, CopyOf(q) = CopyOf(r), Alike(q, r), q.cloud = r.cloud, SaverOK(q)
  PROVE  EditorOK(q)
BY DEF EditorOK, CopyOf, Alike, OpOK

\* A saver at rest is nowhere in particular.
LEMMA RestsWell ==
  ASSUME NEW r, EditorOK(r), NEW q, q = Rest(r)
  PROVE  EditorOK(q) /\ Alike(q, r) /\ q.cloud = r.cloud /\ q.saver = "idle"
<1>1. q \in Editor /\ CopyOf(q) = CopyOf(r) /\ Alike(q, r) /\ q.cloud = r.cloud /\ q.saver = "idle"
  BY RestPlace DEF EditorOK
<1>2. SaverOK(q)
  BY <1>1 DEF SaverOK
<1> QED BY <1>1, <1>2, PlaceMoves

LEMMA Conflicts ==
  ASSUME NEW r, EditorOK(r), NEW b \in BOOLEAN, NEW q, q = [r EXCEPT !.conflict = b]
  PROVE  EditorOK(q) /\ Alike(q, r) /\ q.cloud = r.cloud /\ q.saver = r.saver
<1>1. /\ q \in Editor /\ CopyOf(q) = CopyOf(r) /\ Alike(q, r) /\ q.cloud = r.cloud /\ q.saver = r.saver /\ q.payload = r.payload
  BY DEF EditorOK, Editor, CopyOf, Alike
<1>2. SaverOK(q)
  BY <1>1 DEF EditorOK, SaverOK, Tried, Alike
<1> QED BY <1>1, <1>2, PlaceMoves

\* The cloud state changes, not the text.
LEMMA CloudMoves ==
  ASSUME NEW r, EditorOK(r), NEW q \in Editor, q.slot = r.slot, q.segs = r.segs, q.journal = r.journal,
         q.stopped = r.stopped, q.op = r.op, q.cloud.done = r.cloud.done, q.cloud.id = r.cloud.id \/ r.cloud.id = None,
         CloudOK(q.cloud), StoredOK(q.cloud), BlankOK(q), SaverOK(q)
  PROVE  EditorOK(q)
BY NameAssumption DEF EditorOK, CopyOf, CopyOK, Copy, Editor, BlankOK, OpOK

\* What no step of the saver changes.
SaverKeeps ==
  /\ run # None /\ run' # None /\ QueueMoves /\ UNCHANGED <<disk, cleaner, sent, seen>>
  /\ run'.slot = run.slot /\ run'.segs = run.segs /\ run'.journal = run.journal /\ run'.op = run.op
  /\ run'.stopped = run.stopped /\ run'.cloud.done = run.cloud.done /\ run.op \in {"idle", "begin"}
  /\ run'.cloud.id = run.cloud.id \/ run.cloud.id = None
  /\ mind' = mind \/ mind' = Forgotten

\* ... and the steps that have nothing to do with the create.
SaverCalm ==
  /\ SaverKeeps /\ stash' = stash /\ (Knows(run) => Knows(run'))
  /\ {run.saver, run'.saver} \cap {"intent", "creating"} = {}
  /\ late \subseteq late' /\ \A req \in late' \ late : req.id # None

LEMMA CalmMoves ==
  ASSUME CopiesOK, run # None, RestOK', UNCHANGED <<stash, sent, disk, cleaner, seen>>, QueueMoves,
         NEW q, run' = q, EditorOK(q), Alike(q, run), run.saver # "idle" \/ q.saver # "idle", {run.saver, q.saver} \cap {"intent", "creating"} = {},
         mind' = mind \/ mind' = Forgotten,
         late \subseteq late', \A req \in late' \ late : req.id # None
  PROVE  CopiesOK' /\ SaverCalm
<1>1. CopiesOK'
  BY QuietlyMoves
<1>2. run' # None
  BY NoneAssumption DEF EditorOK
<1>3. run.op \in {"idle", "begin"}
  BY DEF CopiesOK, RunOK, EditorOK, SaverOK, Alike
<1> QED BY <1>1, <1>2, <1>3 DEF SaverCalm, SaverKeeps, Alike, Knows

\* The same with a quiet memory and no request.
LEMMA PlainMoves ==
  ASSUME CopiesOK, run # None, UNCHANGED <<stash, sent, disk, cleaner, seen, late, used>>, QueueMoves,
         NEW q, run' = q, EditorOK(q), Alike(q, run), run.saver # "idle" \/ q.saver # "idle", {run.saver, q.saver} \cap {"intent", "creating"} = {},
         mind' = mind \/ mind' = Forgotten
  PROVE  CopiesOK' /\ SaverCalm
<1>1. RestOK'
  <2>1. RestOK /\ mind \in [typed : Maybe, kept : BOOLEAN]
    BY DEF CopiesOK, RestOK
  <2>2. Forgotten \in [typed : Maybe, kept : BOOLEAN]
    BY DEF Forgotten, Maybe
  <2> QED BY <2>1, <2>2, RestStays
<1> QED BY <1>1, CalmMoves

LEMMA SaveBeginsOK == ASSUME CopiesOK, SaveBegins PROVE CopiesOK' /\ SaverCalm
<1>1. EditorOK(run) /\ run \in Editor /\ run.saver = "begin" /\ run # None /\ QueueMoves
  BY DEF SaveBegins, SaverAt, EditorOK, CopiesOK, RunOK, QueueMoves
<1>2. PICK g, h : g = Go(run, IF run.cloud.pending = None THEN "loop" ELSE "confirm") /\ h = Rest(run)
  OBVIOUS
<1>3. /\ g \in Editor /\ CopyOf(g) = CopyOf(run) /\ Alike(g, run) /\ g.cloud = run.cloud
      /\ g.saver = IF run.cloud.pending = None THEN "loop" ELSE "confirm"
  BY <1>1, <1>2, GoPlace DEF SaverPc
<1>4. CASE run' = g /\ ~Tried(run) /\ ~Uncertain(run.cloud)
  <2>1. SaverOK(g)
    BY <1>1, <1>3, <1>4 DEF EditorOK, SaverOK, Tried, Uncertain, Alike
  <2>2. EditorOK(g)
    BY <1>1, <1>3, <2>1, PlaceMoves
  <2> QED BY <1>1, <1>3, <1>4, <2>2, PlainMoves DEF SaveBegins, QuietSave
<1>5. CASE run' = h
  BY <1>1, <1>2, <1>5, RestsWell, PlainMoves DEF SaveBegins, QuietSave
<1> QED BY <1>2, <1>4, <1>5 DEF SaveBegins

LEMMA SaveStartsOK == ASSUME CopiesOK, SaveStarts PROVE CopiesOK' /\ SaverCalm
<1>1. EditorOK(run) /\ run \in Editor /\ run.saver = "idle" /\ run # None
  BY DEF SaveStarts, EditorOK, CopiesOK, RunOK
<1>2. PICK g : g = Go(run, "begin")
  OBVIOUS
<1>3. PICK resend \in BOOLEAN : Persist([g EXCEPT !.resend = resend], "saver")
  BY <1>2 DEF SaveStarts
<1>4. PICK q : q = [g EXCEPT !.resend = resend]
  OBVIOUS
<1>5. g \in Editor /\ CopyOf(g) = CopyOf(run) /\ Alike(g, run) /\ g.cloud = run.cloud /\ g.saver = "begin"
  BY <1>1, <1>2, GoPlace DEF SaverPc
<1>6. q \in Editor /\ CopyOf(q) = CopyOf(run) /\ Alike(q, run) /\ q.cloud = run.cloud /\ q.saver = "begin"
  BY <1>4, <1>5 DEF Editor, CopyOf, Alike
<1>7. SaverOK(q)
  BY <1>1, <1>6 DEF EditorOK, OpOK, SaverOK, SaveStarts, Alike
<1>8. EditorOK(q)
  BY <1>1, <1>6, <1>7, PlaceMoves
<1>9. QueueMoves /\ run' = q
  BY <1>3, <1>4, PersistSaves DEF By
<1> QED BY <1>1, <1>6, <1>8, <1>9, PlainMoves DEF SaveStarts, QuietSave

LEMMA AckFields ==
  ASSUME NEW c \in Cloud, c.pending # None, NEW k, k = Acknowledged(c)
  PROVE  /\ k \in Cloud /\ k.id = c.id /\ k.ack = c.pending.text /\ k.intent = c.intent /\ k.pending = None
         /\ k.done = c.done /\ k.deleted = c.deleted /\ c.pending.text \in Texts
<1>1. c.pending \in [text : Texts, prev : Texts]
  BY DEF Cloud, Pending
<1> QED BY <1>1 DEF Cloud, Acknowledged, Pending, Maybe

\* Upstream confirmed the update.
LEMMA ConfirmedMoves ==
  ASSUME CopiesOK, run # None, run.cloud.pending # None, run.cloud.pending.text \in Shown(run.cloud.id),
         run.saver \in {"confirm", "recheck", "preserved"},
         UNCHANGED <<stash, sent, disk, cleaner, seen, late, used>>,
         Persist([Go(run, "loop") EXCEPT !.cloud = Acknowledged(@), !.resend = FALSE], "saver"),
         NEW t, Confirmed(t)
  PROVE  CopiesOK' /\ SaverCalm
<1>1. EditorOK(run) /\ run \in Editor /\ run.cloud \in Cloud
  BY DEF CopiesOK, RunOK, EditorOK, Editor
<1>2. PICK g : g = Go(run, "loop")
  OBVIOUS
<1>3. g \in Editor /\ CopyOf(g) = CopyOf(run) /\ Alike(g, run) /\ g.cloud = run.cloud /\ g.saver = "loop"
  BY <1>1, <1>2, GoPlace DEF SaverPc
<1>4. PICK k : k = Acknowledged(run.cloud)
  OBVIOUS
<1>5. /\ k \in Cloud /\ k.id = run.cloud.id /\ k.ack = run.cloud.pending.text /\ k.intent = run.cloud.intent /\ k.pending = None
      /\ k.done = run.cloud.done /\ k.deleted = run.cloud.deleted /\ k.ack \in Texts
  BY <1>1, <1>4, AckFields
<1>6. PICK q : q = [g EXCEPT !.cloud = k, !.resend = FALSE]
  OBVIOUS
<1>7. q \in Editor /\ Alike(q, run) /\ q.cloud = k /\ q.saver = "loop"
  BY <1>3, <1>5, <1>6 DEF Editor, Alike
<1>8. CloudOK(run.cloud) /\ StoredOK(run.cloud) /\ run.cloud.id # None /\ run.cloud.id \in Ids
  BY <1>1 DEF EditorOK, CopyOK, CopyOf, CloudOK, Cloud
<1>9. CloudOK(q.cloud) /\ StoredOK(q.cloud) /\ BlankOK(q)
  BY <1>1, <1>5, <1>7, <1>8, NameAssumption DEF CloudOK, StoredOK, Shown, BlankOK, EditorOK, CopyOK, CopyOf, Alike
<1>10. SaverOK(q)
  BY <1>1, <1>5, <1>7, <1>8 DEF SaverOK, EditorOK, Tried, Alike
<1>11. EditorOK(q)
  BY <1>1, <1>7, <1>9, <1>10, CloudMoves DEF Alike
<1>12. QueueMoves /\ run' = q
  BY <1>2, <1>3, <1>4, <1>6, PersistSaves DEF By
<1> QED BY <1>7, <1>11, <1>12, PlainMoves DEF Confirmed

LEMMA ConfirmOK == ASSUME CopiesOK, Confirm PROVE CopiesOK' /\ SaverCalm
<1>1. EditorOK(run) /\ run \in Editor /\ run.saver = "confirm" /\ run # None
  BY DEF Confirm, SaverAt, EditorOK, CopiesOK, RunOK
<1>2. run.cloud.pending # None
  BY <1>1 DEF EditorOK, SaverOK
<1>3. PICK t \in Shown(run.cloud.id) :
         IF t = run.cloud.pending.text
         THEN /\ Persist([Go(run, "loop") EXCEPT !.cloud = Acknowledged(@), !.resend = FALSE], "saver")
              /\ Confirmed(t)
         ELSE /\ \/ Foreign(t, run.cloud) /\ run' = [Rest(run) EXCEPT !.conflict = TRUE]
                 \/ ~Foreign(t, run.cloud) /\ run' = IF run.resend THEN Go(run, "recheck") ELSE Rest(run)
              /\ UNCHANGED <<writes, mind>>
  BY DEF Confirm
<1>4. CASE t = run.cloud.pending.text
  BY <1>1, <1>2, <1>3, <1>4, ConfirmedMoves DEF Confirm, QuietSave
<1>5. CASE t # run.cloud.pending.text
  <2>1. PICK g, h, r : g = Go(run, "recheck") /\ h = Rest(run) /\ r = [h EXCEPT !.conflict = TRUE]
    OBVIOUS
  <2>2. run' \in {g, h, r} /\ QueueMoves /\ mind' = mind
    BY <1>3, <1>5, <2>1 DEF QueueMoves
  <2>3. g \in Editor /\ CopyOf(g) = CopyOf(run) /\ Alike(g, run) /\ g.cloud = run.cloud /\ g.saver = "recheck"
    BY <1>1, <2>1, GoPlace DEF SaverPc
  <2>4. SaverOK(g)
    BY <1>1, <1>2, <2>3 DEF EditorOK, SaverOK, Tried, Alike
  <2>5. EditorOK(g) /\ EditorOK(h) /\ Alike(h, run) /\ h.saver = "idle"
    BY <1>1, <2>1, <2>3, <2>4, PlaceMoves, RestsWell
  <2>6. EditorOK(r) /\ Alike(r, run) /\ r.saver = "idle"
    BY <2>1, <2>5, Conflicts, AlikeTrans
  <2> QED BY <1>1, <2>2, <2>3, <2>5, <2>6, PlainMoves DEF Confirm, QuietSave
<1> QED BY <1>4, <1>5

LEMMA RecheckOK == ASSUME CopiesOK, Recheck PROVE CopiesOK' /\ SaverCalm
<1>1. PICK pc \in {"recheck", "preserved"}, t \in Shown(run.cloud.id) :
         /\ SaverAt(pc)
         /\ IF t = run.cloud.pending.text
              THEN /\ Persist([Go(run, "loop") EXCEPT !.cloud = Acknowledged(@), !.resend = FALSE], "saver")
                   /\ Confirmed(t) /\ UNCHANGED <<late, used>>
            ELSE IF t # run.cloud.pending.prev
              THEN /\ run' = [Rest(run) EXCEPT !.conflict = Foreign(t, run.cloud)]
                   /\ UNCHANGED <<writes, mind, late, used>>
            ELSE IF pc = "recheck"
              THEN Persist(Go(run, "preserved"), "saver") /\ UNCHANGED <<mind, late, used>>
            ELSE IF Halted(run)
              THEN run' = Rest(run) /\ UNCHANGED <<writes, mind, late, used>>
              ELSE /\ run' = [Go(run, "pending") EXCEPT !.resend = FALSE]
                   /\ UNCHANGED <<writes, mind, late, used>>
  BY DEF Recheck
<1>2. EditorOK(run) /\ run \in Editor /\ run.saver = pc /\ run # None
  BY <1>1 DEF SaverAt, EditorOK, CopiesOK, RunOK
<1>3. run.cloud.pending # None
  BY <1>2 DEF EditorOK, SaverOK
<1>4. UNCHANGED <<stash, disk, cleaner, sent, seen>>
  BY DEF Recheck, QuietSave
<1>5. CASE t = run.cloud.pending.text
  BY <1>1, <1>2, <1>3, <1>4, <1>5, ConfirmedMoves
<1>6. CASE t # run.cloud.pending.text
  <2>1. PICK g, h, r, p, q :
           /\ g = Go(run, "preserved") /\ h = Rest(run) /\ r = [h EXCEPT !.conflict = Foreign(t, run.cloud)]
           /\ p = Go(run, "pending") /\ q = [p EXCEPT !.resend = FALSE]
    OBVIOUS
  <2>2. UNCHANGED <<mind, late, used>> /\ run' \in {g, h, r, q} /\ QueueMoves
    BY <1>1, <1>6, <2>1, PersistSaves DEF QueueMoves, By
  <2>3. g \in Editor /\ CopyOf(g) = CopyOf(run) /\ Alike(g, run) /\ g.cloud = run.cloud /\ g.saver = "preserved"
    BY <1>2, <2>1, GoPlace DEF SaverPc
  <2>4. p \in Editor /\ CopyOf(p) = CopyOf(run) /\ Alike(p, run) /\ p.cloud = run.cloud /\ p.saver = "pending"
    BY <1>2, <2>1, GoPlace DEF SaverPc
  <2>5. q \in Editor /\ CopyOf(q) = CopyOf(run) /\ Alike(q, run) /\ q.cloud = run.cloud /\ q.saver = "pending"
    BY <2>1, <2>4 DEF Editor, CopyOf, Alike
  <2>6. SaverOK(g) /\ SaverOK(q)
    BY <1>2, <1>3, <2>3, <2>5 DEF EditorOK, SaverOK, Tried, Alike
  <2>7. EditorOK(g) /\ EditorOK(q)
    BY <1>2, <2>3, <2>5, <2>6, PlaceMoves
  <2>8. EditorOK(h) /\ Alike(h, run) /\ h.saver = "idle"
    BY <1>2, <2>1, RestsWell
  <2>9. EditorOK(r) /\ Alike(r, run) /\ r.saver = "idle"
    <3>1. Foreign(t, run.cloud) \in BOOLEAN
      BY DEF Foreign
    <3> QED BY <2>1, <2>8, <3>1, Conflicts, AlikeTrans
  <2> QED BY <1>2, <1>4, <2>2, <2>3, <2>5, <2>7, <2>8, <2>9, PlainMoves
<1> QED BY <1>5, <1>6

LEMMA LoopOK == ASSUME CopiesOK, Loop PROVE CopiesOK' /\ SaverCalm
<1>1. EditorOK(run) /\ run \in Editor /\ run.saver = "loop" /\ run # None
  BY DEF Loop, SaverAt, EditorOK, CopiesOK, RunOK
<1>2. PICK g, h, q : g = Go(run, "check") /\ h = Rest(run) /\ q = [g EXCEPT !.payload = run.segs]
  OBVIOUS
<1>3. CASE run' = h /\ writes' = writes
  <2>1. EditorOK(h) /\ Alike(h, run) /\ h.saver = "idle"
    BY <1>1, <1>2, RestsWell
  <2> QED BY <1>1, <1>3, <2>1, PlainMoves DEF Loop, QuietSave, QueueMoves
<1>4. CASE Persist(q, "saver") /\ ~Halted(run) /\ ~(run.cloud.id = None /\ run.segs = None)
  <2>1. g \in Editor /\ CopyOf(g) = CopyOf(run) /\ Alike(g, run) /\ g.cloud = run.cloud /\ g.saver = "check"
    BY <1>1, <1>2, GoPlace DEF SaverPc
  <2>2. q \in Editor /\ CopyOf(q) = CopyOf(run) /\ Alike(q, run) /\ q.cloud = run.cloud /\ q.saver = "check" /\ q.payload = run.segs
    BY <1>1, <1>2, <2>1 DEF Editor, CopyOf, Alike
  <2>3. run.segs # None
    BY <1>1, <1>4 DEF EditorOK, CopyOK, CopyOf, BlankOK, Halted
  <2>4. SaverOK(q)
    BY <1>1, <2>2, <2>3 DEF EditorOK, SaverOK, Tried, Alike
  <2>5. EditorOK(q)
    BY <1>1, <2>2, <2>4, PlaceMoves
  <2>6. run' = q /\ QueueMoves
    BY <1>4, PersistSaves DEF By
  <2> QED BY <1>1, <2>2, <2>5, <2>6, PlainMoves DEF Loop, QuietSave
<1> QED BY <1>2, <1>3, <1>4 DEF Loop

LEMMA UpdateSentOK == ASSUME CopiesOK, UpdateSent PROVE CopiesOK' /\ SaverCalm
<1>1. EditorOK(run) /\ run \in Editor /\ run.saver = "pending" /\ run # None /\ run.cloud \in Cloud
  BY DEF UpdateSent, SaverAt, EditorOK, CopiesOK, RunOK, Editor
<1>2. run.cloud.pending # None /\ run.cloud.id # None
  BY <1>1 DEF EditorOK, SaverOK, CopyOK, CopyOf, CloudOK
<1>3. run.cloud.pending.text \in Texts /\ run.cloud.id \in Ids
  BY <1>1, <1>2 DEF Cloud, Pending
<1>4. PICK g, h : g = Go(run, "confirm") /\ h = Rest(run)
  OBVIOUS
<1>5. run' \in {g, h} /\ QueueMoves /\ UNCHANGED <<stash, disk, cleaner, sent, seen, mind>>
  BY <1>4 DEF UpdateSent, QueueMoves, QuietSave
<1>6. g \in Editor /\ CopyOf(g) = CopyOf(run) /\ Alike(g, run) /\ g.cloud = run.cloud /\ g.saver = "confirm"
  BY <1>1, <1>4, GoPlace DEF SaverPc
<1>7. SaverOK(g)
  BY <1>1, <1>2, <1>6 DEF EditorOK, SaverOK, Tried, Alike
<1>8. EditorOK(g) /\ EditorOK(h) /\ Alike(h, run) /\ h.saver = "idle"
  BY <1>1, <1>4, <1>6, <1>7, PlaceMoves, RestsWell
<1>9. used' \in [edits : 0..MaxEdits, faults : 0..MaxFaults]
  BY BoundAssumption DEF UpdateSent, Fault, CopiesOK, RestOK
<1>10. late \subseteq late' /\ (\A req \in late' \ late : req.id # None) /\ late' \in SUBSET ([id : Ids \cup {None}, text : Texts])
  BY <1>2, <1>3 DEF UpdateSent, CopiesOK, RestOK
<1>11. RestOK'
  BY <1>5, <1>9, <1>10 DEF CopiesOK, RestOK, Exists, Created
<1> QED BY <1>1, <1>5, <1>6, <1>8, <1>10, <1>11, CalmMoves

LEMMA UpdateRejectedOK == ASSUME CopiesOK, UpdateRejected PROVE CopiesOK' /\ SaverCalm
<1>1. EditorOK(run) /\ run \in Editor /\ run.saver = "pending" /\ run # None /\ run.cloud \in Cloud
  BY DEF UpdateRejected, SaverAt, EditorOK, CopiesOK, RunOK, Editor
<1>2. PICK h, q : h = Rest(run) /\ q = [h EXCEPT !.cloud.pending = None]
  OBVIOUS
<1>3. EditorOK(h) /\ Alike(h, run) /\ h.cloud = run.cloud /\ h.saver = "idle"
  BY <1>1, <1>2, RestsWell
<1>4. PICK k : k = [run.cloud EXCEPT !.pending = None]
  OBVIOUS
<1>5. /\ k \in Cloud /\ k.id = run.cloud.id /\ k.ack = run.cloud.ack /\ k.intent = run.cloud.intent /\ k.pending = None
      /\ k.done = run.cloud.done /\ k.deleted = run.cloud.deleted
  BY <1>1, <1>4 DEF Cloud, Pending
<1>6. q \in Editor /\ Alike(q, run) /\ q.cloud = k /\ q.saver = "idle"
  BY <1>2, <1>3, <1>4, <1>5 DEF EditorOK, Editor, Alike
<1>7. CloudOK(q.cloud) /\ StoredOK(q.cloud) /\ BlankOK(q)
  BY <1>1, <1>5, <1>6 DEF CloudOK, StoredOK, BlankOK, EditorOK, CopyOK, CopyOf, Alike
<1>8. SaverOK(q)
  BY <1>6 DEF SaverOK
<1>9. EditorOK(q)
  BY <1>1, <1>6, <1>7, <1>8, CloudMoves DEF Alike
<1>10. run' = q /\ QueueMoves
  BY <1>2, PersistSaves DEF UpdateRejected, By
<1> QED BY <1>1, <1>6, <1>9, <1>10, PlainMoves DEF UpdateRejected, QuietSave

\* The steps of the create.
LEMMA AdoptedFields ==
  ASSUME NEW c \in Cloud, NEW d \in Ids, NEW k, k = Adopted(c, d)
  PROVE  /\ k \in Cloud /\ k.id = d /\ k.ack = c.intent /\ k.intent = None /\ k.pending = c.pending
         /\ k.done = c.done /\ k.deleted = c.deleted
BY DEF Cloud, Adopted, Maybe

LEMMA FoundOne ==
  ASSUME NEW l \in Listings, NEW c, Cardinality(Candidates(l, c)) = 1
  PROVE  LET d == CHOOSE x \in Candidates(l, c) : TRUE IN
           d \in Ids /\ l[d] = c.cloud.intent /\ c.cloud.intent \in Shown(d)
<1>1. PICK F : F = Candidates(l, c)
  OBVIOUS
<1>2. F # {}
  BY <1>1, FS_EmptySet
<1> QED BY <1>1, <1>2 DEF Candidates, Listings

LEMMA ReconcileOK == ASSUME CopiesOK, Reconcile PROVE CopiesOK' /\ SaverCalm
<1>1. /\ EditorOK(run) /\ run \in Editor /\ run.saver = "begin" /\ run # None /\ run.cloud \in Cloud
      /\ Uncertain(run.cloud) /\ ~Tried(run)
      /\ UNCHANGED <<stash, late, used, disk, cleaner, sent, seen>>
  BY DEF Reconcile, SaverAt, EditorOK, CopiesOK, RunOK, Editor, QuietSave
<1>2. PICK l \in Listings :
         IF Cardinality(Candidates(l, CopyOf(run))) = 1
           THEN /\ Persist([Go(run, "loop") EXCEPT !.cloud = Adopted(@, CHOOSE d \in Candidates(l, CopyOf(run)) : TRUE)], "saver")
                /\ Confirmed(run.cloud.intent)
           ELSE run' = Rest(run) /\ UNCHANGED <<writes, mind>>
  BY DEF Reconcile
<1>3. CASE Cardinality(Candidates(l, CopyOf(run))) # 1
  <2>1. PICK h : h = Rest(run)
    OBVIOUS
  <2>2. EditorOK(h) /\ Alike(h, run) /\ h.saver = "idle"
    BY <1>1, <2>1, RestsWell
  <2> QED BY <1>1, <1>2, <1>3, <2>1, <2>2, PlainMoves DEF QueueMoves
<1>4. CASE Cardinality(Candidates(l, CopyOf(run))) = 1
  <2>1. PICK d \in Ids : d = (CHOOSE x \in Candidates(l, CopyOf(run)) : TRUE) /\ run.cloud.intent \in Shown(d)
    BY <1>4, FoundOne DEF CopyOf
  <2>2. PICK g, k, q : g = Go(run, "loop") /\ k = Adopted(run.cloud, d) /\ q = [g EXCEPT !.cloud = k]
    OBVIOUS
  <2>3. g \in Editor /\ CopyOf(g) = CopyOf(run) /\ Alike(g, run) /\ g.cloud = run.cloud /\ g.saver = "loop"
    BY <1>1, <2>2, GoPlace DEF SaverPc
  <2>4. /\ k \in Cloud /\ k.id = d /\ k.ack = run.cloud.intent /\ k.intent = None /\ k.pending = run.cloud.pending
        /\ k.done = run.cloud.done /\ k.deleted = run.cloud.deleted
    BY <1>1, <2>2, AdoptedFields
  <2>5. /\ q \in Editor /\ q.slot = run.slot /\ q.segs = run.segs /\ q.journal = run.journal /\ q.stopped = run.stopped
        /\ q.op = run.op /\ q.cloud = k /\ q.saver = "loop"
    BY <2>2, <2>3, <2>4 DEF Editor, Alike
  <2>6. CloudOK(run.cloud) /\ StoredOK(run.cloud) /\ BlankOK(run)
    BY <1>1 DEF EditorOK, CopyOK, CopyOf, BlankOK
  <2>7. CloudOK(q.cloud) /\ StoredOK(q.cloud) /\ BlankOK(q)
    BY <1>1, <2>1, <2>4, <2>5, <2>6, NameAssumption DEF CloudOK, StoredOK, BlankOK, Shown, Uncertain, Created
  <2>8. SaverOK(q)
    BY <1>1, <2>4, <2>5, NameAssumption DEF EditorOK, SaverOK, Tried
  <2>9. EditorOK(q)
    BY <1>1, <2>4, <2>5, <2>7, <2>8, CloudMoves DEF Uncertain
  <2>10. Go(run, "loop").cloud = run.cloud
    BY <2>2, <2>3
  <2>11. run' = q /\ QueueMoves /\ Confirmed(run.cloud.intent)
    BY <1>2, <1>4, <2>1, <2>2, <2>10, PersistSaves DEF By
  <2>12. RestOK'
    BY <1>1, <2>11, RestStays, ConfirmedType DEF CopiesOK
  <2>13. CopiesOK'
    BY <1>1, <2>9, <2>11, <2>12, QuietlyMoves
  <2>14. SaverCalm
    BY <1>1, <2>4, <2>5, <2>9, <2>11, NoneAssumption, NameAssumption DEF SaverCalm, SaverKeeps, Knows, Confirmed, Uncertain, EditorOK, SaverOK
  <2> QED BY <2>13, <2>14
<1> QED BY <1>3, <1>4

\* The intent of a create is noted.
IntentStep ==
  /\ SaverKeeps /\ UNCHANGED <<stash, late>> /\ Saved("saver")
  /\ run.saver = "check" /\ run'.saver = "intent" /\ ~Knows(run) /\ Knows(run')

LEMMA CheckOK == ASSUME CopiesOK, Check PROVE CopiesOK' /\ (SaverCalm \/ IntentStep)
<1>1. /\ EditorOK(run) /\ run \in Editor /\ run.saver = "check" /\ run # None /\ run.cloud \in Cloud
      /\ UNCHANGED <<stash, late, mind, used, disk, cleaner, sent, seen>>
  BY DEF Check, SaverAt, EditorOK, CopiesOK, RunOK, Editor, QuietSave
<1>2. PICK h, r, g, q, f, p :
        /\ h = Rest(run) /\ \E b \in BOOLEAN : r = [h EXCEPT !.conflict = b]
        /\ g = Go(run, "intent") /\ q = [g EXCEPT !.cloud.intent = run.payload]
        /\ f = Go(run, "pending") /\ p = [f EXCEPT !.cloud.pending = [text |-> run.payload, prev |-> run.cloud.ack]]
        /\ \/ run' \in {h, r} /\ writes' = writes
           \/ Persist(q, "saver") /\ run.cloud.id = None
           \/ Persist(p, "saver") /\ run.cloud.id # None
  <2>1. PICK t \in IF run.cloud.id = None THEN {None} ELSE Shown(run.cloud.id) :
       IF run.cloud.id # None /\ (t = None \/ Foreign(t, run.cloud))
         THEN run' = [Rest(run) EXCEPT !.conflict = t # None] /\ UNCHANGED writes
       ELSE IF Halted(run)
         THEN run' = Rest(run) /\ UNCHANGED writes
       ELSE IF run.cloud.id = None
         THEN Persist([Go(run, "intent") EXCEPT !.cloud.intent = run.payload], "saver")
         ELSE Persist([Go(run, "pending") EXCEPT
                         !.cloud.pending = [text |-> run.payload, prev |-> run.cloud.ack]], "saver")
    BY DEF Check
  <2> WITNESS Rest(run), [Rest(run) EXCEPT !.conflict = t # None], Go(run, "intent"),
              [Go(run, "intent") EXCEPT !.cloud.intent = run.payload], Go(run, "pending"),
              [Go(run, "pending") EXCEPT !.cloud.pending = [text |-> run.payload, prev |-> run.cloud.ack]]
  <2> QED BY <2>1
<1>3. EditorOK(h) /\ Alike(h, run) /\ h.saver = "idle"
  BY <1>1, <1>2, RestsWell
<1>4. EditorOK(r) /\ Alike(r, run) /\ r.saver = "idle"
  BY <1>2, <1>3, Conflicts, AlikeTrans
<1>5. CloudOK(run.cloud) /\ StoredOK(run.cloud) /\ BlankOK(run) /\ SaverOK(run) /\ run.payload \in Texts
  BY <1>1 DEF EditorOK, CopyOK, CopyOf, BlankOK, SaverOK, Editor, Maybe
<1>6. CASE run' \in {h, r} /\ writes' = writes
  BY <1>1, <1>3, <1>4, <1>6, PlainMoves DEF QueueMoves
<1>7. CASE Persist(p, "saver") /\ run.cloud.id # None
  <2>1. PICK u : u = [text |-> run.payload, prev |-> run.cloud.ack]
    OBVIOUS
  <2>2. ~run.cloud.done
    BY <1>1, <1>5 DEF EditorOK, SaverOK
  <2>3. u \in Pending /\ u # None
    BY <1>1, <1>5, <1>7, <2>1, <2>2, NoneAssumption DEF Pending, CloudOK, Cloud, Maybe
  <2>4. PICK k : k = [run.cloud EXCEPT !.pending = u]
    OBVIOUS
  <2>5. /\ k \in Cloud /\ k.id = run.cloud.id /\ k.ack = run.cloud.ack /\ k.intent = run.cloud.intent /\ k.pending = u
        /\ k.done = run.cloud.done /\ k.deleted = run.cloud.deleted
    BY <1>1, <2>3, <2>4 DEF Cloud
  <2>6. f \in Editor /\ CopyOf(f) = CopyOf(run) /\ Alike(f, run) /\ f.cloud = run.cloud /\ f.saver = "pending"
    BY <1>1, <1>2, GoPlace DEF SaverPc
  <2>7. p \in Editor /\ Alike(p, run) /\ p.cloud = k /\ p.saver = "pending"
    BY <1>2, <2>1, <2>4, <2>5, <2>6 DEF Editor, Alike
  <2>8. CloudOK(p.cloud) /\ StoredOK(p.cloud) /\ BlankOK(p)
    BY <1>5, <1>7, <2>5, <2>7 DEF CloudOK, StoredOK, BlankOK, Alike
  <2>9. SaverOK(p)
    BY <1>1, <1>5, <2>3, <2>5, <2>7 DEF SaverOK, Tried, Alike
  <2>10. EditorOK(p) /\ run' = p /\ QueueMoves
    BY <1>1, <1>7, <2>7, <2>8, <2>9, CloudMoves, PersistSaves DEF Alike, By
  <2> QED BY <1>1, <2>7, <2>10, PlainMoves
<1>8. CASE Persist(q, "saver") /\ run.cloud.id = None
  <2>1. PICK k : k = [run.cloud EXCEPT !.intent = run.payload]
    OBVIOUS
  <2>2. /\ k \in Cloud /\ k.id = None /\ k.ack = run.cloud.ack /\ k.intent = run.payload /\ k.pending = run.cloud.pending
        /\ k.done = run.cloud.done /\ k.deleted = run.cloud.deleted
    BY <1>1, <1>5, <1>8, <2>1 DEF Cloud, Maybe
  <2>3. g \in Editor /\ CopyOf(g) = CopyOf(run) /\ Alike(g, run) /\ g.cloud = run.cloud /\ g.payload = run.payload /\ g.saver = "intent"
    BY <1>1, <1>2, GoPlace DEF SaverPc
  <2>4. /\ q \in Editor /\ q.slot = run.slot /\ q.segs = run.segs /\ q.journal = run.journal /\ q.stopped = run.stopped
        /\ q.op = run.op /\ q.cloud = k /\ q.saver = "intent" /\ q.payload = run.payload
    BY <1>2, <2>1, <2>2, <2>3 DEF Editor, Alike
  <2>5. run.segs # None
    BY <1>1, <1>5 DEF SaverOK
  <2>6. CloudOK(q.cloud) /\ StoredOK(q.cloud) /\ BlankOK(q)
    BY <1>5, <1>8, <2>2, <2>4, <2>5 DEF CloudOK, StoredOK, BlankOK
  <2>7. SaverOK(q)
    BY <1>1, <1>5, <2>2, <2>4, NameAssumption DEF SaverOK, Tried
  <2>8. EditorOK(q) /\ run' = q /\ QueueMoves /\ Saved("saver")
    BY <1>1, <1>8, <2>2, <2>4, <2>6, <2>7, CloudMoves, PersistSaves DEF By, Persist, Saved
  <2>9. CopiesOK'
    BY <1>1, <2>8, RestStays, QuietlyMoves DEF CopiesOK, RestOK
  <2>10. IntentStep
    BY <1>1, <1>5, <1>8, <2>2, <2>4, <2>8, NoneAssumption, NameAssumption DEF IntentStep, SaverKeeps, Knows, SaverOK, EditorOK
  <2> QED BY <2>9, <2>10
<1> QED BY <1>2, <1>6, <1>7, <1>8

LEMMA WithdrawnFields ==
  ASSUME NEW r \in Editor, NEW q, q = Withdrawn(r)
  PROVE  /\ q \in Editor /\ q.slot = r.slot /\ q.segs = r.segs /\ q.journal = r.journal /\ q.stopped = r.stopped /\ q.op = r.op
         /\ q.saver = r.saver /\ q.payload = r.payload
         /\ q.cloud.id = r.cloud.id /\ q.cloud.ack = r.cloud.ack /\ q.cloud.intent = None /\ q.cloud.pending = r.cloud.pending
         /\ q.cloud.done = r.cloud.done /\ q.cloud.deleted = r.cloud.deleted
<1>1. PICK c, k : c = r.cloud /\ k = [c EXCEPT !.intent = None]
  OBVIOUS
<1>2. /\ c \in Cloud /\ k \in Cloud /\ k.id = c.id /\ k.ack = c.ack /\ k.intent = None /\ k.pending = c.pending
      /\ k.done = c.done /\ k.deleted = c.deleted
  BY <1>1 DEF Editor, Cloud, Maybe
<1>3. q = [r EXCEPT !.cloud = k]
  BY <1>1 DEF Withdrawn
<1> QED BY <1>1, <1>2, <1>3 DEF Editor

\* A withdrawn intent, the saver at rest or in its loop.
LEMMA WithdrawnMoves ==
  ASSUME CopiesOK, run # None, NEW pc \in {"idle", "loop"}, pc = "loop" => run.saver = "created",
         NEW r \in Editor, CopyOf(r) = CopyOf(run), Alike(r, run), r.cloud = run.cloud, r.saver = pc,
         run.saver \in {"intent", "creating", "created"},
         Persist(Withdrawn(r), "saver"), UNCHANGED <<stash, late, mind, used, disk, cleaner, sent, seen>>
  PROVE  CopiesOK' /\ SaverKeeps /\ run'.saver = pc /\ run'.cloud.id = run.cloud.id
<1>1. EditorOK(run) /\ run \in Editor
  BY DEF CopiesOK, RunOK, EditorOK
<1>2. PICK q : q = Withdrawn(r)
  OBVIOUS
<1>3. /\ q \in Editor /\ q.slot = r.slot /\ q.segs = r.segs /\ q.journal = r.journal /\ q.stopped = r.stopped /\ q.op = r.op
      /\ q.saver = r.saver /\ q.payload = r.payload
      /\ q.cloud.id = r.cloud.id /\ q.cloud.ack = r.cloud.ack /\ q.cloud.intent = None /\ q.cloud.pending = r.cloud.pending
      /\ q.cloud.done = r.cloud.done /\ q.cloud.deleted = r.cloud.deleted
  BY <1>2, WithdrawnFields
<1>4. CloudOK(q.cloud) /\ StoredOK(q.cloud) /\ BlankOK(q)
  BY <1>1, <1>3 DEF EditorOK, CopyOK, CopyOf, CloudOK, StoredOK, BlankOK, Alike
<1>5. SaverOK(q)
  BY <1>1, <1>3 DEF EditorOK, SaverOK, Tried, Alike
<1>6. EditorOK(q)
  BY <1>1, <1>3, <1>4, <1>5, CloudMoves DEF Alike
<1>7. run' = q /\ QueueMoves
  BY <1>2, PersistSaves DEF By
<1>8. CopiesOK'
  BY <1>6, <1>7, RestStays, QuietlyMoves DEF CopiesOK, RestOK
<1>9. run.op \in {"idle", "begin"} /\ run' # None
  BY <1>1, <1>6, <1>7, NoneAssumption DEF EditorOK, SaverOK
<1> QED BY <1>3, <1>7, <1>8, <1>9 DEF SaverKeeps, Alike

\* The intent is saved; the create is sent next, or withdrawn.
LEMMA IntentSavedOK == ASSUME CopiesOK, IntentSaved
  PROVE  /\ CopiesOK' /\ SaverKeeps /\ UNCHANGED <<stash, late>> /\ run.saver = "intent" /\ Awaited("saver")
         /\ \/ run'.saver = "idle"
            \/ run'.saver = "creating" /\ writes' = writes
<1>1. /\ EditorOK(run) /\ run \in Editor /\ run.saver = "intent" /\ run # None /\ run.cloud \in Cloud /\ Awaited("saver")
      /\ UNCHANGED <<stash, late, mind, used, disk, cleaner, sent, seen>>
  BY DEF IntentSaved, SaverAt, EditorOK, CopiesOK, RunOK, Editor, QuietSave
<1>2. PICK h, g : h = Rest(run) /\ g = Go(run, "creating")
  OBVIOUS
<1>3. CASE Persist(Withdrawn(h), "saver")
  <2>1. h \in Editor /\ CopyOf(h) = CopyOf(run) /\ Alike(h, run) /\ h.cloud = run.cloud /\ h.saver = "idle"
    BY <1>1, <1>2, RestPlace
  <2> QED BY <1>1, <1>3, <2>1, WithdrawnMoves
<1>4. CASE run' = g /\ writes' = writes
  <2>1. g \in Editor /\ CopyOf(g) = CopyOf(run) /\ Alike(g, run) /\ g.cloud = run.cloud /\ g.payload = run.payload /\ g.saver = "creating"
    BY <1>1, <1>2, GoPlace DEF SaverPc
  <2>2. SaverOK(g)
    BY <1>1, <2>1 DEF EditorOK, SaverOK, Tried, Alike
  <2>3. EditorOK(g) /\ QueueMoves
    BY <1>1, <1>4, <2>1, <2>2, PlaceMoves DEF QueueMoves
  <2>4. CopiesOK'
    BY <1>1, <1>4, <2>3, RestStays, QuietlyMoves DEF CopiesOK, RestOK
  <2>5. SaverKeeps
    BY <1>1, <1>4, <2>1, <2>3, NoneAssumption DEF SaverKeeps, Alike, EditorOK, SaverOK
  <2> QED BY <1>1, <1>4, <2>1, <2>4, <2>5
<1> QED BY <1>2, <1>3, <1>4 DEF IntentSaved

LEMMA CreateRejectedOK == ASSUME CopiesOK, CreateRejected
  PROVE  CopiesOK' /\ SaverKeeps /\ UNCHANGED <<stash, late>> /\ run.saver = "creating" /\ run'.saver = "idle"
<1>1. /\ EditorOK(run) /\ run \in Editor /\ run.saver = "creating" /\ run # None
      /\ UNCHANGED <<stash, late, mind, used, disk, cleaner, sent, seen>>
  BY DEF CreateRejected, SaverAt, EditorOK, CopiesOK, RunOK, QuietSave
<1>2. PICK h : h = Rest(run)
  OBVIOUS
<1>3. h \in Editor /\ CopyOf(h) = CopyOf(run) /\ Alike(h, run) /\ h.cloud = run.cloud /\ h.saver = "idle"
  BY <1>1, <1>2, RestPlace
<1>4. Persist(Withdrawn(h), "saver")
  BY <1>2 DEF CreateRejected
<1> QED BY <1>1, <1>3, <1>4, WithdrawnMoves

LEMMA CreateRecordedOK == ASSUME CopiesOK, CreateRecorded PROVE CopiesOK' /\ SaverCalm
<1>1. /\ EditorOK(run) /\ run \in Editor /\ run.saver = "created" /\ run # None
      /\ UNCHANGED <<stash, late, mind, used, disk, cleaner, sent, seen>>
  BY DEF CreateRecorded, SaverAt, EditorOK, CopiesOK, RunOK, QuietSave
<1>2. PICK g : g = Go(run, "loop")
  OBVIOUS
<1>3. g \in Editor /\ CopyOf(g) = CopyOf(run) /\ Alike(g, run) /\ g.cloud = run.cloud /\ g.saver = "loop"
  BY <1>1, <1>2, GoPlace DEF SaverPc
<1>4. CopiesOK' /\ SaverKeeps /\ run'.saver = "loop" /\ run'.cloud.id = run.cloud.id
  BY <1>1, <1>2, <1>3, WithdrawnMoves DEF CreateRecorded
<1>5. run.cloud.id # None
  BY <1>1 DEF EditorOK, SaverOK
<1> QED BY <1>1, <1>4, <1>5 DEF SaverCalm, Knows

LEMMA CreateUnknownOK == ASSUME CopiesOK, CreateUnknown
  PROVE  /\ CopiesOK' /\ SaverKeeps /\ stash' = stash /\ run.saver = "creating" /\ Awaited("saver")
         /\ run'.saver = "idle" /\ Knows(run') /\ writes' = writes
         /\ \E t \in Texts : late' = late \cup {[id |-> None, text |-> t]}
<1>1. /\ EditorOK(run) /\ run \in Editor /\ run.saver = "creating" /\ run # None /\ Awaited("saver")
      /\ UNCHANGED <<stash, writes, mind, disk, cleaner, sent, seen>>
  BY DEF CreateUnknown, SaverAt, EditorOK, CopiesOK, RunOK, QuietSave
<1>2. PICK h : h = Rest(run) /\ run' = h
  BY DEF CreateUnknown
<1>3. EditorOK(h) /\ Alike(h, run) /\ h.cloud = run.cloud /\ h.saver = "idle"
  BY <1>1, <1>2, RestsWell
<1>4. run.payload \in Texts /\ run.cloud.intent # None /\ run.op \in {"idle", "begin"}
  BY <1>1 DEF EditorOK, SaverOK, Editor, Maybe
<1>5. used' \in [edits : 0..MaxEdits, faults : 0..MaxFaults]
  BY BoundAssumption DEF CreateUnknown, Fault, CopiesOK, RestOK
<1>6. late' = late \cup {[id |-> None, text |-> run.payload]} /\ late' \in SUBSET ([id : Ids \cup {None}, text : Texts])
  BY <1>4 DEF CreateUnknown, CopiesOK, RestOK
<1>7. RestOK'
  BY <1>1, <1>5, <1>6 DEF CopiesOK, RestOK, Exists, Created
<1>8. CopiesOK'
  BY <1>1, <1>2, <1>3, <1>7, QuietlyMoves DEF QueueMoves
<1>9. SaverKeeps
  BY <1>1, <1>2, <1>3, <1>4, NoneAssumption DEF SaverKeeps, QueueMoves, Alike, EditorOK
<1> QED BY <1>1, <1>2, <1>3, <1>4, <1>6, <1>8, <1>9 DEF Knows

\* What putting a text upstream does.
LEMMA PutGrows ==
  ASSUME RestOK, NEW d \in Ids, NEW t \in Texts, Put(d, t), Exists(d) \/ ~Created(d), sent' = sent
  PROVE  /\ Grows /\ stash' \in [Ids -> [now : Maybe, ever : SUBSET Texts]] /\ \A e \in Ids : Exists(e)' => Created(e)'
         /\ Created(d)' /\ t \in stash'[d].ever /\ \A e \in Ids : e # d => (Created(e)' <=> Created(e)) /\ (Exists(e)' <=> Exists(e))
<1>1. stash \in [Ids -> [now : Maybe, ever : SUBSET Texts]] /\ \A e \in Ids : Exists(e) => Created(e)
  BY DEF RestOK
<1>2. stash' = [stash EXCEPT ![d] = [now |-> t, ever |-> stash[d].ever \cup {t}]]
  BY <1>1 DEF Put
<1>3. PICK x : x = [now |-> t, ever |-> stash[d].ever \cup {t}]
  OBVIOUS
<1>4. x \in [now : Maybe, ever : SUBSET Texts] /\ x.now = t /\ x.ever = stash[d].ever \cup {t}
  BY <1>1, <1>3 DEF Maybe
<1>5. stash' \in [Ids -> [now : Maybe, ever : SUBSET Texts]] /\ stash'[d] = x /\ \A e \in Ids : e # d => stash'[e] = stash[e]
  BY <1>1, <1>2, <1>3, <1>4
<1> QED BY <1>1, <1>4, <1>5, NameAssumption DEF Grows, Created, Exists

LEMMA CreateAnsweredOK == ASSUME CopiesOK, CreateAnswered
  PROVE  /\ CopiesOK' /\ SaverKeeps /\ late' = late /\ run.saver = "creating" /\ Awaited("saver")
         /\ run'.saver = "created" /\ Knows(run')
         /\ \E d \in Ids : ~Created(d) /\ Created(d)' /\ \A e \in Ids \ {d} : Created(e)' => Created(e)
<1>1. /\ EditorOK(run) /\ run \in Editor /\ run.saver = "creating" /\ run # None /\ Awaited("saver") /\ run.cloud \in Cloud
      /\ UNCHANGED <<late, used, disk, cleaner, sent, seen>> /\ Confirmed(run.payload)
  BY DEF CreateAnswered, SaverAt, EditorOK, CopiesOK, RunOK, QuietSave, Editor
<1>2. PICK d \in Ids :
        /\ ~Created(d) /\ Put(d, run.payload)
        /\ Persist([Go(run, "created") EXCEPT !.cloud.id = d, !.cloud.ack = run.payload], "saver")
  BY DEF CreateAnswered
<1>3. run.payload \in Texts /\ run.cloud.id = None /\ run.op \in {"idle", "begin"} /\ ~run.stopped /\ ~Tried(run) /\ ~run.cloud.done
  BY <1>1 DEF EditorOK, SaverOK, Editor, Maybe
<1>4. /\ Grows /\ stash' \in [Ids -> [now : Maybe, ever : SUBSET Texts]] /\ \A e \in Ids : Exists(e)' => Created(e)'
      /\ Created(d)' /\ run.payload \in stash'[d].ever /\ \A e \in Ids : e # d => (Created(e)' <=> Created(e))
  BY <1>1, <1>2, <1>3, PutGrows DEF CopiesOK
<1>5. PICK g, k, q : /\ g = Go(run, "created") /\ k = [run.cloud EXCEPT !.id = d, !.ack = run.payload]
                     /\ q = [g EXCEPT !.cloud = k]
  OBVIOUS
<1>6. g \in Editor /\ CopyOf(g) = CopyOf(run) /\ Alike(g, run) /\ g.cloud = run.cloud /\ g.saver = "created"
  BY <1>1, <1>5, GoPlace DEF SaverPc
<1>7. /\ k \in Cloud /\ k.id = d /\ k.ack = run.payload /\ k.intent = run.cloud.intent /\ k.pending = run.cloud.pending
      /\ k.done = run.cloud.done /\ k.deleted = run.cloud.deleted
  BY <1>1, <1>3, <1>5 DEF Cloud, Maybe
<1>8. [g EXCEPT !.cloud.id = d, !.cloud.ack = run.payload] = q
  BY <1>5, <1>6 DEF Editor
<1>9. /\ q \in Editor /\ q.slot = run.slot /\ q.segs = run.segs /\ q.journal = run.journal /\ q.stopped = run.stopped
      /\ q.op = run.op /\ q.cloud = k /\ q.saver = "created"
  BY <1>5, <1>6, <1>7 DEF Editor, Alike
<1>10. run' = q /\ QueueMoves
  BY <1>2, <1>5, <1>8, PersistSaves DEF By
<1>11. StoredOK(run.cloud) /\ CloudOK(run.cloud) /\ run.segs # None /\ run.slot \notin Ids
  BY <1>1, <1>3, NameAssumption DEF EditorOK, CopyOK, CopyOf, SaverOK
<1>12. StoredOK(k)'
  BY <1>3, <1>4, <1>7, <1>11, NameAssumption DEF StoredOK
<1>13. CopyOK(CopyOf(q))'
  <2>1. PICK c : c = CopyOf(q)
    OBVIOUS
  <2>2. c.segs = run.segs /\ c.cloud = k /\ c \in Copy
    BY <1>9, <2>1 DEF CopyOf, Copy, Editor
  <2> QED BY <1>3, <1>7, <1>11, <1>12, <2>1, <2>2, NameAssumption DEF CopyOK, CloudOK, BlankOK
<1>14. SaverOK(q) /\ OpOK(q)
  BY <1>1, <1>3, <1>7, <1>9, NameAssumption DEF EditorOK, SaverOK, OpOK, Tried
<1>15. EditorOK(run)'
  BY <1>3, <1>7, <1>9, <1>10, <1>11, <1>13, <1>14 DEF EditorOK
<1>16. RestOK'
  BY <1>1, <1>4, ConfirmedType DEF CopiesOK, RestOK
<1>17. run' # None
  BY <1>9, <1>10, NoneAssumption
<1>18. CopiesOK'
  BY <1>1, <1>4, <1>10, <1>15, <1>16, <1>17, EditorMoves
<1>19. SaverKeeps /\ Knows(run')
  BY <1>1, <1>3, <1>7, <1>9, <1>10, <1>17, NameAssumption DEF SaverKeeps, Knows, Confirmed
<1> QED BY <1>1, <1>2, <1>4, <1>9, <1>10, <1>18, <1>19
-----------------------------------------------------------------------------
(* The publication.                                                        *)

\* What no step of the publication changes while the editor stays open.
OpKeeps ==
  /\ run # None /\ run' # None /\ QueueMoves /\ UNCHANGED <<stash, late, cleaner, used>>
  /\ run'.slot = run.slot /\ run'.segs = run.segs /\ run'.saver = run.saver
  /\ run'.cloud.id = run.cloud.id /\ run'.cloud.intent = run.cloud.intent

\* A step that neither sends nor archives.
OpCalm ==
  /\ OpKeeps /\ UNCHANGED <<disk, sent>> /\ run'.cloud.done = run.cloud.done
  /\ mind' = mind \/ mind' = Forgotten
  /\ UNCHANGED <<seen>> \/ seen' = [seen EXCEPT !.minted = @ + 1]

\* The editor under publication: the same cloud state.
LEMMA OpMoves ==
  ASSUME NEW r, EditorOK(r), NEW q \in Editor, q.slot = r.slot, q.segs = r.segs, q.cloud = r.cloud,
         q.saver = r.saver, q.payload = r.payload, r.stopped => q.stopped,
         SaverOK(q), OpOK(q)
  PROVE  EditorOK(q)
BY DEF EditorOK, CopyOf, CopyOK, Copy, Editor, BlankOK

LEMMA OpCalmMoves ==
  ASSUME CopiesOK, run # None, UNCHANGED <<stash, sent, disk, cleaner, late, used>>, QueueMoves,
         UNCHANGED <<seen>> \/ (seen.minted < MaxJournals /\ seen' = [seen EXCEPT !.minted = @ + 1]),
         mind' = mind \/ mind' = Forgotten,
         NEW q, run' = q, q \in Editor, q.slot = run.slot, q.segs = run.segs, q.cloud = run.cloud,
         q.saver = run.saver, q.payload = run.payload, run.stopped => q.stopped,
         SaverOK(q), OpOK(q)
  PROVE  CopiesOK' /\ OpCalm
<1>1. EditorOK(run)
  BY DEF CopiesOK, RunOK
<1>2. EditorOK(q)
  BY <1>1, OpMoves
<1>3. RestOK /\ mind \in [typed : Maybe, kept : BOOLEAN] /\ Forgotten \in [typed : Maybe, kept : BOOLEAN]
  BY DEF CopiesOK, RestOK, Forgotten, Maybe
<1>4. seen' \in [begun : BOOLEAN, listed : BOOLEAN, blind : BOOLEAN, finished : BOOLEAN, minted : 0..MaxJournals]
  BY <1>3, BoundAssumption DEF RestOK
<1>5. RestOK'
  BY <1>3, <1>4 DEF RestOK, Exists, Created
<1>6. CopiesOK'
  BY <1>2, <1>5, QuietlyMoves
<1>7. run' # None
  BY NoneAssumption
<1> QED BY <1>6, <1>7 DEF OpCalm, OpKeeps

LEMMA PublishOK == ASSUME CopiesOK, Publish
  PROVE  CopiesOK' /\ OpCalm /\ run'.journal = run.journal /\ run.op = "idle" /\ run'.op = "begin" /\ run'.stopped = run.stopped
         /\ UNCHANGED <<writes, mind, seen>>
<1>1. /\ EditorOK(run) /\ run \in Editor /\ run # None /\ run.op = "idle" /\ ~run.stopped /\ ~run.cloud.done
      /\ UNCHANGED <<stash, sent, disk, cleaner, seen, late, used, writes, mind>>
  BY DEF Publish, OpAt, EditorOK, CopiesOK, RunOK, QuietOp
<1>2. PICK g, q : g = Do(run, "begin") /\ q = [g EXCEPT !.publishing = TRUE] /\ run' = q
  BY DEF Publish
<1>3. /\ q \in Editor /\ q.slot = run.slot /\ q.segs = run.segs /\ q.journal = run.journal /\ q.cloud = run.cloud
      /\ q.stopped = run.stopped /\ q.payload = run.payload /\ q.saver = run.saver /\ q.op = "begin"
  <2>1. /\ g \in Editor /\ g.slot = run.slot /\ g.segs = run.segs /\ g.journal = run.journal /\ g.cloud = run.cloud
        /\ g.stopped = run.stopped /\ g.payload = run.payload /\ g.saver = run.saver /\ g.op = "begin"
    BY <1>1, <1>2, DoPlace DEF OpPc
  <2> QED BY <1>2, <2>1 DEF Editor
<1>4. SaverOK(q) /\ OpOK(q)
  BY <1>1, <1>3 DEF EditorOK, SaverOK, OpOK, Tried
<1> QED BY <1>1, <1>2, <1>3, <1>4, OpCalmMoves DEF QueueMoves

LEMMA PublishBeginsOK == ASSUME CopiesOK, PublishBegins
  PROVE  CopiesOK' /\ OpCalm /\ run'.journal = run.journal /\ run'.op = "prepare" /\ run'.stopped = run.stopped
         /\ UNCHANGED <<mind, seen>> /\ Saved("op")
<1>1. /\ EditorOK(run) /\ run \in Editor /\ run # None /\ run.op = "begin" /\ run.saver = "idle"
      /\ UNCHANGED <<stash, sent, disk, cleaner, seen, late, used, mind>>
  BY DEF PublishBegins, OpAt, EditorOK, CopiesOK, RunOK, QuietOp, SaverQuiet
<1>2. PICK q : q = Do(run, "prepare") /\ run' = q /\ QueueMoves /\ Saved("op")
  BY DEF PublishBegins, Persist, QueueMoves, Saved, By
<1>3. /\ q \in Editor /\ q.slot = run.slot /\ q.segs = run.segs /\ q.journal = run.journal /\ q.cloud = run.cloud
      /\ q.stopped = run.stopped /\ q.payload = run.payload /\ q.saver = run.saver /\ q.op = "prepare"
  BY <1>1, <1>2, DoPlace DEF OpPc
<1>4. SaverOK(q) /\ OpOK(q)
  BY <1>1, <1>3 DEF EditorOK, SaverOK, OpOK
<1> QED BY <1>1, <1>2, <1>3, <1>4, OpCalmMoves

LEMMA PrepareOK == ASSUME CopiesOK, Prepare
  PROVE  /\ CopiesOK' /\ OpCalm /\ run'.op = "checkpoint" /\ run'.stopped = run.stopped /\ mind' = mind /\ Saved("op")
         /\ run'.journal = run.journal \/ (run.journal = None /\ ~run'.journal.tried)
<1>1. /\ EditorOK(run) /\ run \in Editor /\ run # None /\ run.op = "prepare" /\ run.saver = "idle" /\ ~run.stopped
      /\ UNCHANGED <<stash, sent, disk, cleaner, late, used, mind>>
  BY DEF Prepare, OpAt, EditorOK, CopiesOK, RunOK, QuietOp, SaverOK, OpOK
<1>2. PICK g : g = Do(run, "checkpoint")
  OBVIOUS
<1>3. /\ g \in Editor /\ g.slot = run.slot /\ g.segs = run.segs /\ g.journal = run.journal /\ g.cloud = run.cloud
      /\ g.stopped = run.stopped /\ g.payload = run.payload /\ g.saver = run.saver /\ g.op = "checkpoint"
  BY <1>1, <1>2, DoPlace DEF OpPc
<1>4. CASE run.journal # None
  <2>1. run' = g /\ QueueMoves /\ Saved("op") /\ seen' = seen
    BY <1>2, <1>4 DEF Prepare, Persist, QueueMoves, Saved, By
  <2>2. SaverOK(g) /\ OpOK(g)
    BY <1>1, <1>3, <1>4 DEF EditorOK, SaverOK, OpOK
  <2> QED BY <1>1, <1>3, <2>1, <2>2, OpCalmMoves
<1>5. CASE run.journal = None
  <2>1. PICK j : j = [key |-> seen.minted + 1, tried |-> FALSE]
    OBVIOUS
  <2>2. seen.minted < MaxJournals /\ seen' = [seen EXCEPT !.minted = @ + 1] /\ Persist([g EXCEPT !.journal = j], "op")
    BY <1>2, <1>5, <2>1 DEF Prepare
  <2>3. j \in [key : 1..MaxJournals, tried : BOOLEAN] /\ ~j.tried
    BY <2>1, <2>2, BoundAssumption DEF CopiesOK, RestOK
  <2>4. j \in Journal /\ j # None
    BY <2>3, NoneAssumption DEF Journal
  <2>5. PICK q : q = [g EXCEPT !.journal = j]
    OBVIOUS
  <2>6. /\ q \in Editor /\ q.slot = run.slot /\ q.segs = run.segs /\ q.journal = j /\ q.cloud = run.cloud
        /\ q.stopped = run.stopped /\ q.payload = run.payload /\ q.saver = run.saver /\ q.op = "checkpoint"
    BY <1>3, <2>4, <2>5 DEF Editor
  <2>7. SaverOK(q) /\ OpOK(q)
    BY <1>1, <2>4, <2>6 DEF EditorOK, SaverOK, OpOK
  <2>8. run' = q /\ QueueMoves /\ Saved("op")
    BY <2>2, <2>5 DEF Persist, QueueMoves, Saved, By
  <2> QED BY <1>1, <1>5, <2>2, <2>3, <2>6, <2>7, <2>8, OpCalmMoves
<1> QED BY <1>4, <1>5

LEMMA CheckpointOK == ASSUME CopiesOK, Checkpoint
  PROVE  /\ CopiesOK' /\ OpCalm /\ run'.op = "send" /\ run'.stopped = run.stopped /\ Saved("op")
         /\ run.journal # None /\ run'.journal.key = run.journal.key /\ Tried(run') /\ mind' = Forgotten /\ seen' = seen
<1>1. /\ EditorOK(run) /\ run \in Editor /\ run # None /\ run.op = "checkpoint" /\ run.saver = "idle" /\ ~run.stopped
      /\ run.journal # None /\ mind' = Forgotten
      /\ UNCHANGED <<stash, sent, disk, cleaner, late, used, seen>>
  BY DEF Checkpoint, OpAt, EditorOK, CopiesOK, RunOK, QuietOp, SaverOK, OpOK
<1>2. PICK g, j, q : g = Do(run, "send") /\ j = [run.journal EXCEPT !.tried = TRUE] /\ q = [g EXCEPT !.journal = j]
  OBVIOUS
<1>3. run.journal \in [key : 1..MaxJournals, tried : BOOLEAN]
  BY <1>1 DEF Editor, Journal
<1>4. j \in [key : 1..MaxJournals, tried : BOOLEAN] /\ j.tried /\ j.key = run.journal.key
  BY <1>2, <1>3
<1>5. j \in Journal /\ j # None
  BY <1>4, NoneAssumption DEF Journal
<1>6. /\ g \in Editor /\ g.slot = run.slot /\ g.segs = run.segs /\ g.journal = run.journal /\ g.cloud = run.cloud
      /\ g.stopped = run.stopped /\ g.payload = run.payload /\ g.saver = run.saver /\ g.op = "send"
  BY <1>1, <1>2, DoPlace DEF OpPc
<1>7. /\ q \in Editor /\ q.slot = run.slot /\ q.segs = run.segs /\ q.journal = j /\ q.cloud = run.cloud
      /\ q.stopped = run.stopped /\ q.payload = run.payload /\ q.saver = run.saver /\ q.op = "send"
  BY <1>2, <1>5, <1>6 DEF Editor
<1>8. SaverOK(q) /\ OpOK(q)
  BY <1>1, <1>4, <1>5, <1>7 DEF EditorOK, SaverOK, OpOK
<1>9. [g EXCEPT !.journal.tried = TRUE] = q
  BY <1>2, <1>6
<1>10. run' = q /\ QueueMoves /\ Saved("op")
  BY <1>2, <1>9 DEF Checkpoint, Persist, QueueMoves, Saved, By
<1> QED BY <1>1, <1>4, <1>5, <1>7, <1>8, <1>10, OpCalmMoves DEF Tried

LEMMA PublishFailsOK == ASSUME CopiesOK, PublishFails
  PROVE  /\ CopiesOK' /\ OpCalm /\ run'.op = "idle" /\ run'.stopped = run.stopped /\ UNCHANGED <<writes, mind, seen>>
         /\ run'.journal = IF Tried(run) THEN run.journal ELSE None
<1>1. PICK pc \in {"prepare", "checkpoint", "send"} : OpAt(pc)
  BY DEF PublishFails
<1>2. /\ EditorOK(run) /\ run \in Editor /\ run # None /\ run.saver = "idle" /\ ~run.stopped
      /\ UNCHANGED <<stash, sent, disk, cleaner, late, used, seen, writes, mind>>
  BY <1>1 DEF PublishFails, OpAt, EditorOK, CopiesOK, RunOK, QuietOp, SaverOK, OpOK
<1>3. PICK g, j, q : /\ g = Do(run, "idle") /\ j = (IF Tried(run) THEN run.journal ELSE None)
                     /\ q = [g EXCEPT !.publishing = FALSE, !.journal = j]
  OBVIOUS
<1>4. /\ g \in Editor /\ g.slot = run.slot /\ g.segs = run.segs /\ g.journal = run.journal /\ g.cloud = run.cloud
      /\ g.stopped = run.stopped /\ g.payload = run.payload /\ g.saver = run.saver /\ g.op = "idle"
  BY <1>2, <1>3, DoPlace DEF OpPc
<1>5. j \in Journal
  BY <1>2, <1>3 DEF Editor, Journal
<1>6. /\ q \in Editor /\ q.slot = run.slot /\ q.segs = run.segs /\ q.journal = j /\ q.cloud = run.cloud
      /\ q.stopped = run.stopped /\ q.payload = run.payload /\ q.saver = run.saver /\ q.op = "idle"
  BY <1>3, <1>4, <1>5 DEF Editor
<1>7. SaverOK(q) /\ OpOK(q)
  BY <1>2, <1>6 DEF SaverOK, OpOK
<1>8. run' = q
  BY <1>3, <1>4 DEF PublishFails
<1> QED BY <1>2, <1>3, <1>6, <1>7, <1>8, OpCalmMoves DEF QueueMoves

LEMMA CompleteOK == ASSUME CopiesOK, Complete
  PROVE  /\ CopiesOK' /\ OpCalm /\ run'.op = "archive" /\ run'.stopped = run.stopped /\ UNCHANGED <<mind, seen>>
         /\ run'.journal = run.journal /\ Saved("op") /\ run.cloud.done
<1>1. /\ EditorOK(run) /\ run \in Editor /\ run # None /\ run.op = "complete" /\ run.saver = "idle" /\ run.cloud.done
      /\ UNCHANGED <<stash, sent, disk, cleaner, seen, late, used, mind>>
  BY DEF Complete, OpAt, EditorOK, OpOK, CopiesOK, RunOK, QuietOp, SaverQuiet
<1>2. PICK q : q = Do(run, "archive") /\ run' = q /\ QueueMoves /\ Saved("op")
  BY DEF Complete, Persist, QueueMoves, Saved, By
<1>3. /\ q \in Editor /\ q.slot = run.slot /\ q.segs = run.segs /\ q.journal = run.journal /\ q.cloud = run.cloud
      /\ q.stopped = run.stopped /\ q.payload = run.payload /\ q.saver = run.saver /\ q.op = "archive"
  BY <1>1, <1>2, DoPlace DEF OpPc
<1>4. SaverOK(q) /\ OpOK(q)
  BY <1>1, <1>3 DEF SaverOK, OpOK
<1> QED BY <1>1, <1>2, <1>3, <1>4, OpCalmMoves

LEMMA CloseStartsOK == ASSUME CopiesOK, CloseStarts
  PROVE  /\ CopiesOK' /\ OpCalm /\ UNCHANGED <<writes, seen>> /\ run.op = "idle" /\ ~run.stopped /\ run'.journal = run.journal
         /\ \/ run'.op = "close" /\ Confirmed(run.segs)
            \/ run'.op = "idle" /\ run'.stopped = run.stopped /\ mind' = mind
<1>1. /\ EditorOK(run) /\ run \in Editor /\ run # None /\ run.op = "idle" /\ run.saver = "idle" /\ ~run.stopped
      /\ UNCHANGED <<stash, sent, disk, cleaner, seen, late, used, writes>>
  BY DEF CloseStarts, OpAt, EditorOK, CopiesOK, RunOK, QuietOp, SaverQuiet
<1>2. PICK g, q, r : g = Do(run, "close") /\ q = [g EXCEPT !.stopped = TRUE] /\ r = [run EXCEPT !.conflict = TRUE]
  OBVIOUS
<1>3. (run' = q /\ Confirmed(run.segs)) \/ (run' = r /\ mind' = mind)
  BY <1>2 DEF CloseStarts
<1>4. /\ g \in Editor /\ g.slot = run.slot /\ g.segs = run.segs /\ g.journal = run.journal /\ g.cloud = run.cloud
      /\ g.stopped = run.stopped /\ g.payload = run.payload /\ g.saver = run.saver /\ g.op = "close"
  BY <1>1, <1>2, DoPlace DEF OpPc
<1>5. /\ q \in Editor /\ q.slot = run.slot /\ q.segs = run.segs /\ q.journal = run.journal /\ q.cloud = run.cloud
      /\ q.stopped /\ q.payload = run.payload /\ q.saver = run.saver /\ q.op = "close"
  BY <1>2, <1>4 DEF Editor
<1>6. /\ r \in Editor /\ r.slot = run.slot /\ r.segs = run.segs /\ r.journal = run.journal /\ r.cloud = run.cloud
      /\ r.stopped = run.stopped /\ r.payload = run.payload /\ r.saver = run.saver /\ r.op = "idle"
  BY <1>1, <1>2 DEF Editor
<1>7. SaverOK(q) /\ OpOK(q) /\ SaverOK(r) /\ OpOK(r)
  BY <1>1, <1>5, <1>6 DEF SaverOK, OpOK
<1>8. mind' = mind \/ mind' = Forgotten
  BY <1>3 DEF Confirmed
<1>9. CASE run' = q /\ Confirmed(run.segs)
  BY <1>1, <1>5, <1>7, <1>8, <1>9, OpCalmMoves DEF QueueMoves
<1>10. CASE run' = r /\ mind' = mind
  BY <1>1, <1>6, <1>7, <1>10, OpCalmMoves DEF QueueMoves
<1> QED BY <1>3, <1>9, <1>10

\* The post is sent: the copies that follow are completed, or tried.
LEMMA SendPostOK == ASSUME CopiesOK, SendPost
  PROVE  /\ CopiesOK' /\ OpKeeps /\ UNCHANGED <<disk, writes, mind>>
         /\ run.op = "send" /\ Awaited("op") /\ run'.journal = run.journal /\ run.journal # None /\ run.journal.tried
         /\ sent' = sent \cup {run.journal.key} /\ seen' = [seen EXCEPT !.blind = @ \/ Uncertain(run.cloud)]
         /\ run'.op \in {"complete", "idle"} /\ run.saver = "idle" /\ (run'.stopped => run'.cloud.done)
<1>1. /\ EditorOK(run) /\ run \in Editor /\ run # None /\ run.op = "send" /\ run.saver = "idle" /\ ~run.stopped /\ Awaited("op")
      /\ run.journal # None /\ run.journal.tried
      /\ UNCHANGED <<stash, disk, cleaner, late, used, writes, mind>>
      /\ sent' = sent \cup {run.journal.key} /\ seen' = [seen EXCEPT !.blind = @ \/ Uncertain(run.cloud)]
  BY DEF SendPost, OpAt, EditorOK, CopiesOK, RunOK, QuietOp, SaverOK, OpOK
<1>2. run.journal.key \in 1..MaxJournals /\ run.cloud \in Cloud
  BY <1>1 DEF Editor, Journal
<1>3. Grows /\ sent' # {}
  BY <1>1 DEF Grows, Exists, Created
<1>4. seen' \in [begun : BOOLEAN, listed : BOOLEAN, blind : BOOLEAN, finished : BOOLEAN, minted : 0..MaxJournals]
  <2>1. PICK b : b = (seen.blind \/ Uncertain(run.cloud))
    OBVIOUS
  <2>2. b \in BOOLEAN /\ seen' = [seen EXCEPT !.blind = b]
    BY <1>1, <2>1 DEF Uncertain, CopiesOK, RestOK
  <2> QED BY <2>2 DEF CopiesOK, RestOK
<1>5. RestOK'
  BY <1>1, <1>2, <1>4 DEF CopiesOK, RestOK, Exists, Created
<1>6. PICK g, k, q, h, r : /\ g = Do(run, "complete") /\ k = [run.cloud EXCEPT !.done = TRUE]
                           /\ q = [g EXCEPT !.stopped = TRUE, !.cloud = k]
                           /\ h = Do(run, "idle") /\ r = [h EXCEPT !.publishing = FALSE]
  OBVIOUS
<1>7. /\ g \in Editor /\ g.slot = run.slot /\ g.segs = run.segs /\ g.journal = run.journal /\ g.cloud = run.cloud
      /\ g.stopped = run.stopped /\ g.payload = run.payload /\ g.saver = run.saver /\ g.op = "complete"
  BY <1>1, <1>6, DoPlace DEF OpPc
<1>8. /\ h \in Editor /\ h.slot = run.slot /\ h.segs = run.segs /\ h.journal = run.journal /\ h.cloud = run.cloud
      /\ h.stopped = run.stopped /\ h.payload = run.payload /\ h.saver = run.saver /\ h.op = "idle"
  BY <1>1, <1>6, DoPlace DEF OpPc
<1>9. /\ k \in Cloud /\ k.id = run.cloud.id /\ k.ack = run.cloud.ack /\ k.intent = run.cloud.intent
      /\ k.pending = run.cloud.pending /\ k.done /\ k.deleted = run.cloud.deleted
  BY <1>2, <1>6 DEF Cloud
<1>10. /\ q \in Editor /\ q.slot = run.slot /\ q.segs = run.segs /\ q.journal = run.journal /\ q.cloud = k
       /\ q.stopped /\ q.payload = run.payload /\ q.saver = run.saver /\ q.op = "complete"
  BY <1>6, <1>7, <1>9 DEF Editor
<1>11. /\ r \in Editor /\ r.slot = run.slot /\ r.segs = run.segs /\ r.journal = run.journal /\ r.cloud = run.cloud
       /\ r.stopped = run.stopped /\ r.payload = run.payload /\ r.saver = run.saver /\ r.op = "idle"
  BY <1>6, <1>8 DEF Editor
<1>12. run' \in {q, r}
  BY <1>6, <1>7 DEF SendPost
<1>13. CASE run' = q
  <2>1. CloudOK(run.cloud) /\ StoredOK(run.cloud)
    BY <1>1 DEF EditorOK, CopyOK, CopyOf
  <2>2. CloudOK(k) /\ StoredOK(k)'
    BY <1>1, <1>3, <1>9, <2>1 DEF CloudOK, StoredOK, Created, Exists
  <2>3. PICK c : c = CopyOf(q)
    OBVIOUS
  <2>4. c \in Copy /\ c.cloud = k
    BY <1>10, <2>3 DEF Editor, Copy, CopyOf
  <2>5. CopyOK(c)'
    BY <1>9, <2>2, <2>4 DEF CopyOK, BlankOK
  <2>6. SaverOK(q) /\ OpOK(q) /\ (q.slot \in Ids => q.cloud.id = q.slot)
    BY <1>1, <1>9, <1>10 DEF SaverOK, OpOK, EditorOK
  <2>7. EditorOK(run)'
    BY <1>10, <1>13, <2>3, <2>5, <2>6 DEF EditorOK
  <2>8. run' # None
    BY <1>10, <1>13, NoneAssumption
  <2>9. CopiesOK'
    BY <1>1, <1>3, <1>5, <2>7, <2>8, EditorMoves DEF QueueMoves
  <2>10. OpKeeps
    BY <1>1, <1>9, <1>10, <1>13, <2>8 DEF OpKeeps, QueueMoves
  <2> QED BY <1>1, <1>9, <1>10, <1>13, <2>9, <2>10
<1>14. CASE run' = r
  <2>1. SaverOK(r) /\ OpOK(r)
    BY <1>1, <1>11 DEF SaverOK, OpOK
  <2>2. EditorOK(r)
    BY <1>1, <1>11, <2>1, OpMoves
  <2>3. EditorOK(run)'
    BY <1>3, <1>14, <2>2, EditorStays
  <2>4. run' # None
    BY <1>11, <1>14, NoneAssumption
  <2>5. CopiesOK'
    BY <1>1, <1>3, <1>5, <2>3, <2>4, EditorMoves DEF QueueMoves
  <2>6. OpKeeps
    BY <1>1, <1>11, <1>14, <2>4 DEF OpKeeps, QueueMoves
  <2> QED BY <1>1, <1>11, <1>14, <2>5, <2>6
<1> QED BY <1>12, <1>13, <1>14

\* A local copy is settled: one of a completed composition, or none.
Settles(k, c) ==
  /\ disk' = [disk EXCEPT ![k] = c] /\ k \in Slots
  /\ c = None => k \in {"new", "cleanup"}
  /\ c # None => c \in Copy /\ c.cloud.done /\ Fits(k, c)
  /\ c # None /\ k = "new" => disk["new"] # None /\ (Knows(disk["new"]) => Knows(c))

LEMMA SettleMoves ==
  ASSUME CopiesOK, Grows, RestOK', writes' = writes,
         disk' = disk \/ \E k, c : Settles(k, c) /\ (c # None => CopyOK(c)'),
         run' # None => EditorOK(run)', cleaner' # None => CleanerOK(cleaner)'
  PROVE  CopiesOK'
<1>1. DiskOK'
  <2>1. CASE disk' = disk
    BY <2>1, DiskStays DEF CopiesOK
  <2>2. ASSUME NEW k, NEW c, Settles(k, c), c # None => CopyOK(c)' PROVE DiskOK'
    BY <2>2, DiskMoves DEF CopiesOK, Settles
  <2> QED BY <2>1, <2>2
<1>2. WritesOK'
  BY WritesStay DEF CopiesOK
<1> QED BY <1>1, <1>2 DEF CopiesOK, RunOK, CleanOK

LEMMA EditorKeeps ==
  ASSUME CopiesOK, Grows, run' = run, run' # None PROVE EditorOK(run)'
<1>1. PICK r : r = run
  OBVIOUS
<1> QED BY <1>1, EditorStays DEF CopiesOK, RunOK

LEMMA CleanerKeeps ==
  ASSUME CopiesOK, Grows, cleaner' = cleaner, cleaner' # None PROVE CleanerOK(cleaner)'
<1>1. PICK r : r = cleaner
  OBVIOUS
<1> QED BY <1>1, CleanerStays DEF CopiesOK, CleanOK

ArchiveStep ==
  /\ run # None /\ run.cloud.done
  /\ UNCHANGED <<stash, late, cleaner, used, sent, mind, seen, writes>>
  /\ \/ run' = None
     \/ /\ run' # None /\ run'.slot = run.slot /\ run'.saver = run.saver /\ run'.stopped
        /\ CopyOf(run') = CopyOf(run) /\ run'.op \notin {"send", "close", "closed"}
  /\ \/ disk' = disk
     \/ \E k, c : Settles(k, c) /\ (k = "cleanup" => c = CopyOf(run))

LEMMA ArchiveOK == ASSUME CopiesOK, Archive PROVE CopiesOK' /\ ArchiveStep
<1>1. run # None /\ run.op \in {"archive", "tombstone", "retire", "free"} /\ UNCHANGED <<stash, late, cleaner, used, sent, mind, seen, writes>>
  BY DEF Archive, OpAt, QuietOp
<1>2. EditorOK(run) /\ run \in Editor /\ run.cloud.done /\ run.stopped /\ run.cloud \in Cloud /\ run.cloud.id \in Ids \cup {None}
  BY <1>1 DEF EditorOK, OpOK, CopiesOK, RunOK, Editor, Cloud
<1>3. PICK u : u = CopyOf(run)
  OBVIOUS
<1>4. CopyOK(u) /\ u \in Copy /\ u.cloud = run.cloud
  BY <1>2, <1>3 DEF EditorOK, CopyOK, CopyOf
<1>5. Grows
  BY <1>1 DEF Grows, Exists, Created
<1>6. RestOK'
  BY <1>1 DEF CopiesOK, RestOK, Exists, Created
<1>7. CopyOK(u)'
  BY <1>4, <1>5, CopyStays
<1>8. ASSUME NEW pc \in {"tombstone", "retire", "free"}, run' = Do(run, pc)
      PROVE  /\ run' # None /\ run'.slot = run.slot /\ run'.saver = run.saver /\ run'.stopped
             /\ CopyOf(run') = CopyOf(run) /\ run'.op \notin {"send", "close", "closed"} /\ EditorOK(run)'
  <2>1. PICK q : q = Do(run, pc)
    OBVIOUS
  <2>2. /\ q \in Editor /\ CopyOf(q) = CopyOf(run) /\ q.slot = run.slot /\ q.segs = run.segs /\ q.cloud = run.cloud /\ q.stopped
        /\ q.saver = run.saver /\ q.payload = run.payload /\ q.op = pc
    BY <1>2, <2>1, DoPlace DEF OpPc
  <2>3. SaverOK(q) /\ OpOK(q)
    BY <1>1, <1>2, <2>2 DEF SaverOK, OpOK, EditorOK
  <2>4. EditorOK(q)
    BY <1>2, <2>2, <2>3, OpMoves
  <2>5. EditorOK(run)'
    BY <1>5, <1>8, <2>1, <2>4, EditorStays
  <2> QED BY <1>8, <2>1, <2>2, <2>5, NoneAssumption
<1>9. ASSUME /\ disk' = disk \/ \E k, c : Settles(k, c) /\ (k = "cleanup" => c = CopyOf(run)) /\ (c # None => CopyOK(c)'),
             run' = None \/ \E pc \in {"tombstone", "retire", "free"} : run' = Do(run, pc)
      PROVE  CopiesOK' /\ ArchiveStep
  <2>1. run' # None => EditorOK(run)'
    BY <1>8, <1>9
  <2>2. cleaner' # None => CleanerOK(cleaner)'
    BY <1>1, <1>5, CleanerKeeps
  <2>3. CopiesOK'
    BY <1>1, <1>5, <1>6, <1>9, <2>1, <2>2, SettleMoves
  <2>4. run' # None => /\ run'.slot = run.slot /\ run'.saver = run.saver /\ run'.stopped
                       /\ CopyOf(run') = CopyOf(run) /\ run'.op \notin {"send", "close", "closed"}
    BY <1>8, <1>9
  <2> QED BY <1>1, <1>2, <1>9, <2>3, <2>4 DEF ArchiveStep
<1>10. CASE OpAt("archive") /\ SaveAt("cleanup", CopyOf(run)) /\ run' = Do(run, "tombstone")
  <2>1. Settles("cleanup", u)
    BY <1>2, <1>3, <1>4, <1>10, NameAssumption DEF Settles, SaveAt, Slots, Fits
  <2> QED BY <1>3, <1>7, <1>9, <1>10, <2>1
<1>11. CASE /\ OpAt("tombstone") /\ run' = Do(run, "retire")
            /\ IF run.cloud.id = None THEN UNCHANGED disk ELSE SaveAt(run.cloud.id, CopyOf(run))
  <2>1. ASSUME run.cloud.id # None PROVE Settles(run.cloud.id, u) /\ run.cloud.id # "cleanup"
    BY <1>2, <1>3, <1>4, <1>11, <2>1, NameAssumption, NoneAssumption DEF Settles, SaveAt, Slots, Fits
  <2>2. CASE run.cloud.id # None
    BY <1>7, <1>9, <1>11, <2>1, <2>2
  <2> QED BY <1>9, <1>11, <2>2
<1>12. ASSUME NEW w, w = [disk["new"] EXCEPT !.cloud.done = TRUE], disk["new"] # None PROVE CopyOK(w)' /\ w.cloud.done /\ (Knows(disk["new"]) => Knows(w))
  <2>1. PICK o, k : o = disk["new"] /\ k = [o.cloud EXCEPT !.done = TRUE]
    OBVIOUS
  <2>2. CopyOK(o)
    BY <1>12, <2>1 DEF CopiesOK, DiskOK, Slots
  <2>3. /\ o \in Copy /\ o.cloud \in Cloud /\ CloudOK(o.cloud) /\ StoredOK(o.cloud)
    BY <2>2 DEF CopyOK, Copy
  <2>4. /\ k \in Cloud /\ k.id = o.cloud.id /\ k.ack = o.cloud.ack /\ k.intent = o.cloud.intent
        /\ k.pending = o.cloud.pending /\ k.done /\ k.deleted = o.cloud.deleted
    BY <2>1, <2>3 DEF Cloud
  <2>5. w = [o EXCEPT !.cloud = k]
    BY <1>12, <2>1
  <2>6. w \in Copy /\ w.cloud = k
    BY <2>3, <2>4, <2>5 DEF Copy
  <2>7. sent # {}
    BY <1>2 DEF EditorOK, CopyOK, CopyOf, StoredOK
  <2>8. CloudOK(w.cloud) /\ StoredOK(w.cloud) /\ BlankOK(w)
    BY <2>3, <2>4, <2>6, <2>7 DEF CloudOK, StoredOK, BlankOK
  <2>9. CopyOK(w)
    BY <2>6, <2>8 DEF CopyOK
  <2> QED BY <1>5, <2>1, <2>4, <2>6, <2>9, CopyStays DEF Knows
<1>13. CASE /\ OpAt("retire") /\ run' = Do(run, "free")
            /\ IF run.slot # "new" /\ Leftover(run.cloud.id)
                 THEN SaveAt("new", [disk["new"] EXCEPT !.cloud.done = TRUE]) ELSE UNCHANGED disk
  <2>1. PICK w : w = [disk["new"] EXCEPT !.cloud.done = TRUE]
    OBVIOUS
  <2>2. CASE run.slot # "new" /\ Leftover(run.cloud.id)
    <3>1. CopyOK(w)' /\ w.cloud.done /\ disk["new"] # None /\ (Knows(disk["new"]) => Knows(w))
      BY <1>12, <2>1, <2>2 DEF Leftover
    <3>2. w \in Copy /\ w # None
      BY <3>1, NoneAssumption DEF CopyOK
    <3>3. Settles("new", w)
      BY <1>13, <2>1, <2>2, <3>1, <3>2, NameAssumption DEF Settles, SaveAt, Slots, Fits
    <3> QED BY <1>9, <1>13, <3>1, <3>3
  <2> QED BY <1>9, <1>13, <2>2
<1>14. CASE /\ OpAt("free") /\ run' = None
            /\ IF run.slot = "new" \/ Leftover(run.cloud.id) THEN SaveAt("new", None) ELSE UNCHANGED disk
  <2>1. CASE disk' # disk
    <3>1. Settles("new", None)
      BY <1>14, <2>1 DEF Settles, SaveAt, Slots
    <3> QED BY <1>9, <1>14, <3>1
  <2> QED BY <1>9, <1>14, <2>1
<1> QED BY <1>10, <1>11, <1>13, <1>14 DEF Archive

LEMMA CloseMirrorsOK == ASSUME CopiesOK, CloseMirrors
  PROVE  /\ CopiesOK' /\ OpKeeps /\ UNCHANGED <<writes, sent, mind, seen>>
         /\ run.op = "close" /\ run'.op = "closed" /\ CopyOf(run') = CopyOf(run) /\ run'.stopped
         /\ \/ disk' = disk
            \/ run.cloud.id \in Ids /\ run.cloud.id # run.slot /\ disk' = [disk EXCEPT ![run.cloud.id] = CopyOf(run)]
<1>1. run # None /\ run.op = "close" /\ UNCHANGED <<stash, late, cleaner, used, sent, mind, seen, writes>>
  BY DEF CloseMirrors, OpAt, QuietOp
<1>2. EditorOK(run) /\ run \in Editor /\ run.stopped /\ run.cloud.id \in Ids \cup {None}
  BY <1>1 DEF EditorOK, OpOK, CopiesOK, RunOK, Editor, Cloud
<1>3. PICK u, q : u = CopyOf(run) /\ q = Do(run, "closed")
  OBVIOUS
<1>4. CopyOK(u) /\ u.cloud = run.cloud
  BY <1>2, <1>3 DEF EditorOK, CopyOf
<1>5. Grows /\ RestOK'
  BY <1>1 DEF Grows, Exists, Created, CopiesOK, RestOK
<1>6. /\ q \in Editor /\ CopyOf(q) = CopyOf(run) /\ q.slot = run.slot /\ q.segs = run.segs /\ q.cloud = run.cloud
      /\ q.stopped /\ q.payload = run.payload /\ q.saver = run.saver /\ q.op = "closed"
  BY <1>2, <1>3, DoPlace DEF OpPc
<1>7. SaverOK(q) /\ OpOK(q)
  BY <1>2, <1>6 DEF SaverOK, OpOK, EditorOK
<1>8. EditorOK(q) /\ run' = q /\ run' # None
  BY <1>2, <1>3, <1>6, <1>7, OpMoves, NoneAssumption DEF CloseMirrors
<1>9. EditorOK(run)'
  BY <1>5, <1>8, EditorStays
<1>10. /\ \/ disk' = disk
          \/ run.cloud.id \in Ids /\ run.cloud.id # run.slot /\ disk' = [disk EXCEPT ![run.cloud.id] = CopyOf(run)]
  BY <1>2 DEF CloseMirrors, SaveAt
<1>11. DiskOK'
  <2>1. CopyOK(u)'
    BY <1>4, <1>5, CopyStays
  <2>2. ASSUME run.cloud.id \in Ids PROVE run.cloud.id \in Slots /\ Fits(run.cloud.id, u)
    BY <1>4, <2>2, NameAssumption DEF Slots, Fits
  <2> QED BY <1>3, <1>5, <1>10, <2>1, <2>2, DiskStays, DiskMoves DEF CopiesOK
<1>12. WritesOK' /\ (cleaner' # None => CleanerOK(cleaner)')
  BY <1>1, <1>5, WritesStay, CleanerKeeps DEF CopiesOK
<1> QED BY <1>1, <1>5, <1>6, <1>8, <1>9, <1>10, <1>11, <1>12 DEF CopiesOK, RunOK, CleanOK, OpKeeps, QueueMoves

\* The editor goes.
ClosedStep ==
  /\ run # None /\ run' = None /\ UNCHANGED <<stash, late, cleaner, used, sent, mind, seen, writes>>
  /\ disk' = disk \/ disk' = [disk EXCEPT !["new"] = None]

LEMMA ClosesOK == ASSUME CopiesOK, CloseFrees \/ CloseLocked
  PROVE  /\ CopiesOK' /\ ClosedStep
         /\ disk' # disk => run.slot = "new" /\ run.op = "closed"
         /\ run.op # "closed" => run.op = "idle" /\ (Tried(run) \/ run.cloud.done)
<1>1. ClosedStep
  BY DEF ClosedStep, CloseFrees, CloseLocked, OpAt, QuietOp, SaveAt
<1>2. Grows /\ RestOK'
  BY <1>1 DEF ClosedStep, Grows, Exists, Created, CopiesOK, RestOK
<1>3. DiskOK'
  <2>1. "new" \in Slots
    BY DEF Slots
  <2> QED BY <1>1, <1>2, <2>1, DiskStays, DiskMoves DEF CopiesOK, ClosedStep
<1>4. WritesOK' /\ (cleaner' # None => CleanerOK(cleaner)')
  BY <1>1, <1>2, WritesStay, CleanerKeeps DEF CopiesOK, ClosedStep
<1>5. CopiesOK'
  BY <1>1, <1>2, <1>3, <1>4 DEF CopiesOK, RunOK, CleanOK, ClosedStep
<1> QED BY <1>1, <1>5 DEF CloseFrees, CloseLocked, OpAt
-----------------------------------------------------------------------------
(* Opening and editing.                                                    *)

EditStep(t) ==
  /\ run # None /\ run' # None /\ ~Tried(run) /\ run.op \in {"idle", "close"} /\ t # run.segs
  /\ run'.segs = t /\ run'.slot = run.slot /\ run'.journal = run.journal /\ run'.cloud = run.cloud
  /\ run'.stopped = run.stopped /\ run'.saver = run.saver /\ run'.op = run.op
  /\ UNCHANGED <<stash, late, disk, cleaner, sent, seen>>
  /\ \/ run.stopped /\ UNCHANGED <<writes, mind>>
     \/ ~run.stopped /\ Saved("edit") /\ mind' = [typed |-> t, kept |-> FALSE]

LEMMA EditOK == ASSUME CopiesOK, NEW t \in Texts, Edit(t) PROVE CopiesOK' /\ EditStep(t)
<1>1. EditorOK(run) /\ run \in Editor /\ run # None
  BY DEF Edit, EditorOK, CopiesOK, RunOK
<1>2. PICK q : q = [run EXCEPT !.segs = t]
  OBVIOUS
<1>3. /\ q \in Editor /\ q.segs = t /\ q.slot = run.slot /\ q.journal = run.journal /\ q.cloud = run.cloud
      /\ q.stopped = run.stopped /\ q.saver = run.saver /\ q.op = run.op /\ q.payload = run.payload
  BY <1>1, <1>2 DEF Editor, Maybe
<1>4. EditorOK(q)
  <2>1. SaverOK(q) /\ OpOK(q)
    BY <1>1, <1>3, NameAssumption DEF EditorOK, SaverOK, OpOK, Tried
  <2>2. PICK c : c = CopyOf(q)
    OBVIOUS
  <2>3. c \in Copy /\ c.cloud = run.cloud /\ c.segs = t
    BY <1>3, <2>2 DEF CopyOf, Copy, Editor
  <2>4. CopyOK(c)
    BY <1>1, <2>3, NameAssumption DEF EditorOK, CopyOK, CopyOf, BlankOK
  <2> QED BY <1>1, <1>3, <2>1, <2>2, <2>4 DEF EditorOK
<1>5. /\ run' = q /\ UNCHANGED <<stash, late, disk, cleaner, sent, seen>>
      /\ \/ run.stopped /\ UNCHANGED <<writes, mind>>
         \/ ~run.stopped /\ Saved("edit") /\ mind' = [typed |-> t, kept |-> FALSE]
  BY <1>2 DEF Edit, Persist, Saved
<1>6. RestOK'
  <2>1. used' \in [edits : 0..MaxEdits, faults : 0..MaxFaults]
    BY BoundAssumption DEF CopiesOK, RestOK, Edit
  <2>2. mind' \in [typed : Maybe, kept : BOOLEAN]
    <3>1. mind \in [typed : Maybe, kept : BOOLEAN]
      BY DEF CopiesOK, RestOK
    <3>2. [typed |-> t, kept |-> FALSE] \in [typed : Maybe, kept : BOOLEAN]
      BY DEF Maybe
    <3> QED BY <1>5, <3>1, <3>2
  <2> QED BY <1>5, <2>1, <2>2 DEF CopiesOK, RestOK, Exists, Created
<1>7. QueueMoves
  BY <1>5 DEF QueueMoves, By
<1>8. CopiesOK'
  BY <1>4, <1>5, <1>6, <1>7, QuietlyMoves
<1>9. run' # None
  BY <1>3, <1>5, NoneAssumption
<1> QED BY <1>3, <1>5, <1>8, <1>9 DEF Edit, EditStep

LEMMA OpenedFields ==
  ASSUME NEW k \in {"new"} \cup Ids, NEW c \in Copy, NEW q, q = Opened(k, c)
  PROVE  /\ q \in Editor /\ q.slot = k /\ q.segs = c.segs /\ q.journal = c.journal /\ q.cloud = c.cloud
         /\ q.stopped = c.cloud.done /\ q.saver = "idle" /\ q.op = "idle"
BY DEF Opened, Editor, Copy, Cloud, SaverPc, OpPc, Maybe

\* An idle editor opened from a sound copy is sound.
LEMMA OpensSound ==
  ASSUME NEW q \in Editor, NEW c, CopyOK(c), q.cloud.done => q.stopped, q.slot \in Ids => q.cloud.id = q.slot,
         q.segs = c.segs /\ q.journal = c.journal /\ q.cloud = c.cloud, q.saver = "idle",
         q.op = "idle" \/ (q.op = "archive" /\ q.cloud.done)
  PROVE  EditorOK(q)
<1>1. SaverOK(q) /\ OpOK(q)
  BY DEF SaverOK, OpOK
<1>2. PICK u : u = CopyOf(q)
  OBVIOUS
<1>3. u \in Copy /\ u.segs = c.segs /\ u.cloud = c.cloud
  BY <1>2 DEF CopyOf, Copy, Editor
<1>4. CopyOK(u)
  BY <1>3 DEF CopyOK, BlankOK
<1> QED BY <1>1, <1>2, <1>4 DEF EditorOK

NewPostStep ==
  /\ run = None /\ writes = <<>> /\ run' # None /\ (seen.listed => LeftoverReopened)
  /\ UNCHANGED <<stash, late, disk, cleaner, sent, mind, used>>
  /\ run'.slot = "new" /\ run'.saver = "idle" /\ run'.op \in {"idle", "archive"} /\ QueueMoves
  /\ ~run'.stopped => Saved("edit")
  /\ run'.stopped = run'.cloud.done
  /\ \/ /\ disk["new"] = None /\ ~seen.begun /\ seen' = [seen EXCEPT !.begun = TRUE]
        /\ CopyOf(run') = [segs |-> None, journal |-> None, cloud |-> NoCloud]
     \/ disk["new"] # None /\ seen' = seen /\ run'.segs = disk["new"].segs /\ run'.journal = disk["new"].journal /\ run'.cloud = disk["new"].cloud

LEMMA OpenNewPostOK == ASSUME CopiesOK, OpenNewPost PROVE CopiesOK' /\ NewPostStep
<1>1. run = None /\ writes = <<>> /\ (seen.listed => LeftoverReopened) /\ UNCHANGED <<stash, late, disk, cleaner, sent, mind, used>>
  BY DEF OpenNewPost
<1>2. CASE disk["new"] = None
  <2>1. PICK c, q : c = [segs |-> None, journal |-> None, cloud |-> NoCloud] /\ q = Opened("new", c)
    OBVIOUS
  <2>2. /\ NoCloud \in Cloud /\ NoCloud.id = None /\ NoCloud.ack = None /\ NoCloud.pending = None /\ ~NoCloud.deleted
        /\ ~NoCloud.done /\ NoCloud.intent = None
    BY DEF NoCloud, Cloud, Maybe, Pending
  <2>3. c \in Copy /\ c.segs = None /\ c.journal = None /\ c.cloud = NoCloud
    BY <2>1, <2>2 DEF Copy, Maybe, Journal
  <2>4. CopyOK(c)
    BY <2>2, <2>3 DEF CopyOK, CloudOK, StoredOK, BlankOK
  <2>5. /\ q \in Editor /\ q.slot = "new" /\ q.segs = c.segs /\ q.journal = c.journal /\ q.cloud = c.cloud
        /\ q.stopped = c.cloud.done /\ q.saver = "idle" /\ q.op = "idle"
    BY <2>1, <2>3, OpenedFields
  <2>6. EditorOK(q)
    BY <2>3, <2>4, <2>5, NameAssumption, OpensSound
  <2>7. ~seen.begun /\ seen' = [seen EXCEPT !.begun = TRUE] /\ run' = q /\ Saved("edit") /\ QueueMoves
    BY <1>2, <2>1 DEF OpenNewPost, Persist, Saved, QueueMoves, By
  <2>8. RestOK'
    BY <1>1, <2>7 DEF CopiesOK, RestOK, Exists, Created
  <2>9. CopiesOK'
    BY <1>1, <2>6, <2>7, <2>8, QuietlyMoves
  <2>10. run' # None /\ CopyOf(run') = c
    BY <2>1, <2>3, <2>5, <2>7, NoneAssumption DEF CopyOf
  <2> QED BY <1>1, <1>2, <2>1, <2>5, <2>7, <2>9, <2>10 DEF NewPostStep
<1>3. CASE disk["new"] # None
  <2>1. PICK c, q, r : c = disk["new"] /\ q = Opened("new", c) /\ r = [q EXCEPT !.op = "archive"]
    OBVIOUS
  <2>2. CopyOK(c) /\ c \in Copy
    BY <1>3, <2>1 DEF CopiesOK, DiskOK, Slots, CopyOK
  <2>3. /\ q \in Editor /\ q.slot = "new" /\ q.segs = c.segs /\ q.journal = c.journal /\ q.cloud = c.cloud
        /\ q.stopped = c.cloud.done /\ q.saver = "idle" /\ q.op = "idle"
    BY <2>1, <2>2, OpenedFields
  <2>4. /\ r \in Editor /\ r.slot = "new" /\ r.segs = c.segs /\ r.journal = c.journal /\ r.cloud = c.cloud
        /\ r.stopped = c.cloud.done /\ r.saver = "idle" /\ r.op = "archive"
    BY <2>1, <2>3 DEF Editor, OpPc
  <2>5. EditorOK(q)
    BY <2>2, <2>3, NameAssumption, OpensSound
  <2>6. c.cloud.done => EditorOK(r)
    BY <2>2, <2>4, NameAssumption, OpensSound
  <2>7. seen' = seen /\ \/ c.cloud.done /\ run' = r /\ writes' = writes
                        \/ ~c.cloud.done /\ run' = q /\ Saved("edit")
    BY <1>3, <2>1, <2>3 DEF OpenNewPost, Persist, Saved
  <2>8. RestOK' /\ QueueMoves
    BY <1>1, <2>7 DEF CopiesOK, RestOK, Exists, Created, QueueMoves, By
  <2>9. CopiesOK'
    BY <1>1, <2>5, <2>6, <2>7, <2>8, QuietlyMoves
  <2>10. run' # None
    BY <2>3, <2>4, <2>7, NoneAssumption
  <2>11. /\ run'.slot = "new" /\ run'.saver = "idle" /\ run'.op \in {"idle", "archive"} /\ run'.stopped = run'.cloud.done
         /\ run'.segs = c.segs /\ run'.journal = c.journal /\ run'.cloud = c.cloud /\ (~run'.stopped => Saved("edit"))
    BY <2>3, <2>4, <2>7
  <2> QED BY <1>1, <1>3, <2>1, <2>7, <2>8, <2>9, <2>10, <2>11 DEF NewPostStep
<1> QED BY <1>2, <1>3

ListedStep(d) ==
  /\ run = None /\ writes = <<>> /\ run' # None /\ Created(d)
  /\ UNCHANGED <<stash, late, disk, cleaner, sent, used>>
  /\ seen' = [seen EXCEPT !.listed = TRUE]
  /\ run'.slot = d /\ run'.cloud.id = d /\ run'.saver = "idle" /\ run'.op = "idle" /\ QueueMoves /\ Saved("edit")
  /\ run'.stopped = run'.cloud.done
  /\ disk[d] # None =>
       /\ run'.cloud.done = disk[d].cloud.done
       /\ ~disk[d].cloud.done => /\ run'.journal = disk[d].journal
                                 /\ run'.segs = disk[d].segs \/ disk[d].segs = disk[d].cloud.ack
  /\ IF disk[d] # None /\ disk[d].segs = disk[d].cloud.ack THEN Confirmed(disk[d].segs) ELSE UNCHANGED mind

LEMMA OpenListedOK == ASSUME CopiesOK, NEW d \in Ids, OpenListed(d) PROVE CopiesOK' /\ ListedStep(d)
<1>1. /\ run = None /\ writes = <<>> /\ UNCHANGED <<stash, late, disk, cleaner, sent, used>>
      /\ seen' = [seen EXCEPT !.listed = TRUE]
      /\ IF disk[d] # None /\ disk[d].segs = disk[d].cloud.ack THEN Confirmed(disk[d].segs) ELSE UNCHANGED mind
  BY DEF OpenListed
<1>2. PICK t \in Shown(d) \ {None} :
        LET fresh == [segs |-> t, journal |-> None, cloud |-> [NoCloud EXCEPT !.id = d, !.ack = t]] IN
        Persist(IF disk[d] = None THEN Opened(d, fresh) ELSE Resumed(d, disk[d], t), "edit")
  BY DEF OpenListed
<1>3. stash[d].ever \subseteq Texts
  BY DEF CopiesOK, RestOK
<1>4. t \in Texts /\ t \in stash[d].ever /\ Created(d) /\ t # None
  BY <1>2, <1>3 DEF Shown, Created
<1>5. ASSUME NEW q, EditorOK(q), Persist(q, "edit"), q.slot = d, q.saver = "idle", q.op = "idle", q.stopped = q.cloud.done,
             disk[d] # None =>
               /\ q.cloud.done = disk[d].cloud.done
               /\ ~disk[d].cloud.done => /\ q.journal = disk[d].journal
                                         /\ q.segs = disk[d].segs \/ disk[d].segs = disk[d].cloud.ack
      PROVE  CopiesOK' /\ ListedStep(d)
  <2>1. run' = q /\ QueueMoves /\ Saved("edit") /\ run' # None /\ q.cloud.id = d
    BY <1>5, PersistSaves, NoneAssumption DEF Persist, Saved, By, EditorOK
  <2>2. mind' \in [typed : Maybe, kept : BOOLEAN]
    BY <1>1, ConfirmedType DEF CopiesOK, RestOK
  <2>3. RestOK'
    BY <1>1, <2>2 DEF CopiesOK, RestOK, Exists, Created
  <2>4. CopiesOK'
    BY <1>1, <1>5, <2>1, <2>3, QuietlyMoves
  <2> QED BY <1>1, <1>4, <1>5, <2>1, <2>4 DEF ListedStep
<1>6. CASE disk[d] = None
  <2>1. PICK k, c, q : /\ k = [NoCloud EXCEPT !.id = d, !.ack = t] /\ c = [segs |-> t, journal |-> None, cloud |-> k]
                       /\ q = Opened(d, c)
    OBVIOUS
  <2>2. k \in Cloud /\ k.id = d /\ k.ack = t /\ ~k.deleted /\ ~k.done
    BY <1>4, <2>1 DEF NoCloud, Cloud, Maybe, Pending
  <2>3. c \in Copy /\ c.segs = t /\ c.journal = None /\ c.cloud = k
    BY <1>4, <2>1, <2>2 DEF Copy, Maybe, Journal
  <2>4. CopyOK(c)
    BY <1>4, <2>2, <2>3, NameAssumption DEF CopyOK, CloudOK, StoredOK, BlankOK
  <2>5. /\ q \in Editor /\ q.slot = d /\ q.segs = c.segs /\ q.journal = c.journal /\ q.cloud = c.cloud
        /\ q.stopped = c.cloud.done /\ q.saver = "idle" /\ q.op = "idle"
    <3>1. d \in {"new"} \cup Ids /\ c \in Copy /\ q = Opened(d, c)
      BY <2>1, <2>3
    <3> QED BY <3>1, OpenedFields
  <2>6. EditorOK(q)
    BY <2>2, <2>3, <2>4, <2>5, OpensSound
  <2>7. Persist(q, "edit")
    BY <1>2, <1>6, <2>1
  <2> QED BY <1>5, <1>6, <2>5, <2>6, <2>7
<1>7. CASE disk[d] # None
  <2>1. PICK c, o : c = disk[d] /\ o = Opened(d, c)
    OBVIOUS
  <2>2. CopyOK(c) /\ c \in Copy /\ c.cloud.id = d /\ c.cloud \in Cloud
    BY <1>7, <2>1 DEF CopiesOK, DiskOK, Slots, CopyOK, Fits, Copy
  <2>3. /\ o \in Editor /\ o.slot = d /\ o.segs = c.segs /\ o.journal = c.journal /\ o.cloud = c.cloud
        /\ o.stopped = c.cloud.done /\ o.saver = "idle" /\ o.op = "idle"
    <3>1. d \in {"new"} \cup Ids
      OBVIOUS
    <3> QED BY <2>1, <2>2, <3>1, OpenedFields
  <2>4. EditorOK(o)
    BY <2>2, <2>3, OpensSound
  <2>5. PICK q : q = Resumed(d, c, t)
    OBVIOUS
  <2>6. Persist(q, "edit")
    BY <1>2, <1>7, <2>1, <2>5
  <2>7. CASE q = o
    BY <1>5, <2>1, <2>3, <2>4, <2>6, <2>7
  <2>8. CASE c.cloud.done /\ q = [o EXCEPT !.segs = None, !.journal = None]
    <3>1. /\ q \in Editor /\ q.slot = d /\ q.segs = None /\ q.journal = None /\ q.cloud = c.cloud
          /\ q.stopped = c.cloud.done /\ q.saver = "idle" /\ q.op = "idle"
      BY <2>3, <2>8 DEF Editor, Maybe, Journal
    <3>2. PICK u : u = [c EXCEPT !.segs = None, !.journal = None]
      OBVIOUS
    <3>3. u \in Copy /\ u.segs = None /\ u.journal = None /\ u.cloud = c.cloud
      BY <2>2, <3>2 DEF Copy, Maybe, Journal
    <3>4. CopyOK(u)
      BY <2>2, <2>8, <3>3 DEF CopyOK, BlankOK
    <3>5. EditorOK(q)
      BY <2>2, <3>1, <3>3, <3>4, OpensSound
    <3> QED BY <1>5, <2>1, <2>6, <2>8, <3>1, <3>5
  <2>9. CASE ~c.cloud.done /\ c.segs = c.cloud.ack /\ q = [o EXCEPT !.segs = t, !.cloud.ack = t]
    <3>1. PICK k : k = [c.cloud EXCEPT !.ack = t]
      OBVIOUS
    <3>2. /\ k \in Cloud /\ k.id = d /\ k.ack = t /\ k.intent = c.cloud.intent /\ k.pending = c.cloud.pending
          /\ k.done = c.cloud.done /\ k.deleted = c.cloud.deleted
      BY <1>4, <2>2, <2>9, <3>1 DEF Cloud, Maybe
    <3>3. q = [o EXCEPT !.segs = t, !.cloud = k]
      BY <2>3, <2>9, <3>1
    <3>4. /\ q \in Editor /\ q.slot = d /\ q.segs = t /\ q.journal = c.journal /\ q.cloud = k
          /\ q.stopped = c.cloud.done /\ q.saver = "idle" /\ q.op = "idle"
      BY <1>4, <2>3, <3>2, <3>3 DEF Editor, Maybe
    <3>5. PICK u : u = [segs |-> t, journal |-> c.journal, cloud |-> k]
      OBVIOUS
    <3>6. u \in Copy /\ u.segs = t /\ u.journal = c.journal /\ u.cloud = k
      BY <1>4, <2>2, <3>2, <3>5 DEF Copy, Maybe
    <3>7. CloudOK(c.cloud) /\ StoredOK(c.cloud)
      BY <2>2 DEF CopyOK
    <3>8. CloudOK(k) /\ StoredOK(k)
      BY <1>4, <2>2, <3>2, <3>7, NameAssumption DEF CloudOK, StoredOK
    <3>9. CopyOK(u)
      BY <1>4, <3>6, <3>8 DEF CopyOK, BlankOK
    <3>10. EditorOK(q)
      BY <2>2, <2>9, <3>2, <3>4, <3>6, <3>9, OpensSound
    <3> QED BY <1>5, <2>1, <2>6, <2>9, <3>2, <3>4, <3>10
  <2>10. CASE q = [o EXCEPT !.conflict = TRUE]
    <3>1. EditorOK(q) /\ Alike(q, o) /\ q.cloud = o.cloud /\ q.saver = o.saver
      BY <2>4, <2>10, Conflicts
    <3>2. q.stopped = q.cloud.done /\ q.cloud.done = c.cloud.done /\ q.slot = d /\ q.segs = c.segs /\ q.journal = c.journal
          /\ q.saver = "idle" /\ q.op = "idle"
      BY <2>3, <3>1 DEF Alike
    <3> QED BY <1>5, <2>1, <2>6, <3>1, <3>2
  <2> QED BY <2>1, <2>5, <2>7, <2>8, <2>9, <2>10 DEF Resumed
<1> QED BY <1>6, <1>7
-----------------------------------------------------------------------------
(* The local saves, crashes and requests that come late.                   *)

Mirror(w) == [key |-> run.cloud.id, copy |-> CopyOf(run), by |-> w.by, mirrors |-> FALSE]

\* The oldest save is done; what follows it moves up.
DrainStep(w) ==
  /\ writes # <<>> /\ w = writes[1] /\ w \in Write /\ Len(writes) \in Nat \ {0}
  /\ disk' = [disk EXCEPT ![w.key] = w.copy]
  /\ \A i \in 1..(Len(writes) - 1) : writes'[i] = writes[i + 1]
  /\ IF Mirrors(w) THEN Len(writes') = Len(writes) /\ writes'[Len(writes)] = Mirror(w)
                   ELSE Len(writes') = Len(writes) - 1
  /\ mind' = [mind EXCEPT !.kept = @ \/ SavesOnly(mind.typed)]
  /\ UNCHANGED <<stash, late, run, cleaner, sent, seen, used>>

LEMMA SaveDoneOK == ASSUME CopiesOK, SaveDone PROVE CopiesOK' /\ \E w : DrainStep(w)
<1>1. PICK w, s : w = Head(writes) /\ s = Tail(writes)
  OBVIOUS
<1>2. writes # <<>> /\ writes \in Seq(Write) /\ \A i \in DOMAIN writes : WriteOK(writes[i])
  BY DEF SaveDone, CopiesOK, WritesOK
<1>3. /\ Len(writes) \in Nat \ {0} /\ s \in Seq(Write) /\ Len(s) = Len(writes) - 1 /\ \A i \in 1..Len(s) : s[i] = writes[i + 1]
      /\ w = writes[1] /\ w \in Write /\ WriteOK(w)
  BY <1>1, <1>2, HeadTailProperties DEF WriteOK
<1>4. /\ disk' = [disk EXCEPT ![w.key] = w.copy]
      /\ writes' = IF Mirrors(w) THEN Append(s, Mirror(w)) ELSE s
      /\ mind' = [mind EXCEPT !.kept = @ \/ SavesOnly(mind.typed)]
      /\ UNCHANGED <<stash, late, run, cleaner, sent, seen, used>>
  BY <1>1 DEF SaveDone, Mirror
<1>5. Grows
  BY <1>4 DEF Grows, Exists, Created
<1>6. RestOK'
  <2>1. PICK b : b = (mind.kept \/ SavesOnly(mind.typed))
    OBVIOUS
  <2>2. b \in BOOLEAN /\ mind' = [mind EXCEPT !.kept = b]
    BY <1>4, <2>1 DEF SavesOnly, CopiesOK, RestOK
  <2> QED BY <1>4, <2>2, RestStays DEF CopiesOK, RestOK
<1>7. DiskOK'
  <2>1. w.key \in Slots /\ Fits(w.key, w.copy)
    BY <1>3 DEF WriteOK, Write, Slots
  <2>2. PICK c : c = w.copy
    OBVIOUS
  <2>3. CopyOK(c)'
    BY <1>3, <1>5, <2>2, CopyStays DEF WriteOK
  <2> QED BY <1>4, <1>5, <2>1, <2>2, <2>3, DiskMoves DEF CopiesOK
<1>8. ASSUME Mirrors(w), NEW m, m = Mirror(w) PROVE m \in Write /\ CopyOK(m.copy)' /\ Fits(m.key, m.copy)
  <2>1. EditorOK(run) /\ run \in Editor /\ run.cloud.id \in Ids
    BY <1>8 DEF Mirrors, EditorOK, CopiesOK, RunOK, Editor, Cloud
  <2>2. PICK c : c = CopyOf(run)
    OBVIOUS
  <2>3. CopyOK(c) /\ c.cloud = run.cloud
    BY <2>1, <2>2 DEF EditorOK, CopyOf
  <2>4. CopyOK(c)' /\ c \in Copy
    BY <1>5, <2>3, CopyStays DEF CopyOK
  <2>5. m.key = run.cloud.id /\ m.copy = c /\ m.by = w.by /\ m.mirrors = FALSE /\ m \in Write
    BY <1>3, <1>8, <2>1, <2>2, <2>4 DEF Mirror, Write
  <2> QED BY <2>1, <2>3, <2>4, <2>5, NameAssumption DEF Fits
<1>9. /\ writes' \in Seq(Write)
      /\ \A i \in 1..(Len(writes) - 1) : writes'[i] = writes[i + 1]
      /\ IF Mirrors(w) THEN Len(writes') = Len(writes) /\ writes'[Len(writes)] = Mirror(w)
                       ELSE Len(writes') = Len(writes) - 1
  <2>1. PICK m : m = Mirror(w)
    OBVIOUS
  <2>2. CASE Mirrors(w)
    <3>1. m \in Write /\ writes' = Append(s, m)
      BY <1>4, <1>8, <2>1, <2>2
    <3>2. writes' \in Seq(Write) /\ Len(writes') = Len(s) + 1 /\ writes'[Len(s) + 1] = m /\ \A i \in 1..Len(s) : writes'[i] = s[i]
      BY <1>3, <3>1, AppendProperties
    <3> QED BY <1>3, <2>1, <2>2, <3>2
  <2> QED BY <1>3, <1>4, <2>2
<1>10. WritesOK'
  <2>1. ASSUME NEW i \in DOMAIN writes' PROVE WriteOK(writes[i])'
    <3>1. i \in 1..Len(writes') /\ i \in 1..Len(writes)
      BY <1>3, <1>9, <2>1
    <3>2. CASE i \in 1..(Len(writes) - 1)
      <4>1. PICK x : x = writes[i + 1]
        OBVIOUS
      <4>2. x = writes'[i] /\ WriteOK(x)
        BY <1>2, <1>3, <1>9, <3>2, <4>1
      <4>3. PICK c : c = x.copy
        OBVIOUS
      <4> QED BY <1>5, <4>2, <4>3, CopyStays DEF WriteOK, Fits
    <3>3. CASE i = Len(writes)
      <4>1. Mirrors(w) /\ writes'[i] = Mirror(w)
        BY <1>3, <1>9, <3>1, <3>3
      <4>2. PICK m : m = Mirror(w)
        OBVIOUS
      <4> QED BY <1>8, <4>1, <4>2 DEF WriteOK, Fits
    <3> QED BY <1>3, <3>1, <3>2, <3>3
  <2> QED BY <1>9, <2>1 DEF WritesOK
<1>11. (run' # None => EditorOK(run)') /\ (cleaner' # None => CleanerOK(cleaner)')
  BY <1>4, <1>5, EditorKeeps, CleanerKeeps
<1>12. CopiesOK'
  BY <1>6, <1>7, <1>10, <1>11 DEF CopiesOK, RunOK, CleanOK
<1>13. DrainStep(w)
  BY <1>2, <1>3, <1>4, <1>9 DEF DrainStep
<1> QED BY <1>12, <1>13

LEMMA CrashOK == ASSUME CopiesOK, Crash PROVE CopiesOK'
<1>1. Grows
  BY DEF Grows, Exists, Created, Crash
<1>2. RestOK'
  <2>1. mind' \in [typed : Maybe, kept : BOOLEAN]
    BY DEF Crash, CopiesOK, RestOK, Forgotten, Maybe
  <2>2. used' \in [edits : 0..MaxEdits, faults : 0..MaxFaults]
    BY BoundAssumption DEF Crash, CopiesOK, RestOK, Fault
  <2> QED BY <2>1, <2>2 DEF Crash, CopiesOK, RestOK, Exists, Created
<1>3. DiskOK'
  BY <1>1, DiskStays DEF Crash, CopiesOK
<1>4. writes' = <<>> /\ run' = None /\ cleaner' = None
  BY DEF Crash
<1>5. WritesOK'
  BY <1>4 DEF WritesOK
<1> QED BY <1>2, <1>3, <1>4, <1>5 DEF CopiesOK, RunOK, CleanOK

\* Upstream changes; nothing else does.
LEMMA UpstreamMoves ==
  ASSUME CopiesOK, Grows, RestOK', UNCHANGED <<disk, writes, run, cleaner>> PROVE CopiesOK'
<1>1. DiskOK' /\ WritesOK'
  BY DiskStays, WritesStay DEF CopiesOK
<1>2. (run' # None => EditorOK(run)') /\ (cleaner' # None => CleanerOK(cleaner)')
  BY EditorKeeps, CleanerKeeps
<1> QED BY <1>1, <1>2 DEF CopiesOK, RunOK, CleanOK

\* A late request creates a draft, changes one or has no effect.
LateStep ==
  /\ UNCHANGED <<disk, writes, run, cleaner, sent, mind, seen, used>>
  /\ \E req \in late :
       /\ late' = late \ {req}
       /\ \/ /\ req.id = None
             /\ \E d \in Ids : /\ ~Created(d) /\ Created(d)'
                               /\ \A e \in Ids : e # d => (Created(e)' <=> Created(e)) /\ (Exists(e)' <=> Exists(e))
          \/ /\ req.id # None
             /\ \A e \in Ids : (Created(e)' <=> Created(e)) /\ (Exists(e)' => Exists(e))

LEMMA LateOK == ASSUME CopiesOK, TakesEffectLate PROVE CopiesOK' /\ LateStep
<1>1. PICK req \in late : Effect(req) /\ late' = late \ {req} /\ UNCHANGED <<disk, writes, run, cleaner, sent, mind, seen, used>>
  BY DEF TakesEffectLate
<1>2. req.id \in Ids \cup {None} /\ req.text \in Texts /\ late' \in SUBSET ([id : Ids \cup {None}, text : Texts])
  BY <1>1 DEF CopiesOK, RestOK
<1>3. RestOK
  BY DEF CopiesOK
<1>4. ASSUME Grows, stash' \in [Ids -> [now : Maybe, ever : SUBSET Texts]], \A e \in Ids : Exists(e)' => Created(e)'
      PROVE  CopiesOK'
  <2>1. RestOK'
    BY <1>1, <1>2, <1>3, <1>4 DEF RestOK
  <2> QED BY <1>1, <1>4, <2>1, UpstreamMoves
<1>5. CASE req.id = None
  <2>1. PICK d \in Ids : ~Created(d) /\ Put(d, req.text)
    BY <1>1, <1>5 DEF Effect
  <2>2. PICK t \in Texts : t = req.text
    BY <1>2
  <2>3. /\ Grows /\ stash' \in [Ids -> [now : Maybe, ever : SUBSET Texts]] /\ \A e \in Ids : Exists(e)' => Created(e)'
        /\ Created(d)' /\ \A e \in Ids : e # d => (Created(e)' <=> Created(e)) /\ (Exists(e)' <=> Exists(e))
    BY <1>1, <1>3, <2>1, <2>2, PutGrows
  <2>4. LateStep
    BY <1>1, <1>5, <2>1, <2>3 DEF LateStep
  <2> QED BY <1>4, <2>3, <2>4
<1>6. CASE req.id # None /\ Exists(req.id)
  <2>1. PICK d \in Ids, t \in Texts : d = req.id /\ t = req.text
    BY <1>2, <1>6
  <2>2. Put(d, t) /\ Exists(d) /\ Created(d)
    BY <1>1, <1>3, <1>6, <2>1 DEF Effect, RestOK
  <2>3. /\ Grows /\ stash' \in [Ids -> [now : Maybe, ever : SUBSET Texts]] /\ \A e \in Ids : Exists(e)' => Created(e)'
        /\ Created(d)' /\ \A e \in Ids : e # d => (Created(e)' <=> Created(e)) /\ (Exists(e)' <=> Exists(e))
    BY <1>1, <1>3, <2>2, PutGrows
  <2>4. LateStep
    BY <1>1, <1>6, <2>2, <2>3 DEF LateStep
  <2> QED BY <1>4, <2>3, <2>4
<1>7. CASE req.id # None /\ ~Exists(req.id)
  <2>1. stash' = stash
    BY <1>1, <1>7 DEF Effect
  <2>2. Grows
    BY <1>1, <2>1 DEF Grows, Exists, Created
  <2>3. LateStep
    BY <1>1, <1>7, <2>1 DEF LateStep, Exists, Created
  <2> QED BY <1>3, <1>4, <2>1, <2>2, <2>3 DEF RestOK, Exists, Created
<1> QED BY <1>5, <1>6, <1>7

\* An existing draft changes.
OtherStep ==
  /\ UNCHANGED <<late, disk, writes, run, cleaner, sent, mind, seen>>
  /\ \A e \in Ids : (Created(e)' <=> Created(e)) /\ (Exists(e)' => Exists(e))

LEMMA OtherOK == ASSUME CopiesOK, OtherDeviceEdits PROVE CopiesOK' /\ OtherStep
<1>1. PICK d \in Ids, t \in Texts : /\ Exists(d) /\ Fault /\ Put(d, t)
                                    /\ UNCHANGED <<late, disk, writes, run, cleaner, sent, mind, seen>>
  BY DEF OtherDeviceEdits
<1>2. RestOK /\ Created(d)
  BY <1>1 DEF CopiesOK, RestOK
<1>3. /\ Grows /\ stash' \in [Ids -> [now : Maybe, ever : SUBSET Texts]] /\ \A e \in Ids : Exists(e)' => Created(e)'
      /\ Created(d)' /\ \A e \in Ids : e # d => (Created(e)' <=> Created(e)) /\ (Exists(e)' <=> Exists(e))
  BY <1>1, <1>2, PutGrows
<1>4. used' \in [edits : 0..MaxEdits, faults : 0..MaxFaults]
  BY <1>1, <1>2, BoundAssumption DEF RestOK, Fault
<1>5. RestOK'
  BY <1>1, <1>2, <1>3, <1>4 DEF RestOK
<1>6. CopiesOK'
  BY <1>1, <1>3, <1>5, UpstreamMoves
<1>7. OtherStep
  BY <1>1, <1>2, <1>3 DEF OtherStep
<1> QED BY <1>6, <1>7
-----------------------------------------------------------------------------
(* The cleanup.                                                            *)

CleanStep ==
  /\ UNCHANGED <<late, writes, run, sent, mind>> /\ sent # {}
  /\ \A e \in Ids : (Created(e)' <=> Created(e)) /\ (Exists(e)' => Exists(e))
  /\ disk' = disk \/ \E k, c : Settles(k, c) /\ (k = "cleanup" /\ c # None => Knows(c))
  /\ cleaner' # None => \/ Knows(cleaner'.copy)
                        \/ cleaner # None /\ ~Knows(cleaner.copy)
                        \/ disk["cleanup"] # None /\ cleaner'.copy = disk["cleanup"]
  /\ \/ seen' = seen
     \/ /\ seen' = [seen EXCEPT !.finished = TRUE]
        /\ cleaner # None /\ cleaner.at = "drop" /\ UNCHANGED stash

\* The cleanup moves on over a settled copy.
LEMMA CleanMoves ==
  ASSUME CopiesOK, CleanerOK(cleaner), Grows, UNCHANGED <<late, writes, run, sent, mind>>,
         stash' \in [Ids -> [now : Maybe, ever : SUBSET Texts]],
         \A e \in Ids : (Created(e)' <=> Created(e)) /\ (Exists(e)' => Exists(e)),
         disk' = disk \/ \E k, c : Settles(k, c) /\ (c # None => CopyOK(c)') /\ (k = "cleanup" /\ c # None => Knows(c)),
         seen' = seen, used' = used \/ Fault,
         NEW n, cleaner' = n, n # None => CleanerOK(n)' /\ (Knows(n.copy) \/ (~Knows(cleaner.copy) /\ cleaner # None))
  PROVE  CopiesOK' /\ CleanStep
<1>1. RestOK
  BY DEF CopiesOK
<1>2. used' \in [edits : 0..MaxEdits, faults : 0..MaxFaults]
  BY <1>1, BoundAssumption DEF RestOK, Fault
<1>3. RestOK'
  BY <1>1, <1>2 DEF RestOK
<1>4. run' # None => EditorOK(run)'
  BY EditorKeeps
<1>5. cleaner' # None => CleanerOK(cleaner)'
  OBVIOUS
<1>6. CopiesOK'
  BY <1>3, <1>4, <1>5, SettleMoves
<1>7. sent # {}
  BY DEF CleanerOK, CopyOK, StoredOK
<1>8. CleanStep
  BY <1>7 DEF CleanStep
<1> QED BY <1>6, <1>8

LEMMA CleanupStartsOK == ASSUME CopiesOK, CleanupStarts PROVE CopiesOK' /\ CleanStep
<1>1. PICK c, n : c = disk["cleanup"] /\ n = [at |-> "reconcile", copy |-> c]
  OBVIOUS
<1>2. c # None /\ cleaner = None /\ cleaner' = n /\ UNCHANGED <<stash, disk, seen, used, late, writes, run, sent, mind>>
  BY <1>1 DEF CleanupStarts, Clean, QuietCleanup
<1>3. CopyOK(c) /\ c.cloud.done /\ c \in Copy
  BY <1>1, <1>2 DEF CopiesOK, DiskOK, Slots, Fits, CopyOK
<1>4. Grows /\ RestOK'
  BY <1>2 DEF Grows, Exists, Created, CopiesOK, RestOK
<1>5. CleanerOK(n)
  BY <1>1, <1>3 DEF CleanerOK, CleanerPc
<1>6. CleanerOK(cleaner)' /\ (run' # None => EditorOK(run)')
  BY <1>2, <1>4, <1>5, CleanerStays, EditorKeeps
<1>7. CopiesOK'
  BY <1>2, <1>4, <1>6, SettleMoves
<1>8. sent # {}
  BY <1>3 DEF CopyOK, StoredOK
<1>9. CleanStep
  BY <1>1, <1>2, <1>8 DEF CleanStep, Exists, Created
<1> QED BY <1>7, <1>9

\* What the steps of the cleanup start from.
LEMMA CleanerThere ==
  ASSUME CopiesOK, NEW at, CleanerAt(at)
  PROVE  /\ cleaner # None /\ cleaner.at = at /\ CleanerOK(cleaner) /\ cleaner.copy \in Copy /\ CopyOK(cleaner.copy)
         /\ cleaner.copy.cloud \in Cloud /\ cleaner.copy.cloud.done /\ cleaner.copy.cloud.id \in Ids \cup {None}
         /\ sent # {}
BY DEF CleanerAt, CopiesOK, CleanOK, CleanerOK, CopyOK, Copy, Cloud, StoredOK

LEMMA CleanupReconcilesOK == ASSUME CopiesOK, CleanupReconciles PROVE CopiesOK' /\ CleanStep
<1>1. PICK o : o = cleaner.copy
  OBVIOUS
<1>2. /\ cleaner # None /\ CleanerOK(cleaner) /\ o \in Copy /\ CopyOK(o) /\ o.cloud \in Cloud /\ o.cloud.done
      /\ sent # {} /\ UNCHANGED <<stash, seen, used, late, writes, run, sent, mind>>
  BY <1>1, CleanerThere DEF CleanupReconciles, QuietCleanup
<1>3. /\ Grows /\ stash' \in [Ids -> [now : Maybe, ever : SUBSET Texts]]
      /\ \A e \in Ids : (Created(e)' <=> Created(e)) /\ (Exists(e)' => Exists(e))
  BY <1>2 DEF Grows, Exists, Created, CopiesOK, RestOK
<1>4. CASE ~Uncertain(o.cloud)
  <2>1. PICK n : n = [at |-> "claim", copy |-> o]
    OBVIOUS
  <2>2. cleaner' = n /\ disk' = disk
    BY <1>1, <1>4, <2>1 DEF CleanupReconciles, Clean
  <2>3. CleanerOK(n) /\ n.copy = o
    BY <1>2, <1>4, <2>1 DEF CleanerOK, CleanerPc
  <2>4. CleanerOK(n)'
    BY <1>3, <2>3, CleanerStays
  <2> QED BY <1>1, <1>2, <1>3, <2>2, <2>3, <2>4, CleanMoves
<1>5. CASE Uncertain(o.cloud)
  <2>1. PICK l \in Listings :
          IF Cardinality(Candidates(l, o)) = 1
            THEN \E copy : /\ copy = [o EXCEPT !.cloud.id = CHOOSE d \in Candidates(l, o) : TRUE, !.cloud.intent = None]
                           /\ Clean("claim", copy) /\ SaveAt("cleanup", copy)
            ELSE cleaner' = None /\ UNCHANGED disk
    BY <1>1, <1>5 DEF CleanupReconciles
  <2>2. CASE Cardinality(Candidates(l, o)) # 1
    <3>1. cleaner' = None /\ disk' = disk
      BY <2>1, <2>2
    <3> QED BY <1>2, <1>3, <3>1, CleanMoves
  <2>3. CASE Cardinality(Candidates(l, o)) = 1
    <3>1. PICK d \in Ids : d = (CHOOSE x \in Candidates(l, o) : TRUE) /\ o.cloud.intent \in Shown(d)
      BY <2>3, FoundOne
    <3>2. PICK k, copy, n : /\ k = [o.cloud EXCEPT !.id = d, !.intent = None] /\ copy = [o EXCEPT !.cloud = k]
                            /\ n = [at |-> "claim", copy |-> copy]
      OBVIOUS
    <3>3. copy = [o EXCEPT !.cloud.id = d, !.cloud.intent = None]
      BY <1>2, <3>2 DEF Copy
    <3>4. cleaner' = n /\ writes = <<>> /\ disk' = [disk EXCEPT !["cleanup"] = copy]
      BY <2>1, <2>3, <3>1, <3>2, <3>3 DEF Clean, SaveAt
    <3>5. /\ k \in Cloud /\ k.id = d /\ k.intent = None /\ k.done /\ k.ack = o.cloud.ack /\ k.pending = o.cloud.pending
          /\ k.deleted = o.cloud.deleted
      BY <1>2, <3>2 DEF Cloud, Maybe
    <3>6. copy \in Copy /\ copy.cloud = k
      BY <1>2, <3>2, <3>5 DEF Copy
    <3>7. CloudOK(o.cloud) /\ StoredOK(o.cloud) /\ o.cloud.id = None /\ o.cloud.intent # None
      BY <1>2, <1>5 DEF CopyOK, Uncertain
    <3>8. CopyOK(copy)
      BY <1>2, <3>1, <3>5, <3>6, <3>7, NameAssumption DEF CopyOK, CloudOK, StoredOK, BlankOK, Shown, Created
    <3>9. Knows(copy) /\ CopyOK(copy)' /\ copy # None
      BY <1>3, <3>5, <3>6, <3>8, CopyStays, NameAssumption, NoneAssumption DEF Knows
    <3>10. Settles("cleanup", copy)
      BY <3>4, <3>5, <3>6, NameAssumption DEF Settles, Slots, Fits
    <3>11. CleanerOK(n) /\ n.copy = copy
      BY <3>2, <3>5, <3>6, <3>8 DEF CleanerOK, CleanerPc, Uncertain
    <3>12. CleanerOK(n)'
      BY <1>3, <3>11, CleanerStays
    <3> QED BY <1>2, <1>3, <3>4, <3>9, <3>10, <3>11, <3>12, CleanMoves
  <2> QED BY <2>2, <2>3
<1> QED BY <1>4, <1>5

LEMMA CleanupClaimsOK == ASSUME CopiesOK, CleanupClaims PROVE CopiesOK' /\ CleanStep
<1>1. PICK o : o = cleaner.copy
  OBVIOUS
<1>2. /\ cleaner # None /\ cleaner.at = "claim" /\ CleanerOK(cleaner) /\ o \in Copy /\ CopyOK(o) /\ o.cloud.done
      /\ o.cloud.id \in Ids \cup {None} /\ UNCHANGED <<stash, seen, used, late, writes, run, sent, mind>>
  BY <1>1, CleanerThere DEF CleanupClaims, QuietCleanup
<1>3. /\ Grows /\ stash' \in [Ids -> [now : Maybe, ever : SUBSET Texts]]
      /\ \A e \in Ids : (Created(e)' <=> Created(e)) /\ (Exists(e)' => Exists(e))
  BY <1>2 DEF Grows, Exists, Created, CopiesOK, RestOK
<1>4. ~Uncertain(o.cloud)
  BY <1>1, <1>2 DEF CleanerOK
<1>5. PICK n : n = [at |-> IF o.cloud.id = None THEN "drop" ELSE IF o.cloud.deleted THEN "tombstone" ELSE "delete", copy |-> o]
  OBVIOUS
<1>6. cleaner' = n /\ n.copy = o
  BY <1>1, <1>5 DEF CleanupClaims, Clean
<1>7. CleanerOK(n)
  BY <1>2, <1>4, <1>5 DEF CleanerOK, CleanerPc, CopyOK, StoredOK
<1>8. CleanerOK(n)' /\ CopyOK(o)'
  BY <1>2, <1>3, <1>7, CleanerStays, CopyStays
<1>9. CASE o.cloud.id = None
  <2>1. disk' = disk
    BY <1>1, <1>9 DEF CleanupClaims
  <2> QED BY <1>1, <1>2, <1>3, <1>6, <1>8, <2>1, CleanMoves
<1>10. CASE o.cloud.id # None
  <2>1. Settles(o.cloud.id, o) /\ o.cloud.id # "cleanup"
    BY <1>1, <1>2, <1>10, NameAssumption, NoneAssumption DEF CleanupClaims, SaveAt, Settles, Slots, Fits
  <2> QED BY <1>1, <1>2, <1>3, <1>6, <1>8, <2>1, CleanMoves
<1> QED BY <1>9, <1>10

LEMMA CleanupDeletesOK == ASSUME CopiesOK, CleanupDeletes PROVE CopiesOK' /\ CleanStep
<1>1. PICK o, d : o = cleaner.copy /\ d = cleaner.copy.cloud.id
  OBVIOUS
<1>2. /\ cleaner # None /\ cleaner.at = "delete" /\ CleanerOK(cleaner) /\ o \in Copy /\ CopyOK(o) /\ o.cloud \in Cloud
      /\ o.cloud.done /\ o.cloud.id = d /\ UNCHANGED <<seen, late, writes, run, sent, mind>>
  BY <1>1, CleanerThere DEF CleanupDeletes, QuietCleanup
<1>3. d \in Ids /\ d # None
  BY <1>1, <1>2, CleanerThere DEF CleanerOK, CleanerAt
<1>4. PICK k, copy, n : /\ k = [o.cloud EXCEPT !.deleted = TRUE] /\ copy = [o EXCEPT !.cloud = k]
                        /\ n = [at |-> "tombstone", copy |-> copy]
  OBVIOUS
<1>5. copy = [o EXCEPT !.cloud.deleted = TRUE]
  BY <1>2, <1>4 DEF Copy
<1>6. \/ /\ stash' = [stash EXCEPT ![d].now = None] /\ writes = <<>> /\ disk' = [disk EXCEPT !["cleanup"] = copy]
         /\ cleaner' = n /\ used' = used
      \/ /\ stash' = [stash EXCEPT ![d].now = None] \/ stash' = stash
         /\ Fault /\ cleaner' = None /\ disk' = disk
  BY <1>1, <1>4, <1>5 DEF CleanupDeletes, SaveAt, Clean
<1>7. stash \in [Ids -> [now : Maybe, ever : SUBSET Texts]]
  BY DEF CopiesOK, RestOK
<1>8. ASSUME stash' = [stash EXCEPT ![d].now = None]
      PROVE  /\ stash' \in [Ids -> [now : Maybe, ever : SUBSET Texts]] /\ stash'[d].now = None
             /\ \A e \in Ids : stash'[e].ever = stash[e].ever /\ (stash'[e].now # None => stash[e].now # None)
  BY <1>3, <1>7, <1>8 DEF Maybe
<1>9. /\ stash' \in [Ids -> [now : Maybe, ever : SUBSET Texts]]
      /\ \A e \in Ids : stash'[e].ever = stash[e].ever /\ (stash'[e].now # None => stash[e].now # None)
  BY <1>6, <1>7, <1>8
<1>10. Grows /\ \A e \in Ids : (Created(e)' <=> Created(e)) /\ (Exists(e)' => Exists(e))
  BY <1>2, <1>9 DEF Grows, Exists, Created
<1>11. CASE /\ stash' = [stash EXCEPT ![d].now = None] /\ writes = <<>> /\ disk' = [disk EXCEPT !["cleanup"] = copy]
            /\ cleaner' = n /\ used' = used
  <2>1. ~Exists(d)'
    BY <1>8, <1>11 DEF Exists
  <2>2. /\ k \in Cloud /\ k.id = d /\ k.intent = o.cloud.intent /\ k.done /\ k.ack = o.cloud.ack
        /\ k.pending = o.cloud.pending /\ k.deleted
    BY <1>2, <1>4 DEF Cloud
  <2>3. copy \in Copy /\ copy.cloud = k
    BY <1>2, <1>4, <2>2 DEF Copy
  <2>4. CopyOK(o)'
    BY <1>2, <1>10, CopyStays
  <2>5. CopyOK(copy)'
    BY <1>2, <1>3, <2>1, <2>2, <2>3, <2>4 DEF CopyOK, CloudOK, StoredOK, BlankOK
  <2>6. Knows(copy) /\ copy # None
    BY <1>3, <2>2, <2>3, NoneAssumption DEF Knows
  <2>7. Settles("cleanup", copy)
    BY <1>11, <2>2, <2>3, NameAssumption DEF Settles, Slots, Fits
  <2>8. CleanerOK(n)' /\ n.copy = copy
    BY <1>3, <1>4, <2>1, <2>2, <2>3, <2>5 DEF CleanerOK, CleanerPc, Uncertain
  <2> QED BY <1>2, <1>9, <1>10, <1>11, <2>5, <2>6, <2>7, <2>8, CleanMoves
<1>12. CASE Fault /\ cleaner' = None /\ disk' = disk
  BY <1>2, <1>9, <1>10, <1>12, CleanMoves
<1> QED BY <1>6, <1>11, <1>12

LEMMA TombstoneOK ==
  ASSUME NEW d \in Ids, Created(d), sent # {}, NEW c, c = Tombstone(d)
  PROVE  CopyOK(c) /\ c \in Copy /\ c.cloud.done /\ c.cloud.id = d
<1>1. PICK k : k = [NoCloud EXCEPT !.id = d, !.done = TRUE, !.cleaned = TRUE]
  OBVIOUS
<1>2. k \in Cloud /\ k.id = d /\ k.ack = None /\ k.done /\ ~k.deleted
  BY <1>1 DEF NoCloud, Cloud, Maybe, Pending
<1>3. c \in Copy /\ c.cloud = k
  BY <1>1, <1>2 DEF Tombstone, Copy, Maybe, Journal
<1> QED BY <1>2, <1>3, NameAssumption DEF CopyOK, CloudOK, StoredOK, BlankOK

LEMMA CleanupSettlesOK == ASSUME CopiesOK, CleanupSettles PROVE CopiesOK' /\ CleanStep
<1>1. PICK o, d : o = cleaner.copy /\ d = cleaner.copy.cloud.id
  OBVIOUS
<1>2. /\ cleaner # None /\ cleaner.at \in {"tombstone", "retire"} /\ CleanerOK(cleaner) /\ o \in Copy /\ CopyOK(o)
      /\ o.cloud.done /\ sent # {} /\ d \in Ids \cup {None} /\ UNCHANGED <<stash, seen, used, late, writes, run, sent, mind>>
  BY <1>1, CleanerThere DEF CleanupSettles, QuietCleanup
<1>3. /\ Grows /\ stash' \in [Ids -> [now : Maybe, ever : SUBSET Texts]]
      /\ \A e \in Ids : (Created(e)' <=> Created(e)) /\ (Exists(e)' => Exists(e))
  BY <1>2 DEF Grows, Exists, Created, CopiesOK, RestOK
<1>4. d \in Ids /\ ~Exists(d) /\ ~Uncertain(o.cloud) /\ d # None /\ Created(d)
  BY <1>1, <1>2 DEF CleanerOK, CopyOK, StoredOK
<1>5. CASE /\ CleanerAt("tombstone") /\ SaveAt(d, Tombstone(d)) /\ Clean("retire", o)
  <2>1. PICK c, n : c = Tombstone(d) /\ n = [at |-> "retire", copy |-> o]
    OBVIOUS
  <2>2. CopyOK(c) /\ c \in Copy /\ c.cloud.done /\ c.cloud.id = d
    BY <1>2, <1>4, <2>1, TombstoneOK
  <2>3. Settles(d, c) /\ CopyOK(c)' /\ d # "cleanup"
    BY <1>3, <1>4, <1>5, <2>1, <2>2, CopyStays, NameAssumption, NoneAssumption DEF Settles, SaveAt, Slots, Fits
  <2>4. CleanerOK(n) /\ n.copy = o
    BY <1>1, <1>2, <1>4, <2>1 DEF CleanerOK, CleanerPc
  <2>5. CleanerOK(n)' /\ cleaner' = n
    BY <1>3, <1>5, <2>1, <2>4, CleanerStays DEF Clean
  <2> QED BY <1>1, <1>2, <1>3, <2>3, <2>4, <2>5, CleanMoves
<1>6. CASE /\ CleanerAt("retire") /\ Clean("drop", o)
           /\ IF Leftover(d) /\ disk["new"].cloud.done
                THEN SaveAt("new", None) ELSE UNCHANGED disk
  <2>1. PICK n : n = [at |-> "drop", copy |-> o]
    OBVIOUS
  <2>2. CleanerOK(n) /\ n.copy = o
    BY <1>1, <1>2, <1>4, <2>1 DEF CleanerOK, CleanerPc
  <2>3. CleanerOK(n)' /\ cleaner' = n
    BY <1>3, <1>6, <2>1, <2>2, CleanerStays DEF Clean
  <2>4. disk' = disk \/ Settles("new", None)
    BY <1>6 DEF SaveAt, Settles, Slots
  <2> QED BY <1>1, <1>2, <1>3, <2>2, <2>3, <2>4, CleanMoves
<1> QED BY <1>1, <1>5, <1>6 DEF CleanupSettles

LEMMA CleanupEndsOK == ASSUME CopiesOK, CleanupEnds PROVE CopiesOK' /\ CleanStep
<1>1. /\ cleaner # None /\ cleaner.at = "drop" /\ sent # {} /\ cleaner' = None
      /\ seen' = [seen EXCEPT !.finished = TRUE] /\ disk' = [disk EXCEPT !["cleanup"] = None]
      /\ UNCHANGED <<stash, used, late, writes, run, sent, mind>>
  BY CleanerThere DEF CleanupEnds, QuietCleanup, SaveAt, CleanerAt
<1>2. Settles("cleanup", None)
  BY <1>1 DEF Settles, Slots
<1>3. Grows /\ RestOK'
  BY <1>1 DEF Grows, Exists, Created, CopiesOK, RestOK
<1>4. run' # None => EditorOK(run)'
  BY <1>1, <1>3, EditorKeeps
<1>5. CopiesOK'
  BY <1>1, <1>2, <1>3, <1>4, SettleMoves
<1>6. CleanStep
  BY <1>1, <1>2 DEF CleanStep, Exists, Created
<1> QED BY <1>5, <1>6

LEMMA CleaningOK == ASSUME CopiesOK, Cleaning PROVE CopiesOK' /\ CleanStep
BY CleanupStartsOK, CleanupReconcilesOK, CleanupClaimsOK, CleanupDeletesOK, CleanupSettlesOK, CleanupEndsOK DEF Cleaning
-----------------------------------------------------------------------------
(* Every copy alone is sound, always.                                      *)

LEMMA CopiesInit == ASSUME Init PROVE CopiesOK
<1>1. RestOK
  BY BoundAssumption, NoneAssumption DEF Init, RestOK, Forgotten, Maybe, Exists, Created
<1>2. DiskOK
  BY DEF Init, DiskOK
<1>3. WritesOK
  BY DEF Init, WritesOK
<1> QED BY <1>1, <1>2, <1>3 DEF Init, CopiesOK, RunOK, CleanOK

LEMMA SavingCopies == ASSUME CopiesOK, Saving PROVE CopiesOK'
<1>1. CASE SaveStarts \/ SaveBegins \/ Reconcile \/ Confirm \/ Recheck \/ Loop \/ Check
  BY <1>1, SaveStartsOK, SaveBeginsOK, ReconcileOK, ConfirmOK, RecheckOK, LoopOK, CheckOK
<1>2. CASE IntentSaved \/ CreateAnswered \/ CreateRejected \/ CreateUnknown \/ CreateRecorded \/ UpdateSent \/ UpdateRejected
  BY <1>2, IntentSavedOK, CreateAnsweredOK, CreateRejectedOK, CreateUnknownOK, CreateRecordedOK, UpdateSentOK, UpdateRejectedOK
<1> QED BY <1>1, <1>2 DEF Saving

LEMMA PublishingCopies == ASSUME CopiesOK, Publishing PROVE CopiesOK'
<1>1. CASE Publish \/ PublishBegins \/ Prepare \/ Checkpoint \/ SendPost \/ PublishFails \/ Complete \/ Archive
  BY <1>1, PublishOK, PublishBeginsOK, PrepareOK, CheckpointOK, SendPostOK, PublishFailsOK, CompleteOK, ArchiveOK
<1>2. CASE CloseStarts \/ CloseMirrors \/ CloseFrees \/ CloseLocked
  BY <1>2, CloseStartsOK, CloseMirrorsOK, ClosesOK
<1> QED BY <1>1, <1>2 DEF Publishing

LEMMA CopiesStep == ASSUME CopiesOK, [Next]_vars PROVE CopiesOK'
<1>1. CASE OpenNewPost \/ (\E d \in Ids : OpenListed(d)) \/ (\E t \in Texts : Edit(t)) \/ SaveDone
  BY <1>1, OpenNewPostOK, OpenListedOK, EditOK, SaveDoneOK
<1>2. CASE Crash \/ TakesEffectLate \/ OtherDeviceEdits
  BY <1>2, CrashOK, LateOK, OtherOK
<1>3. CASE Saving \/ Publishing \/ Cleaning
  BY <1>3, SavingCopies, PublishingCopies, CleaningOK
<1>4. CASE UNCHANGED vars
  <2>1. Grows /\ RestOK' /\ UNCHANGED <<disk, writes, run, cleaner>>
    BY <1>4 DEF vars, Grows, Exists, Created, CopiesOK, RestOK
  <2> QED BY <2>1, UpstreamMoves
<1> QED BY <1>1, <1>2, <1>3, <1>4 DEF Next

LEMMA CopiesHold == Spec => []CopiesOK
BY CopiesInit, CopiesStep, PTL DEF Spec

\* TypeOK: every variable stays in its set; all that is saved, open or cleaned up is a
\* composition the page could have written (useSocialComposerDraft, composerDraftStorage).
THEOREM TypeCorrect == Spec => []TypeOK
<1>1. ASSUME CopiesOK PROVE TypeOK
  BY <1>1 DEF TypeOK, CopiesOK, RestOK, DiskOK, WritesOK, WriteOK, Write, RunOK, EditorOK, CleanOK, CleanerOK, CleanerPc, Slots
<1> QED BY <1>1, CopiesHold, PTL

\* SavedMeansStored: whatever the list showed, whichever request took effect late or
\* never, no copy takes a text for confirmed that upstream never held (confirmUpdate,
\* reconcileCreate).
THEOREM SavedIsStored == Spec => []SavedMeansStored
<1>1. ASSUME CopiesOK PROVE SavedMeansStored
  <2>1. ASSUME NEW c, CopyOK(c), c.cloud.ack # None PROVE c.cloud.id # None /\ c.cloud.ack \in stash[c.cloud.id].ever
    BY <2>1 DEF CopyOK, CloudOK, StoredOK
  <2>2. ASSUME NEW k \in Slots, disk[k] # None, disk[k].cloud.ack # None
        PROVE  disk[k].cloud.id # None /\ disk[k].cloud.ack \in stash[disk[k].cloud.id].ever
    <3>1. CopyOK(disk[k])
      BY <1>1, <2>2 DEF CopiesOK, DiskOK
    <3> QED BY <2>1, <2>2, <3>1
  <2>3. ASSUME run # None, run.cloud.ack # None PROVE run.cloud.id # None /\ run.cloud.ack \in stash[run.cloud.id].ever
    <3>1. PICK c : c = CopyOf(run)
      OBVIOUS
    <3>2. CopyOK(c) /\ c.cloud = run.cloud
      BY <1>1, <2>3, <3>1 DEF CopiesOK, RunOK, EditorOK, CopyOf
    <3> QED BY <2>1, <2>3, <3>2
  <2> QED BY <2>2, <2>3 DEF SavedMeansStored
<1> QED BY <1>1, CopiesHold, PTL
-----------------------------------------------------------------------------
(* The one create: what the steps do with the copies that know of it.      *)

\* What queueing the editor's copy does to the queue.
LEMMA Queued ==
  ASSUME CopiesOK, CopiesOK', run' # None, NEW by \in By, Saved(by)
  PROVE  /\ Len(writes) \in Nat /\ Len(writes') = Len(writes) + 1
         /\ DOMAIN writes = 1..Len(writes) /\ DOMAIN writes' = 1..(Len(writes) + 1)
         /\ \A i \in DOMAIN writes : writes'[i] = writes[i]
         /\ writes'[Len(writes) + 1].key = run'.slot /\ writes'[Len(writes) + 1].copy = CopyOf(run')
         /\ writes'[Len(writes) + 1].by = by /\ writes'[Len(writes) + 1].mirrors
<1>1. PICK w : w = [key |-> run'.slot, copy |-> CopyOf(run'), by |-> by, mirrors |-> TRUE]
  OBVIOUS
<1>2. EditorOK(run)'
  BY DEF CopiesOK, RunOK
<1>3. w \in Write
  BY <1>1, <1>2 DEF Write, Editor, EditorOK, By, CopyOf, CopyOK
<1>4. writes \in Seq(Write) /\ writes' = Append(writes, w)
  BY <1>1 DEF CopiesOK, WritesOK, Saved
<1>5. writes'[Len(writes) + 1] = w /\ w.key = run'.slot /\ w.copy = CopyOf(run') /\ w.by = by /\ w.mirrors
  BY <1>1, <1>3, <1>4, AppendProperties
<1> QED BY <1>3, <1>4, <1>5, AppendProperties

LEMMA QueueStands == ASSUME CopiesOK PROVE Len(writes) \in Nat /\ DOMAIN writes = 1..Len(writes) /\ writes \in Seq(Write)
BY DEF CopiesOK, WritesOK

\* The same drafts and the same creates under way.
SameCreates ==
  /\ \A e \in Ids : Created(e)' <=> Created(e)
  /\ \A req : req.id = None => (req \in late' <=> req \in late)

LEMMA SameOnce == ASSUME OneRequest, SameCreates PROVE OneRequest' /\ (Started' <=> Started)
<1>1. Asked' <=> Asked
  BY DEF Asked, SameCreates
<1> QED BY <1>1 DEF OneRequest, Started, SameCreates

\* The editor knows, so what it queues knows.
LEMMA KnowsQueue ==
  ASSUME CopiesOK, CopiesOK', AllKnow, run' # None, Knows(run'), run'.saver \notin {"intent", "creating"}, disk'["new"] = disk["new"], QueueMoves
  PROVE  AllKnow'
<1>1. ASSUME NEW i \in DOMAIN writes', writes'[i].key = "new" PROVE Knows(writes'[i].copy)
  <2>1. CASE writes' = writes
    BY <1>1, <2>1 DEF AllKnow
  <2>2. ASSUME NEW by \in By, Saved(by) PROVE Knows(writes'[i].copy)
    <3>1. CASE i = Len(writes) + 1
      BY <2>2, <3>1, Queued DEF Knows, CopyOf
    <3>2. CASE i # Len(writes) + 1
      <4>1. i \in DOMAIN writes /\ writes'[i] = writes[i]
        BY <1>1, <2>2, <3>2, Queued
      <4> QED BY <1>1, <4>1 DEF AllKnow
    <3> QED BY <3>1, <3>2
  <2> QED BY <2>1, <2>2 DEF QueueMoves
<1> QED BY <1>1 DEF AllKnow, Knows

\* An edit, or the intent itself, is queued: the intent is still noted.
LEMMA NotedQueue ==
  ASSUME CopiesOK, CopiesOK', run' # None, Knows(run'), disk'["new"] = disk["new"], NEW by \in By, Saved(by),
         IntentNoted \/ (by = "saver" /\ run'.slot = "new")
  PROVE  IntentNoted'
<1>1. /\ Len(writes) \in Nat /\ Len(writes') = Len(writes) + 1
      /\ DOMAIN writes = 1..Len(writes) /\ DOMAIN writes' = 1..(Len(writes) + 1)
      /\ \A i \in DOMAIN writes : writes'[i] = writes[i]
      /\ writes'[Len(writes) + 1].copy = CopyOf(run') /\ writes'[Len(writes) + 1].by = by /\ writes'[Len(writes) + 1].key = run'.slot
  BY Queued
<1>2. ASSUME NEW j \in 0..Len(writes), by = "saver" /\ run'.slot = "new" PROVE IntentComing(j)'
  BY <1>1, <1>2 DEF IntentComing
<1>3. ASSUME NEW j \in 0..Len(writes), IntentComing(j) PROVE IntentComing(j)'
  BY <1>1, <1>3 DEF IntentComing
<1>4. Knows(writes'[Len(writes) + 1].copy)
  BY <1>1 DEF Knows, CopyOf
<1>5. CASE IntentNoted
  <2>1. disk'["new"] # None => Knows(disk'["new"]) \/ IntentComing(0)'
    BY <1>1, <1>3, <1>5 DEF IntentNoted
  <2>2. ASSUME NEW j \in DOMAIN writes', writes'[j].key = "new" PROVE Knows(writes'[j].copy) \/ IntentComing(j)'
    <3>1. CASE j = Len(writes) + 1
      BY <1>4, <3>1
    <3>2. CASE j # Len(writes) + 1
      BY <1>1, <1>3, <1>5, <2>2, <3>2 DEF IntentNoted
    <3> QED BY <3>1, <3>2
  <2> QED BY <2>1, <2>2 DEF IntentNoted, Knows
<1>6. CASE by = "saver" /\ run'.slot = "new"
  <2>1. IntentComing(0)'
    BY <1>1, <1>2, <1>6
  <2>2. ASSUME NEW j \in DOMAIN writes', writes'[j].key = "new" PROVE Knows(writes'[j].copy) \/ IntentComing(j)'
    BY <1>1, <1>2, <1>4, <1>6
  <2> QED BY <2>1, <2>2 DEF IntentNoted, Knows
<1> QED BY <1>5, <1>6

\* Once the saver's saves are done, all that is noted is known.
LEMMA NotedKnown ==
  ASSUME IntentNoted, Awaited("saver")
  PROVE  /\ disk["new"] # None => Knows(disk["new"])
         /\ \A i \in DOMAIN writes : writes[i].key = "new" => Knows(writes[i].copy)
BY DEF IntentNoted, Awaited, IntentComing

\* The editor goes on with what it knew, and no create is sent.
LEMMA OnceQuiet ==
  ASSUME CopiesOK, CopiesOK', OnceOK, SameCreates, disk'["new"] = disk["new"], QueueMoves, run # None, run' # None,
         Started /\ Knows(run) => Knows(run'), run'.saver \in {"intent", "creating"} => ~Started /\ IntentNoted',
         seen'.begun = seen.begun /\ seen'.listed = seen.listed
  PROVE  OnceOK'
<1>1. OneRequest' /\ (Started' <=> Started)
  BY SameOnce DEF OnceOK
<1>2. Started => AllKnow'
  BY KnowsQueue DEF OnceOK, AllKnow
<1>3. seen'.listed => \E d \in Ids : Created(d)'
  BY DEF OnceOK, SameCreates
<1>4. seen'.begun
  BY DEF OnceOK
<1> QED BY <1>1, <1>2, <1>3, <1>4 DEF OnceOK

LEMMA CalmOnce == ASSUME CopiesOK, CopiesOK', OnceOK, SaverCalm PROVE OnceOK'
<1>1. SameCreates
  BY DEF SaverCalm, SameCreates, Created
<1> QED BY <1>1, OnceQuiet DEF SaverCalm, SaverKeeps

LEMMA IntentOnce == ASSUME CopiesOK, CopiesOK', OnceOK, IntentStep PROVE OnceOK'
<1>1. SameCreates /\ run # None /\ run' # None /\ Knows(run') /\ disk' = disk /\ QueueMoves /\ seen' = seen
  BY DEF IntentStep, SaverKeeps, SameCreates, Created
<1>2. ~Started
  BY <1>1 DEF IntentStep, OnceOK, AllKnow
<1>3. run'.slot = "new"
  <2>1. EditorOK(run) /\ run \in Editor
    BY <1>1 DEF CopiesOK, RunOK, EditorOK
  <2> QED BY <1>1, <2>1, NameAssumption DEF IntentStep, SaverKeeps, EditorOK, Editor, Knows
<1>4. IntentNoted'
  BY <1>1, <1>3, NotedQueue DEF IntentStep, By
<1> QED BY <1>1, <1>2, <1>4, OnceQuiet

\* The intent is sent, withdrawn or rejected.
LEMMA CreatingOnce ==
  ASSUME CopiesOK, CopiesOK', OnceOK, SaverKeeps, UNCHANGED <<stash, late>>, run.saver \in {"intent", "creating"},
         run'.saver = "idle" \/ (run'.saver = "creating" /\ writes' = writes)
  PROVE  OnceOK'
<1>1. SameCreates /\ run # None /\ run' # None /\ disk' = disk /\ QueueMoves /\ seen' = seen
  BY DEF SaverKeeps, SameCreates, Created
<1>2. ~Started /\ IntentNoted
  BY <1>1 DEF OnceOK, AllKnow
<1>3. run'.saver = "creating" => IntentNoted'
  BY <1>1, <1>2 DEF IntentNoted, IntentComing, Knows
<1> QED BY <1>1, <1>2, <1>3, OnceQuiet

\* The first request is on its way, or was answered.
LEMMA SentOnce ==
  ASSUME CopiesOK, CopiesOK', OnceOK, SaverKeeps, run.saver = "creating", Awaited("saver"),
         run'.saver \notin {"intent", "creating"}, Knows(run'),
         \/ stash' = stash /\ \E t \in Texts : late' = late \cup {[id |-> None, text |-> t]}
         \/ late' = late /\ \E d \in Ids : ~Created(d) /\ Created(d)' /\ \A e \in Ids \ {d} : Created(e)' => Created(e)
  PROVE  OnceOK'
<1>1. run # None /\ run' # None /\ disk' = disk /\ QueueMoves /\ seen' = seen
  BY DEF SaverKeeps
<1>2. ~Started /\ IntentNoted /\ seen.begun /\ ~seen.listed
  BY <1>1 DEF OnceOK, AllKnow, Started
<1>3. OneRequest'
  <2>1. ~Asked /\ \A d \in Ids : ~Created(d)
    BY <1>2 DEF Started
  <2>2. CASE stash' = stash /\ \E t \in Texts : late' = late \cup {[id |-> None, text |-> t]}
    BY <2>1, <2>2 DEF Asked, Created, OneRequest
  <2>3. CASE late' = late /\ \E d \in Ids : ~Created(d) /\ Created(d)' /\ \A e \in Ids \ {d} : Created(e)' => Created(e)
    BY <2>1, <2>3 DEF Asked, OneRequest
  <2> QED BY <2>2, <2>3
<1>4. AllKnow'
  <2>1. /\ disk["new"] # None => Knows(disk["new"])
        /\ \A i \in DOMAIN writes : writes[i].key = "new" => Knows(writes[i].copy)
    BY <1>2, NotedKnown
  <2>2. ASSUME NEW i \in DOMAIN writes', writes'[i].key = "new" PROVE Knows(writes'[i].copy)
    <3>1. CASE writes' = writes
      BY <2>1, <2>2, <3>1
    <3>2. ASSUME NEW by \in By, Saved(by) PROVE Knows(writes'[i].copy)
      <4>1. CASE i = Len(writes) + 1
        BY <1>1, <3>2, <4>1, Queued DEF Knows, CopyOf
      <4>2. CASE i # Len(writes) + 1
        <5>1. i \in DOMAIN writes /\ writes'[i] = writes[i]
          BY <1>1, <2>2, <3>2, <4>2, Queued
        <5> QED BY <2>1, <2>2, <5>1
      <4> QED BY <4>1, <4>2
    <3> QED BY <1>1, <3>1, <3>2 DEF QueueMoves
  <2> QED BY <1>1, <2>1, <2>2 DEF AllKnow, Knows
<1> QED BY <1>1, <1>2, <1>3, <1>4 DEF OnceOK

LEMMA OpOnce ==
  ASSUME CopiesOK, CopiesOK', OnceOK, OpKeeps, disk'["new"] = disk["new"], seen'.begun = seen.begun /\ seen'.listed = seen.listed,
         writes' = writes \/ run'.op \notin {"idle", "begin"}
  PROVE  OnceOK'
<1>1. SameCreates
  BY DEF OpKeeps, SameCreates, Created
<1>2. EditorOK(run)'
  BY DEF CopiesOK, RunOK, OpKeeps
<1>3. ASSUME run'.saver \in {"intent", "creating"} PROVE ~Started /\ IntentNoted'
  <2>1. writes' = writes /\ run.saver \in {"intent", "creating"} /\ run # None
    BY <1>2, <1>3 DEF EditorOK, SaverOK, OpKeeps
  <2>2. ~Started /\ IntentNoted
    BY <2>1 DEF OnceOK, AllKnow
  <2> QED BY <2>1, <2>2 DEF IntentNoted, IntentComing, Knows
<1> QED BY <1>1, <1>3, OnceQuiet DEF OpKeeps, Knows

LEMMA EditOnce == ASSUME CopiesOK, CopiesOK', OnceOK, NEW t, EditStep(t) PROVE OnceOK'
<1>1. SameCreates /\ QueueMoves /\ run # None /\ run' # None /\ disk' = disk /\ seen' = seen /\ (Knows(run) => Knows(run'))
      /\ run'.saver = run.saver
  BY DEF EditStep, SameCreates, QueueMoves, By, Knows, Created
<1>2. EditorOK(run)
  BY <1>1 DEF CopiesOK, RunOK
<1>3. ASSUME run'.saver \in {"intent", "creating"} PROVE ~Started /\ IntentNoted'
  <2>1. ~Started /\ IntentNoted
    BY <1>1, <1>3 DEF OnceOK, AllKnow
  <2>2. Knows(run') /\ Saved("edit")
    BY <1>1, <1>2, <1>3, NameAssumption DEF EditStep, EditorOK, SaverOK, Knows
  <2> QED BY <1>1, <2>1, <2>2, NotedQueue DEF By
<1> QED BY <1>1, <1>3, OnceQuiet

\* New Post is opened: from its copy, or for the first time.
LEMMA NewPostOnce == ASSUME CopiesOK, CopiesOK', OnceOK, NewPostStep PROVE OnceOK'
<1>1. SameCreates /\ run' # None /\ disk' = disk /\ QueueMoves /\ run'.saver = "idle" /\ seen'.begun /\ seen'.listed = seen.listed
  <2>1. seen \in [begun : BOOLEAN, listed : BOOLEAN, blind : BOOLEAN, finished : BOOLEAN, minted : 0..MaxJournals]
    BY DEF CopiesOK, RestOK
  <2> QED BY <2>1 DEF NewPostStep, SameCreates, Created, OnceOK
<1>2. OneRequest' /\ (Started' <=> Started)
  BY <1>1, SameOnce DEF OnceOK
<1>3. ASSUME Started PROVE AllKnow'
  <2>1. disk["new"] # None /\ AllKnow
    BY <1>3 DEF NewPostStep, OnceOK
  <2>2. Knows(run')
    BY <2>1 DEF NewPostStep, AllKnow, Knows
  <2> QED BY <1>1, <2>1, <2>2, KnowsQueue
<1> QED BY <1>1, <1>2, <1>3 DEF OnceOK, SameCreates

LEMMA ListedOnce == ASSUME CopiesOK, CopiesOK', OnceOK, NEW d \in Ids, ListedStep(d) PROVE OnceOK'
<1>1. SameCreates /\ run' # None /\ disk' = disk /\ QueueMoves /\ run'.saver = "idle" /\ seen'.begun = seen.begun
  <2>1. seen \in [begun : BOOLEAN, listed : BOOLEAN, blind : BOOLEAN, finished : BOOLEAN, minted : 0..MaxJournals]
    BY DEF CopiesOK, RestOK
  <2> QED BY <2>1 DEF ListedStep, SameCreates, Created
<1>2. OneRequest' /\ (Started' <=> Started)
  BY <1>1, SameOnce DEF OnceOK
<1>3. Started /\ AllKnow /\ seen.begun /\ Created(d)'
  BY <1>1 DEF ListedStep, Started, OnceOK, SameCreates
<1>4. Knows(run')
  BY NameAssumption DEF ListedStep, Knows
<1>5. AllKnow'
  BY <1>1, <1>3, <1>4, KnowsQueue
<1> QED BY <1>1, <1>2, <1>3, <1>5 DEF OnceOK

Mirrored(x, w) == x.key = run.cloud.id /\ x.key # "new" /\ x.copy = CopyOf(run) /\ x.by = w.by /\ ~x.mirrors

\* What is still to be saved moves up by one, and the mirror may follow it.
LEMMA Drained ==
  ASSUME CopiesOK, CopiesOK', NEW w, DrainStep(w)
  PROVE  /\ 1 \in DOMAIN writes /\ writes[1] = w /\ WriteOK(w) /\ DOMAIN writes \subseteq Nat /\ DOMAIN writes' \subseteq Nat
         /\ \A i \in DOMAIN writes : i >= 1 /\ (i > 1 => i - 1 \in DOMAIN writes' /\ writes'[i - 1] = writes[i])
         /\ \A j \in DOMAIN writes' :
              \/ j + 1 \in DOMAIN writes /\ writes'[j] = writes[j + 1]
              \/ Mirrors(w) /\ Mirrored(writes'[j], w)
         /\ Mirrors(w) => \E p \in DOMAIN writes' : Mirrored(writes'[p], w) /\ \A i \in DOMAIN writes : i <= p
<1>1. PICK n, p, m : n = Len(writes) /\ p = Len(writes') /\ m = Mirror(w)
  OBVIOUS
<1>2. DOMAIN writes = 1..n /\ DOMAIN writes' = 1..p /\ p \in Nat
  BY <1>1, QueueStands DEF CopiesOK, WritesOK
<1>3. /\ n \in Nat \ {0} /\ w = writes[1] /\ \A i \in 1..(n - 1) : writes'[i] = writes[i + 1]
      /\ Mirrors(w) => p = n /\ writes'[n] = m
      /\ ~Mirrors(w) => p = n - 1
  BY <1>1 DEF DrainStep
<1>4. Mirrors(w) => Mirrored(m, w)
  BY <1>1, NameAssumption DEF Mirrors, Mirrored, Mirror, CopiesOK, RunOK, EditorOK, Editor, Cloud
<1>5. 1 \in DOMAIN writes /\ WriteOK(w)
  BY <1>2, <1>3 DEF CopiesOK, WritesOK
<1>6. ASSUME NEW i \in DOMAIN writes PROVE i >= 1 /\ (i > 1 => i - 1 \in DOMAIN writes' /\ writes'[i - 1] = writes[i])
  <2>1. i \in 1..n
    BY <1>2
  <2>2. ASSUME i > 1 PROVE i - 1 \in DOMAIN writes' /\ writes'[i - 1] = writes[i]
    <3>1. i - 1 \in 1..(n - 1) /\ i - 1 + 1 = i /\ i - 1 \in 1..p
      BY <1>3, <2>1, <2>2
    <3> QED BY <1>2, <1>3, <3>1
  <2> QED BY <1>3, <2>1, <2>2
<1>7. ASSUME NEW j \in DOMAIN writes'
      PROVE  \/ j + 1 \in DOMAIN writes /\ writes'[j] = writes[j + 1]
             \/ Mirrors(w) /\ Mirrored(writes'[j], w)
  <2>1. j \in 1..p
    BY <1>2
  <2>2. CASE j \in 1..(n - 1)
    <3>1. j + 1 \in 1..n
      BY <1>3, <2>2
    <3> QED BY <1>2, <1>3, <2>2, <3>1
  <2>3. CASE j \notin 1..(n - 1)
    <3>1. Mirrors(w) /\ j = n /\ p = n
      BY <1>2, <1>3, <2>1, <2>3
    <3> QED BY <1>3, <1>4, <3>1
  <2> QED BY <2>2, <2>3
<1>8. DOMAIN writes \subseteq Nat /\ DOMAIN writes' \subseteq Nat
  BY <1>2
<1>9. Mirrors(w) => p \in DOMAIN writes' /\ Mirrored(writes'[p], w) /\ \A i \in DOMAIN writes : i <= p
  BY <1>2, <1>3, <1>4
<1> QED BY <1>1, <1>3, <1>5, <1>6, <1>7, <1>8, <1>9

LEMMA DrainOnce == ASSUME CopiesOK, CopiesOK', OnceOK, NEW w, DrainStep(w) PROVE OnceOK'
<1>1. disk' = [disk EXCEPT ![w.key] = w.copy] /\ writes # <<>> /\ UNCHANGED <<stash, late, run, cleaner, sent, seen, used>>
  BY DEF DrainStep
<1>2. /\ 1 \in DOMAIN writes /\ writes[1] = w /\ DOMAIN writes \subseteq Nat /\ DOMAIN writes' \subseteq Nat
      /\ \A i \in DOMAIN writes : i >= 1 /\ (i > 1 => i - 1 \in DOMAIN writes' /\ writes'[i - 1] = writes[i])
  BY Drained
<1>3. ASSUME NEW j \in DOMAIN writes', writes'[j].key = "new" PROVE j + 1 \in DOMAIN writes /\ writes'[j] = writes[j + 1]
  BY <1>3, Drained DEF Mirrored
<1>4. OneRequest' /\ (Started' <=> Started) /\ SameCreates
  <2>1. SameCreates
    BY <1>1 DEF SameCreates, Created
  <2> QED BY <2>1, SameOnce DEF OnceOK
<1>5. seen'.begun
  BY <1>1 DEF OnceOK
<1>6. disk'["new"] = IF w.key = "new" THEN w.copy ELSE disk["new"]
  BY <1>1 DEF CopiesOK, DiskOK, Slots
<1>7. ASSUME Started PROVE AllKnow'
  <2>1. AllKnow
    BY <1>7 DEF OnceOK
  <2>2. disk'["new"] # None => Knows(disk'["new"])
    BY <1>2, <1>6, <2>1 DEF AllKnow
  <2>3. ASSUME NEW i \in DOMAIN writes', writes'[i].key = "new" PROVE Knows(writes'[i].copy)
    BY <1>3, <2>1, <2>3 DEF AllKnow
  <2> QED BY <1>1, <2>1, <2>2, <2>3 DEF AllKnow, Knows
<1>8. ASSUME run # None, run.saver \in {"intent", "creating"} PROVE IntentNoted'
  <2>1. IntentNoted
    BY <1>8 DEF OnceOK
  <2>2. ASSUME NEW m \in Nat, IntentComing(m + 1) PROVE IntentComing(m)'
    <3>1. PICK i \in DOMAIN writes : i > m + 1 /\ writes[i].by = "saver" /\ writes[i].key = "new"
      BY <2>2 DEF IntentComing
    <3>2. i \in Nat /\ i > 1
      BY <1>2, <3>1
    <3>3. i - 1 \in DOMAIN writes' /\ writes'[i - 1] = writes[i] /\ i - 1 > m
      BY <1>2, <3>1, <3>2
    <3> QED BY <3>1, <3>3 DEF IntentComing
  <2>3. ASSUME IntentComing(0), w.key # "new" PROVE IntentComing(0)'
    <3>1. PICK i \in DOMAIN writes : i > 0 /\ writes[i].by = "saver" /\ writes[i].key = "new"
      BY <2>3 DEF IntentComing
    <3>2. i \in Nat /\ i > 1
      BY <1>2, <2>3, <3>1
    <3>3. i - 1 \in DOMAIN writes' /\ writes'[i - 1] = writes[i] /\ i - 1 > 0
      BY <1>2, <3>1, <3>2
    <3> QED BY <3>1, <3>3 DEF IntentComing
  <2>4. disk'["new"] # None => Knows(disk'["new"]) \/ IntentComing(0)'
    <3>1. CASE w.key = "new"
      <4>1. Knows(w.copy) \/ IntentComing(0 + 1)
        BY <1>2, <2>1, <3>1 DEF IntentNoted
      <4> QED BY <1>6, <2>2, <3>1, <4>1
    <3>2. CASE w.key # "new"
      BY <1>6, <2>1, <2>3, <3>2 DEF IntentNoted
    <3> QED BY <3>1, <3>2
  <2>5. ASSUME NEW j \in DOMAIN writes', writes'[j].key = "new" PROVE Knows(writes'[j].copy) \/ IntentComing(j)'
    <3>1. j + 1 \in DOMAIN writes /\ writes'[j] = writes[j + 1] /\ j \in Nat
      BY <1>2, <1>3, <2>5
    <3>2. Knows(writes[j + 1].copy) \/ IntentComing(j + 1)
      BY <2>1, <2>5, <3>1 DEF IntentNoted
    <3> QED BY <2>2, <3>1, <3>2
  <2> QED BY <2>4, <2>5 DEF IntentNoted, Knows
<1> QED BY <1>1, <1>4, <1>5, <1>7, <1>8 DEF OnceOK, SameCreates

\* The copy under New Post goes, or what replaces it knows as much; nothing is queued.
LEMMA SettledOnce ==
  ASSUME OnceOK, SameCreates, writes' = writes,
         run' = None \/ (run # None /\ run'.cloud = run.cloud /\ run'.saver = run.saver),
         \/ disk'["new"] \in {disk["new"], None}
         \/ disk["new"] # None /\ (Knows(disk["new"]) => Knows(disk'["new"])),
         seen'.begun = seen.begun /\ seen'.listed = seen.listed
  PROVE  OnceOK'
<1>1. OneRequest' /\ (Started' <=> Started)
  BY SameOnce DEF OnceOK
<1>2. Started => AllKnow'
  BY DEF OnceOK, AllKnow, Knows
<1>3. run' # None /\ run'.saver \in {"intent", "creating"} => IntentNoted'
  BY DEF OnceOK, IntentNoted, IntentComing, Knows
<1>4. ~seen'.begun => run' = None /\ writes' = <<>> /\ disk'["new"] = None
  BY DEF OnceOK
<1> QED BY <1>1, <1>2, <1>3, <1>4 DEF OnceOK, SameCreates

\* What settling a copy does to the one under New Post.
LEMMA SettlesNew ==
  ASSUME CopiesOK, NEW k, NEW c, Settles(k, c)
  PROVE  \/ disk'["new"] \in {disk["new"], None}
         \/ disk["new"] # None /\ (Knows(disk["new"]) => Knows(disk'["new"]))
BY DEF Settles, CopiesOK, DiskOK, Slots

LEMMA CleanOnce == ASSUME CopiesOK, OnceOK, CleanStep PROVE OnceOK'
<1>1. SameCreates /\ writes' = writes /\ run' = run
  BY DEF CleanStep, SameCreates
<1>2. seen'.begun = seen.begun /\ seen'.listed = seen.listed
  BY DEF CleanStep, CopiesOK, RestOK
<1>3. \/ disk'["new"] \in {disk["new"], None}
      \/ disk["new"] # None /\ (Knows(disk["new"]) => Knows(disk'["new"]))
  BY SettlesNew DEF CleanStep
<1> QED BY <1>1, <1>2, <1>3, SettledOnce

LEMMA ArchiveOnce == ASSUME CopiesOK, OnceOK, ArchiveStep PROVE OnceOK'
<1>1. SameCreates /\ writes' = writes /\ seen' = seen /\ run # None
  BY DEF ArchiveStep, SameCreates, Created
<1>2. run' = None \/ (run'.cloud = run.cloud /\ run'.saver = run.saver)
  BY DEF ArchiveStep, CopyOf
<1>3. \/ disk'["new"] \in {disk["new"], None}
      \/ disk["new"] # None /\ (Knows(disk["new"]) => Knows(disk'["new"]))
  BY SettlesNew DEF ArchiveStep
<1> QED BY <1>1, <1>2, <1>3, SettledOnce

LEMMA ClosedOnce == ASSUME CopiesOK, OnceOK, ClosedStep PROVE OnceOK'
<1>1. SameCreates /\ writes' = writes /\ seen' = seen /\ run' = None
  BY DEF ClosedStep, SameCreates, Created
<1>2. disk'["new"] \in {disk["new"], None}
  BY DEF ClosedStep, CopiesOK, DiskOK, Slots
<1> QED BY <1>1, <1>2, SettledOnce

LEMMA CrashOnce == ASSUME OnceOK, Crash PROVE OnceOK'
<1>1. SameCreates /\ writes' = <<>> /\ seen' = seen /\ run' = None /\ disk' = disk
  BY DEF Crash, SameCreates, Created
<1>2. OneRequest' /\ (Started' <=> Started)
  BY <1>1, SameOnce DEF OnceOK
<1> QED BY <1>1, <1>2 DEF OnceOK, AllKnow, SameCreates, Knows

LEMMA LateOnce == ASSUME OnceOK, LateStep PROVE OnceOK'
<1>1. PICK req \in late :
        /\ late' = late \ {req} /\ UNCHANGED <<disk, writes, run, cleaner, sent, mind, seen, used>>
        /\ \/ /\ req.id = None
              /\ \E d \in Ids : /\ ~Created(d) /\ Created(d)'
                                /\ \A e \in Ids : e # d => (Created(e)' <=> Created(e))
           \/ /\ req.id # None /\ \A e \in Ids : Created(e)' <=> Created(e)
  BY DEF LateStep
<1>2. CASE req.id # None
  <2>1. SameCreates
    BY <1>1, <1>2 DEF SameCreates
  <2> QED BY <1>1, <2>1, SettledOnce
<1>3. CASE req.id = None
  <2>1. Asked /\ Started /\ AllKnow /\ OneRequest
    BY <1>3 DEF Asked, Started, OnceOK
  <2>2. ~Asked'
    BY <1>1, <1>3, <2>1 DEF OneRequest, Asked
  <2>3. \A d \in Ids : ~Created(d)
    BY <2>1 DEF OneRequest
  <2>4. OneRequest'
    BY <1>1, <1>3, <2>2, <2>3 DEF OneRequest, Asked
  <2>5. AllKnow'
    BY <1>1, <2>1 DEF AllKnow, Knows
  <2> QED BY <1>1, <2>1, <2>3, <2>4, <2>5 DEF OnceOK, AllKnow
<1> QED BY <1>2, <1>3

LEMMA OtherOnce == ASSUME OnceOK, OtherStep PROVE OnceOK'
<1>1. SameCreates /\ UNCHANGED <<disk, writes, run, seen>>
  BY DEF OtherStep, SameCreates
<1> QED BY <1>1, SettledOnce

LEMMA OnceInit == ASSUME Init PROVE OnceOK
<1>1. ~Started
  BY DEF Init, Started, Asked, Created
<1> QED BY <1>1 DEF Init, OnceOK, OneRequest, Asked, Created, Slots

LEMMA SavingOnce == ASSUME CopiesOK, CopiesOK', OnceOK, Saving PROVE OnceOK'
<1>1. CASE SaveStarts \/ SaveBegins \/ Reconcile \/ Confirm \/ Recheck \/ Loop \/ CreateRecorded \/ UpdateSent \/ UpdateRejected
  <2>1. SaverCalm
    BY <1>1, SaveStartsOK, SaveBeginsOK, ReconcileOK, ConfirmOK, RecheckOK, LoopOK, CreateRecordedOK, UpdateSentOK, UpdateRejectedOK
  <2> QED BY <2>1, CalmOnce
<1>2. CASE Check
  BY <1>2, CheckOK, CalmOnce, IntentOnce
<1>3. CASE IntentSaved
  BY <1>3, IntentSavedOK, CreatingOnce
<1>4. CASE CreateRejected
  BY <1>4, CreateRejectedOK, CreatingOnce
<1>5. CASE CreateUnknown
  BY <1>5, CreateUnknownOK, SentOnce
<1>6. CASE CreateAnswered
  BY <1>6, CreateAnsweredOK, SentOnce
<1> QED BY <1>1, <1>2, <1>3, <1>4, <1>5, <1>6 DEF Saving

LEMMA PublishingOnce == ASSUME CopiesOK, CopiesOK', OnceOK, Publishing PROVE OnceOK'
<1>1. seen \in [begun : BOOLEAN, listed : BOOLEAN, blind : BOOLEAN, finished : BOOLEAN, minted : 0..MaxJournals]
  BY DEF CopiesOK, RestOK
<1>2. ASSUME OpCalm, writes' = writes \/ run'.op \notin {"idle", "begin"} PROVE OnceOK'
  <2>1. seen'.begun = seen.begun /\ seen'.listed = seen.listed
    BY <1>1, <1>2 DEF OpCalm
  <2> QED BY <1>2, <2>1, OpOnce DEF OpCalm
<1>3. CASE Publish \/ PublishBegins \/ Prepare \/ Checkpoint
  BY <1>2, <1>3, PublishOK, PublishBeginsOK, PrepareOK, CheckpointOK
<1>4. CASE PublishFails \/ Complete \/ CloseStarts
  BY <1>2, <1>4, PublishFailsOK, CompleteOK, CloseStartsOK
<1>5. CASE SendPost
  <2>1. OpKeeps /\ writes' = writes /\ disk' = disk /\ seen' = [seen EXCEPT !.blind = @ \/ Uncertain(run.cloud)]
    BY <1>5, SendPostOK
  <2>2. seen'.begun = seen.begun /\ seen'.listed = seen.listed
    BY <1>1, <2>1
  <2> QED BY <2>1, <2>2, OpOnce
<1>6. CASE CloseMirrors
  <2>1. OpKeeps /\ writes' = writes /\ seen' = seen
    BY <1>6, CloseMirrorsOK
  <2>2. disk'["new"] = disk["new"]
    BY <1>6, CloseMirrorsOK, NameAssumption DEF CopiesOK, DiskOK, Slots
  <2> QED BY <2>1, <2>2, OpOnce
<1>7. CASE Archive
  BY <1>7, ArchiveOK, ArchiveOnce
<1>8. CASE CloseFrees \/ CloseLocked
  BY <1>8, ClosesOK, ClosedOnce
<1> QED BY <1>3, <1>4, <1>5, <1>6, <1>7, <1>8 DEF Publishing

LEMMA OnceStep == ASSUME CopiesOK, OnceOK, [Next]_vars PROVE OnceOK'
<1>1. CopiesOK'
  BY CopiesStep
<1>2. CASE Saving \/ Publishing
  BY <1>1, <1>2, SavingOnce, PublishingOnce
<1>3. CASE OpenNewPost
  BY <1>1, <1>3, OpenNewPostOK, NewPostOnce
<1>4. ASSUME NEW d \in Ids, OpenListed(d) PROVE OnceOK'
  BY <1>1, <1>4, OpenListedOK, ListedOnce
<1>5. ASSUME NEW t \in Texts, Edit(t) PROVE OnceOK'
  BY <1>1, <1>5, EditOK, EditOnce
<1>6. CASE SaveDone
  BY <1>1, <1>6, SaveDoneOK, DrainOnce
<1>7. CASE Cleaning
  BY <1>7, CleaningOK, CleanOnce
<1>8. CASE Crash
  BY <1>8, CrashOnce
<1>9. CASE TakesEffectLate
  BY <1>9, LateOK, LateOnce
<1>10. CASE OtherDeviceEdits
  BY <1>10, OtherOK, OtherOnce
<1>11. CASE UNCHANGED vars
  <2>1. SameCreates /\ UNCHANGED <<disk, writes, run, seen>>
    BY <1>11 DEF vars, SameCreates, Created
  <2> QED BY <2>1, SettledOnce
<1> QED BY <1>2, <1>3, <1>4, <1>5, <1>6, <1>7, <1>8, <1>9, <1>10, <1>11 DEF Next

LEMMA OnceHolds == Spec => [](CopiesOK /\ OnceOK)
<1>1. Init => CopiesOK /\ OnceOK
  BY CopiesInit, OnceInit
<1>2. CopiesOK /\ OnceOK /\ [Next]_vars => (CopiesOK /\ OnceOK)'
  BY CopiesStep, OnceStep
<1> QED BY <1>1, <1>2, PTL DEF Spec

\* CreatedOnce: whatever became of the first create, no page, reload or other slot
\* sends a second one (saveRemote, reconcileCreate: at most one draft upstream).
THEOREM CreatedAtMostOnce == Spec => []CreatedOnce
<1>1. ASSUME OnceOK PROVE CreatedOnce
  <2>1. PICK S : S = {d \in Ids : Created(d)}
    OBVIOUS
  <2>2. \A d, e \in S : d = e
    BY <1>1, <2>1 DEF OnceOK, OneRequest
  <2>3. CASE S = {}
    BY <2>1, <2>3, FS_EmptySet DEF CreatedOnce
  <2>4. ASSUME NEW d \in S PROVE CreatedOnce
    <3>1. S = {d}
      BY <2>2
    <3>2. Cardinality(S) = 1
      BY <3>1, FS_Singleton
    <3> QED BY <2>1, <3>2 DEF CreatedOnce
  <2> QED BY <2>3, <2>4
<1> QED BY <1>1, OnceHolds, PTL
-----------------------------------------------------------------------------
(* The journal: which copies are saved, and from where.                    *)

LEMMA QueueSlots ==
  ASSUME CopiesOK, CopiesOK', OnceOK, SlotsKept, run # None, run' # None, QueueMoves, run'.slot = run.slot,
         run'.cloud.id = run.cloud.id \/ run.cloud.id = None, seen'.begun = seen.begun /\ seen'.listed = seen.listed
  PROVE  SlotsKept'
<1>1. EditorOK(run) /\ run.slot \in {"new"} \cup Ids
  BY DEF CopiesOK, RunOK, EditorOK, Editor
<1>2. seen'.begun
  BY DEF OnceOK
<1>3. ASSUME NEW i \in DOMAIN writes' PROVE writes'[i].key \in {run'.slot, run'.cloud.id} /\ (writes'[i].key = "new" => run.slot = "new" \/ \E j \in DOMAIN writes : writes[j].key = "new")
  <2>1. ASSUME i \in DOMAIN writes, writes'[i] = writes[i] PROVE writes'[i].key \in {run'.slot, run'.cloud.id}
    <3>1. writes[i].key \in {run.slot, run.cloud.id} /\ writes[i].key \in {"new"} \cup Ids
      BY <2>1 DEF SlotsKept, CopiesOK, WritesOK, WriteOK, Write
    <3> QED BY <1>1, <2>1, <3>1, NameAssumption DEF EditorOK
  <2>2. CASE writes' = writes
    BY <1>3, <2>1, <2>2
  <2>3. ASSUME NEW by \in By, Saved(by)
        PROVE  writes'[i].key \in {run'.slot, run'.cloud.id} /\ (writes'[i].key = "new" => run.slot = "new" \/ \E j \in DOMAIN writes : writes[j].key = "new")
    <3>1. CASE i = Len(writes) + 1
      BY <2>3, <3>1, Queued
    <3>2. CASE i # Len(writes) + 1
      <4>1. i \in DOMAIN writes /\ writes'[i] = writes[i]
        BY <1>3, <2>3, <3>2, Queued
      <4> QED BY <2>1, <4>1
    <3> QED BY <3>1, <3>2
  <2> QED BY <2>2, <2>3 DEF QueueMoves
<1> QED BY <1>2, <1>3 DEF SlotsKept

LEMMA QuietSlots ==
  ASSUME SlotsKept, writes' = writes, sent' = sent, seen'.begun = seen.begun /\ seen'.listed = seen.listed,
         run' = None \/ (run # None /\ run'.slot = run.slot /\ run'.cloud.id = run.cloud.id)
  PROVE  SlotsKept'
BY DEF SlotsKept

LEMMA NewPostSlots == ASSUME CopiesOK, CopiesOK', OnceOK, SlotsKept, NewPostStep PROVE SlotsKept'
<1>1. writes = <<>> /\ run' # None /\ run'.slot = "new" /\ QueueMoves /\ seen'.begun /\ seen'.listed = seen.listed /\ (seen.listed => LeftoverReopened)
  <2>1. seen \in [begun : BOOLEAN, listed : BOOLEAN, blind : BOOLEAN, finished : BOOLEAN, minted : 0..MaxJournals]
    BY DEF CopiesOK, RestOK
  <2> QED BY <2>1 DEF NewPostStep, OnceOK
<1>2. ASSUME NEW i \in DOMAIN writes' PROVE writes'[i].key = "new"
  <2>1. ASSUME NEW by \in By, Saved(by) PROVE writes'[i].key = "new"
    <3>1. DOMAIN writes' = 1..(Len(writes) + 1) /\ Len(writes) = 0 /\ writes'[Len(writes) + 1].key = "new"
      BY <1>1, <2>1, Queued
    <3> QED BY <1>2, <3>1
  <2> QED BY <1>1, <1>2, <2>1 DEF QueueMoves
<1> QED BY <1>1, <1>2 DEF SlotsKept

LEMMA ListedSlots == ASSUME CopiesOK, CopiesOK', OnceOK, SlotsKept, NEW d \in Ids, ListedStep(d) PROVE SlotsKept'
<1>1. writes = <<>> /\ run' # None /\ run'.slot = d /\ seen'.begun = seen.begun /\ seen'.listed /\ sent' = sent /\ Saved("edit")
  <2>1. seen \in [begun : BOOLEAN, listed : BOOLEAN, blind : BOOLEAN, finished : BOOLEAN, minted : 0..MaxJournals]
    BY DEF CopiesOK, RestOK
  <2> QED BY <2>1 DEF ListedStep
<1>2. ASSUME NEW i \in DOMAIN writes' PROVE writes'[i].key = d
  <2>1. DOMAIN writes' = 1..(Len(writes) + 1) /\ Len(writes) = 0 /\ writes'[Len(writes) + 1].key = d
    BY <1>1, Queued DEF By
  <2> QED BY <1>2, <2>1
<1> QED BY <1>1, <1>2, NameAssumption DEF SlotsKept

LEMMA DrainSlots == ASSUME CopiesOK, CopiesOK', SlotsKept, NEW w, DrainStep(w) PROVE SlotsKept'
<1>1. UNCHANGED <<run, seen, sent>>
  BY DEF DrainStep
<1>2. ASSUME NEW i \in DOMAIN writes'
      PROVE  \/ i + 1 \in DOMAIN writes /\ writes'[i] = writes[i + 1]
             \/ Mirrors(w) /\ writes'[i].key = run.cloud.id /\ writes'[i].key # "new"
  BY Drained DEF Mirrored
<1> QED BY <1>1, <1>2 DEF SlotsKept, Mirrors

LEMMA CrashSlots == ASSUME SlotsKept, Crash PROVE SlotsKept'
BY DEF SlotsKept, Crash
-----------------------------------------------------------------------------
(* The journal that is about to be sent.                                   *)

\* The attempt is saved last, before anything is sent.
LEMMA CheckpointNoted ==
  ASSUME CopiesOK, CopiesOK', run' # None, Saved("op") PROVE \A s \in {run'.slot, run'.cloud.id} \ {None} : JournalNoted(s)'
<1>1. PICK n : n = Len(writes) + 1
  OBVIOUS
<1>2. /\ n \in Nat \ {0} /\ DOMAIN writes' = 1..n /\ writes'[n].key = run'.slot /\ writes'[n].copy = CopyOf(run')
      /\ writes'[n].by = "op" /\ writes'[n].mirrors
  BY <1>1, Queued DEF By
<1>3. ASSUME NEW s, NEW j \in 0..(n - 1) PROVE JournalComing(j, s)'
  <2>1. n \in DOMAIN writes' /\ n > j
    BY <1>2
  <2> QED BY <1>2, <2>1 DEF JournalComing
<1>4. Carries(writes[n].copy)'
  BY <1>2 DEF Carries, CopyOf
<1>5. ASSUME NEW s, NEW j \in DOMAIN writes' PROVE Carries(writes[j].copy)' \/ JournalComing(j, s)'
  <2>1. j = n \/ j \in 0..(n - 1)
    BY <1>2
  <2> QED BY <1>3, <1>4, <2>1
<1>6. ASSUME NEW s PROVE JournalComing(0, s)'
  <2>1. 0 \in 0..(n - 1)
    BY <1>2
  <2> QED BY <1>3, <2>1
<1> QED BY <1>5, <1>6 DEF JournalNoted

LEMMA DrainNoted == ASSUME CopiesOK, CopiesOK', SendNoted, NEW w, DrainStep(w) PROVE SendNoted'
<1>1. UNCHANGED run /\ disk' = [disk EXCEPT ![w.key] = w.copy]
  BY DEF DrainStep
<1>2. /\ 1 \in DOMAIN writes /\ writes[1] = w /\ DOMAIN writes \subseteq Nat /\ DOMAIN writes' \subseteq Nat
      /\ \A i \in DOMAIN writes : i >= 1 /\ (i > 1 => i - 1 \in DOMAIN writes' /\ writes'[i - 1] = writes[i])
      /\ Mirrors(w) => \E p \in DOMAIN writes' : Mirrored(writes'[p], w) /\ \A i \in DOMAIN writes : i <= p
  BY Drained
<1>3. ASSUME NEW j \in DOMAIN writes'
      PROVE  (j + 1 \in DOMAIN writes /\ writes'[j] = writes[j + 1]) \/ (Mirrors(w) /\ Mirrored(writes'[j], w))
  BY Drained
<1>4. ASSUME run # None, run.op = "send", NEW s, s \in {run.slot, run.cloud.id}, s # None PROVE JournalNoted(s)'
  <2>1. JournalNoted(s)
    BY <1>4 DEF SendNoted
  <2>2. s \in Slots
    BY <1>4 DEF CopiesOK, RunOK, EditorOK, Editor, Cloud, Slots
  <2>3. disk'[s] = IF w.key = s THEN w.copy ELSE disk[s]
    BY <1>1, <2>2 DEF CopiesOK, DiskOK
  \* What was to come after the m + 1st save comes after the m-th now.
  <2>4. ASSUME NEW m \in Nat, m = 0 \/ m + 1 \in DOMAIN writes, NEW i \in DOMAIN writes, writes[i].by = "op",
               \/ i > m + 1 /\ writes[i].key = s
               \/ m = 0 /\ w.key # s /\ writes[i].key = s
               \/ s # run.slot /\ writes[i].key = run.slot /\ writes[i].mirrors
        PROVE  JournalComing(m, s)'
    <3>1. CASE i > 1
      <4>1. i - 1 \in DOMAIN writes' /\ writes'[i - 1] = writes[i] /\ i \in Nat
        BY <1>2, <3>1
      <4>2. i > m + 1 => i - 1 > m
        BY <4>1
      <4>3. m = 0 => i - 1 > m
        BY <3>1, <4>1
      <4> QED BY <1>1, <2>4, <4>1, <4>2, <4>3 DEF JournalComing
    <3>2. CASE ~(i > 1)
      <4>1. i = 1 /\ writes[i] = w
        BY <1>2, <3>2
      <4>2. ~(i > m + 1)
        BY <4>1, <2>4
      <4>3. s # run.slot /\ w.key = run.slot /\ w.mirrors /\ w.by = "op"
        BY <2>4, <4>1, <4>2
      <4>4. Mirrors(w) /\ s = run.cloud.id
        BY <1>4, <4>3 DEF Mirrors
      <4>5. PICK p \in DOMAIN writes' : Mirrored(writes'[p], w) /\ \A k \in DOMAIN writes : k <= p
        BY <1>2, <4>4
      <4>6. p > m /\ writes'[p].by = "op" /\ writes'[p].key = s
        BY <1>2, <2>4, <4>3, <4>4, <4>5 DEF Mirrored
      <4> QED BY <4>5, <4>6 DEF JournalComing
    <3> QED BY <3>1, <3>2
  <2>5. ASSUME NEW m \in Nat, m + 1 \in DOMAIN writes, JournalComing(m + 1, s) PROVE JournalComing(m, s)'
    <3>1. PICK i \in DOMAIN writes : /\ writes[i].by = "op"
                                     /\ \/ i > m + 1 /\ writes[i].key = s
                                        \/ s # run.slot /\ writes[i].key = run.slot /\ writes[i].mirrors
      BY <2>5 DEF JournalComing
    <3> QED BY <2>4, <2>5, <3>1
  <2>6. ASSUME JournalComing(0, s), w.key # s PROVE JournalComing(0, s)'
    <3>1. PICK i \in DOMAIN writes : /\ writes[i].by = "op"
                                     /\ \/ i > 0 /\ writes[i].key = s
                                        \/ s # run.slot /\ writes[i].key = run.slot /\ writes[i].mirrors
      BY <2>6 DEF JournalComing
    <3> QED BY <2>4, <2>6, <3>1
  <2>7. \/ IF disk'[s] = None THEN s = "new" ELSE Carries(disk[s])'
        \/ JournalComing(0, s)'
    <3>1. CASE w.key = s
      <4>1. Carries(w.copy) \/ JournalComing(0 + 1, s)
        BY <1>2, <2>1, <3>1 DEF JournalNoted
      <4>2. w.copy # None
        BY NoneAssumption DEF DrainStep, Write
      <4> QED BY <1>1, <1>2, <2>3, <2>5, <3>1, <4>1, <4>2 DEF Carries
    <3>2. CASE w.key # s
      BY <1>1, <2>1, <2>3, <2>6, <3>2 DEF JournalNoted, Carries
    <3> QED BY <3>1, <3>2
  <2>8. ASSUME NEW j \in DOMAIN writes', writes'[j].key = s PROVE Carries(writes[j].copy)' \/ JournalComing(j, s)'
    <3>1. CASE j + 1 \in DOMAIN writes /\ writes'[j] = writes[j + 1]
      <4>1. Carries(writes[j + 1].copy) \/ JournalComing(j + 1, s)
        BY <2>1, <2>8, <3>1 DEF JournalNoted
      <4>2. j \in Nat
        BY <1>2
      <4> QED BY <1>1, <2>5, <3>1, <4>1, <4>2 DEF Carries
    <3>2. CASE Mirrors(w) /\ Mirrored(writes'[j], w)
      BY <1>1, <3>2 DEF Mirrored, Carries, CopyOf
    <3> QED BY <1>3, <3>1, <3>2
  <2> QED BY <2>7, <2>8 DEF JournalNoted
<1> QED BY <1>1, <1>4 DEF SendNoted

\* The cleanup settles copies of completed compositions only.
LEMMA CleanNoted == ASSUME CopiesOK, SendNoted, CleanStep PROVE SendNoted'
<1>1. writes' = writes /\ run' = run
  BY DEF CleanStep
<1>2. ASSUME run # None, run.op = "send", NEW s, s \in {run.slot, run.cloud.id}, s # None PROVE JournalNoted(s)'
  <2>1. JournalNoted(s)
    BY <1>2 DEF SendNoted
  <2>2. s \in {"new"} \cup Ids
    BY <1>2 DEF CopiesOK, RunOK, EditorOK, Editor, Cloud
  <2>3. disk'[s] = disk[s] \/ (disk'[s] = None /\ s = "new") \/ (disk'[s] # None /\ disk'[s].cloud.done)
    BY <2>2, NameAssumption DEF CleanStep, Settles, CopiesOK, DiskOK, Slots
  <2> QED BY <1>1, <2>1, <2>3 DEF JournalNoted, Carries, JournalComing
<1> QED BY <1>1, <1>2 DEF SendNoted

LEMMA QuietNoted == ASSUME SendNoted, UNCHANGED <<run, writes, disk>> PROVE SendNoted'
BY DEF SendNoted, JournalNoted, Carries, JournalComing
-----------------------------------------------------------------------------
(* Once the post is sent, every copy can only send it again.               *)

\* A composition whose post was sent does not create its draft.
LEMMA PostedRests ==
  ASSUME NEW r, EditorOK(r), Posted(r) PROVE r.saver \in {"idle", "begin"} /\ (~r.stopped => Tried(r) /\ r.journal.key \in sent)
BY DEF EditorOK, SaverOK, Posted, Tried

\* The editor's copy is queued.
LEMMA QueuePosted ==
  ASSUME CopiesOK, CopiesOK', AllPosted, SameCreates, run' # None, Posted(run'), disk' = disk, sent' = sent, QueueMoves,
         seen'.listed = seen.listed
  PROVE  AllPosted'
<1>1. ASSUME NEW i \in DOMAIN writes' PROVE Posted(writes'[i].copy)
  <2>1. CASE writes' = writes
    BY <1>1, <2>1 DEF AllPosted
  <2>2. ASSUME NEW by \in By, Saved(by) PROVE Posted(writes'[i].copy)
    <3>1. CASE i = Len(writes) + 1
      <4>1. writes'[i].copy = CopyOf(run')
        BY <2>2, <3>1, Queued
      <4> QED BY <4>1 DEF Posted, CopyOf
    <3>2. CASE i # Len(writes) + 1
      <4>1. i \in DOMAIN writes /\ writes'[i] = writes[i]
        BY <1>1, <2>2, <3>2, Queued
      <4> QED BY <4>1 DEF AllPosted
    <3> QED BY <3>1, <3>2
  <2> QED BY <2>1, <2>2 DEF QueueMoves
<1>2. ~Asked'
  BY DEF Asked, SameCreates, AllPosted
<1> QED BY <1>1, <1>2 DEF AllPosted, SameCreates, Posted

\* Copies are settled, and nothing is queued.
LEMMA SettledPosted ==
  ASSUME AllPosted, SameCreates, sent' = sent, writes' = writes, run' = None \/ Posted(run'), seen.listed => seen'.listed,
         \A k \in Slots : \/ disk'[k] = disk[k]
                          \/ disk'[k] # None /\ Posted(disk'[k])
                          \/ disk'[k] = None /\ k \notin Ids
  PROVE  AllPosted'
<1>1. ~Asked'
  BY DEF Asked, SameCreates, AllPosted
<1>2. ASSUME NEW d \in Ids, Created(d)' PROVE disk'[d] # None /\ Posted(disk'[d])
  BY <1>2 DEF AllPosted, SameCreates, Slots
<1>3. disk'["new"] # None /\ ~seen'.listed => Posted(disk'["new"])
  BY DEF AllPosted, Slots
<1> QED BY <1>1, <1>2, <1>3 DEF AllPosted, Posted

LEMMA SettlesPosted ==
  ASSUME CopiesOK, NEW k, NEW c, Settles(k, c)
  PROVE  \A j \in Slots : \/ disk'[j] = disk[j]
                          \/ disk'[j] # None /\ Posted(disk'[j])
                          \/ disk'[j] = None /\ j \notin Ids
BY NameAssumption DEF Settles, CopiesOK, DiskOK, Posted

\* What was unsettled stays so.
LEMMA SettledBefore ==
  ASSUME Settled', Started => Started', seen.blind => seen'.blind PROVE Settled
BY DEF Settled

LEMMA SaverPosted == ASSUME CopiesOK, CopiesOK', Settled /\ sent # {} => AllPosted, SaverKeeps, SameCreates
  PROVE  Settled' /\ sent' # {} => AllPosted'
<1>1. /\ run # None /\ run' # None /\ QueueMoves /\ UNCHANGED <<disk, sent, seen>>
      /\ run'.journal = run.journal /\ run'.cloud.done = run.cloud.done
  BY DEF SaverKeeps
<1>2. ASSUME Settled', sent' # {} PROVE AllPosted'
  <2>1. Settled
    BY <1>1, <1>2, SettledBefore DEF SameCreates, Started, Asked
  <2>2. AllPosted /\ Posted(run')
    BY <1>1, <1>2, <2>1 DEF AllPosted, Posted
  <2> QED BY <1>1, <2>2, QueuePosted
<1> QED BY <1>2

\* A request for the draft, and an answer to it, are not to be where the post was sent.
LEMMA CreatePosted ==
  ASSUME CopiesOK, OnceOK, Settled /\ sent # {} => AllPosted, SaverKeeps, run.saver = "creating"
  PROVE  sent' = {}
<1>1. ~Started /\ EditorOK(run) /\ sent' = sent
  BY DEF OnceOK, AllKnow, SaverKeeps, CopiesOK, RunOK
<1>2. ASSUME sent # {} PROVE FALSE
  <2>1. AllPosted
    BY <1>1, <1>2 DEF Settled
  <2>2. Posted(run)
    BY <2>1 DEF AllPosted, SaverKeeps
  <2> QED BY <1>1, <2>2, PostedRests
<1> QED BY <1>1, <1>2

\* The steps of the publication keep the journal that was sent.
LEMMA OpPosted ==
  ASSUME CopiesOK, CopiesOK', Settled /\ sent # {} => AllPosted, OpCalm,
         Posted(run) => Posted(run')
  PROVE  Settled' /\ sent' # {} => AllPosted'
<1>1. /\ run # None /\ run' # None /\ QueueMoves /\ UNCHANGED <<disk, sent, stash, late>>
      /\ seen'.listed = seen.listed /\ seen'.blind = seen.blind
  BY DEF OpCalm, OpKeeps, CopiesOK, RestOK
<1>2. SameCreates
  BY <1>1 DEF SameCreates, Created
<1>3. ASSUME Settled', sent' # {} PROVE AllPosted'
  <2>1. Settled
    BY <1>1, <1>2, <1>3, SettledBefore DEF SameCreates, Started, Asked
  <2>2. AllPosted /\ Posted(run')
    BY <1>1, <1>3, <2>1 DEF AllPosted
  <2> QED BY <1>1, <1>2, <2>2, QueuePosted
<1> QED BY <1>3

LEMMA EditPosted ==
  ASSUME CopiesOK, CopiesOK', Settled /\ sent # {} => AllPosted, NEW t, EditStep(t)
  PROVE  Settled' /\ sent' # {} => AllPosted'
<1>1. /\ run # None /\ run' # None /\ QueueMoves /\ UNCHANGED <<disk, sent, stash, late, seen>>
      /\ run'.journal = run.journal /\ run'.cloud = run.cloud
  BY DEF EditStep, QueueMoves, By
<1>2. SameCreates
  BY <1>1 DEF SameCreates, Created
<1>3. ASSUME Settled', sent' # {} PROVE AllPosted'
  <2>1. Settled
    BY <1>1, <1>2, <1>3, SettledBefore DEF SameCreates, Started, Asked
  <2>2. AllPosted /\ Posted(run')
    BY <1>1, <1>3, <2>1 DEF AllPosted, Posted
  <2> QED BY <1>1, <1>2, <2>2, QueuePosted
<1> QED BY <1>3

LEMMA NewPostPosted ==
  ASSUME CopiesOK, CopiesOK', OnceOK, SlotsKept, Settled /\ sent # {} => AllPosted, NewPostStep
  PROVE  Settled' /\ sent' # {} => AllPosted'
<1>1. /\ run' # None /\ QueueMoves /\ UNCHANGED <<disk, sent, stash, late>>
      /\ seen'.listed = seen.listed /\ seen'.blind = seen.blind
  BY DEF NewPostStep, CopiesOK, RestOK
<1>2. SameCreates
  BY <1>1 DEF SameCreates, Created
<1>3. ASSUME Settled', sent' # {} PROVE AllPosted'
  <2>1. Settled /\ AllPosted
    BY <1>1, <1>2, <1>3, SettledBefore DEF SameCreates, Started, Asked
  <2>2. disk["new"] # None /\ run'.journal = disk["new"].journal /\ run'.cloud = disk["new"].cloud
    BY <1>1, <1>3 DEF NewPostStep, SlotsKept
  <2>3. ~seen.listed
    BY <2>1 DEF NewPostStep, OnceOK, Settled, Started
  <2>4. Posted(run')
    BY <2>1, <2>2, <2>3 DEF AllPosted, Posted
  <2> QED BY <1>1, <1>2, <2>1, <2>4, QueuePosted
<1> QED BY <1>3

LEMMA ListedPosted ==
  ASSUME CopiesOK, CopiesOK', Settled /\ sent # {} => AllPosted, NEW d \in Ids, ListedStep(d)
  PROVE  Settled' /\ sent' # {} => AllPosted'
<1>1. /\ run' # None /\ Saved("edit") /\ UNCHANGED <<disk, sent, stash, late>> /\ Created(d)
      /\ seen'.listed /\ seen'.blind = seen.blind
  BY DEF ListedStep, CopiesOK, RestOK
<1>2. SameCreates
  BY <1>1 DEF SameCreates, Created
<1>3. ASSUME Settled', sent' # {} PROVE AllPosted'
  <2>1. Settled /\ AllPosted
    BY <1>1, <1>2, <1>3, SettledBefore DEF SameCreates, Started, Asked
  <2>2. disk[d] # None /\ Posted(disk[d])
    BY <1>1, <2>1 DEF AllPosted
  <2>3. Posted(run')
    BY <2>2 DEF ListedStep, Posted
  <2>4. ASSUME NEW i \in DOMAIN writes' PROVE Posted(writes'[i].copy)
    <3>1. CASE i = Len(writes) + 1
      <4>1. writes'[i].copy = CopyOf(run')
        BY <1>1, <3>1, Queued DEF By
      <4> QED BY <2>3, <4>1 DEF Posted, CopyOf
    <3>2. CASE i # Len(writes) + 1
      <4>1. i \in DOMAIN writes /\ writes'[i] = writes[i]
        BY <1>1, <2>4, <3>2, Queued DEF By
      <4> QED BY <2>1, <4>1 DEF AllPosted
    <3> QED BY <3>1, <3>2
  <2>5. ~Asked'
    BY <1>2, <2>1 DEF Asked, SameCreates, AllPosted
  <2> QED BY <1>1, <1>2, <2>1, <2>3, <2>4, <2>5 DEF AllPosted, SameCreates, Posted
<1> QED BY <1>3

LEMMA DrainPosted ==
  ASSUME CopiesOK, CopiesOK', Settled /\ sent # {} => AllPosted, NEW w, DrainStep(w)
  PROVE  Settled' /\ sent' # {} => AllPosted'
<1>1. UNCHANGED <<stash, late, run, sent, seen>> /\ disk' = [disk EXCEPT ![w.key] = w.copy] /\ w.copy # None
  BY NoneAssumption DEF DrainStep, Write
<1>2. SameCreates
  BY <1>1 DEF SameCreates, Created
<1>3. ASSUME Settled', sent' # {} PROVE AllPosted'
  <2>1. Settled /\ AllPosted
    BY <1>1, <1>2, <1>3, SettledBefore DEF SameCreates, Started, Asked
  <2>2. 1 \in DOMAIN writes /\ writes[1] = w
    BY Drained
  <2>3. Posted(w.copy)
    BY <2>1, <2>2 DEF AllPosted
  <2>4. \A k \in Slots : disk'[k] = disk[k] \/ disk'[k] = w.copy
    BY <1>1 DEF CopiesOK, DiskOK
  <2>5. ASSUME NEW i \in DOMAIN writes' PROVE Posted(writes'[i].copy)
    <3>1. CASE i + 1 \in DOMAIN writes /\ writes'[i] = writes[i + 1]
      BY <2>1, <3>1 DEF AllPosted
    <3>2. CASE Mirrors(w) /\ Mirrored(writes'[i], w)
      BY <2>1, <3>2 DEF AllPosted, Mirrors, Mirrored, Posted, CopyOf
    <3> QED BY <2>5, <3>1, <3>2, Drained
  <2>6. ~Asked'
    BY <1>2, <2>1 DEF Asked, SameCreates, AllPosted
  <2>7. ASSUME NEW d \in Ids, Created(d)' PROVE disk'[d] # None /\ Posted(disk'[d])
    BY <1>1, <1>2, <2>1, <2>3, <2>4, <2>7 DEF AllPosted, SameCreates, Slots
  <2>8. disk'["new"] # None /\ ~seen'.listed => Posted(disk'["new"])
    BY <1>1, <2>1, <2>3, <2>4 DEF AllPosted, Slots
  <2> QED BY <1>1, <2>1, <2>5, <2>6, <2>7, <2>8 DEF AllPosted, Posted
<1> QED BY <1>3

\* When the post is sent, every copy that publishing may resume from carries its journal.
LEMMA SendPosted ==
  ASSUME CopiesOK, OnceOK, PostedOK, SendPost PROVE Settled' /\ sent' # {} => AllPosted'
<1>1. /\ OpKeeps /\ UNCHANGED <<disk, writes>> /\ run.op = "send" /\ Awaited("op")
      /\ run'.journal = run.journal /\ run.journal # None /\ run.journal.tried /\ sent' = sent \cup {run.journal.key}
  BY SendPostOK
<1>2. /\ SameCreates /\ (Started' <=> Started) /\ run # None /\ EditorOK(run) /\ seen'.listed = seen.listed
      /\ seen'.blind = (seen.blind \/ Uncertain(run.cloud))
  <2>1. seen' = [seen EXCEPT !.blind = @ \/ Uncertain(run.cloud)]
    BY SendPostOK
  <2>2. SameCreates /\ run # None
    BY <1>1 DEF OpKeeps, SameCreates, Created
  <2> QED BY <2>1, <2>2, SameOnce DEF OnceOK, CopiesOK, RestOK, RunOK
<1>3. Posted(run)' /\ \A c : Carries(c) => Posted(c)'
  BY <1>1 DEF Posted, Carries
<1>4. CASE Settled' /\ sent # {}
  <2>1. AllPosted
    BY <1>2, <1>4, SettledBefore DEF PostedOK
  <2>2. run.journal.key \in sent
    BY <1>1, <1>2, <2>1 DEF AllPosted, Posted, EditorOK, OpOK
  <2>3. sent' = sent
    BY <1>1, <2>2
  <2>4. Posted(run')
    BY <1>3, <2>3 DEF Posted
  <2> QED BY <1>1, <1>2, <2>1, <2>3, <2>4, SettledPosted
<1>5. CASE Settled' /\ sent = {}
  <2>1. ASSUME NEW s, s \in {run.slot, run.cloud.id}, s # None
        PROVE  /\ IF disk[s] = None THEN s = "new" ELSE Carries(disk[s])
               /\ \A j \in DOMAIN writes : writes[j].key = s => Carries(writes[j].copy)
    <3>1. JournalNoted(s)
      BY <1>1, <1>2, <2>1 DEF PostedOK, SendNoted
    <3> QED BY <1>1, <3>1 DEF JournalNoted, JournalComing, Awaited
  <2>2. ASSUME NEW i \in DOMAIN writes' PROVE Posted(writes[i].copy)'
    <3>1. i \in DOMAIN writes /\ writes[i].key \in {run.slot, run.cloud.id} /\ writes[i].key # None
      BY <1>1, <1>2, <2>2, NameAssumption DEF PostedOK, SlotsKept, CopiesOK, WritesOK, WriteOK, Write
    <3>2. PICK c : c = writes[i].copy
      OBVIOUS
    <3>3. Carries(c)
      BY <2>1, <3>1, <3>2
    <3>4. Posted(c)'
      BY <1>3, <3>3
    <3> QED BY <1>1, <3>2, <3>4
  <2>3. disk["new"] # None /\ ~seen.listed => Carries(disk["new"])
    <3>1. ASSUME ~seen.listed PROVE run.slot = "new"
      BY <1>2, <3>1 DEF PostedOK, SlotsKept
    <3> QED BY <2>1, <3>1, NameAssumption
  <2>4. ~Asked /\ \A d \in Ids : Created(d) => disk[d] # None /\ Carries(disk[d])
    <3>1. CASE ~Started
      BY <3>1 DEF Started
    <3>2. CASE Started
      <4>1. ~Uncertain(run.cloud) /\ Knows(run)
        BY <1>2, <1>5, <3>2 DEF Settled, OnceOK, AllKnow
      <4>2. run.cloud.id \in Ids /\ Created(run.cloud.id)
        BY <1>2, <4>1 DEF Uncertain, Knows, EditorOK, Editor, Cloud, CopyOK, CopyOf, StoredOK
      <4>3. disk[run.cloud.id] # None /\ Carries(disk[run.cloud.id])
        BY <2>1, <4>2, NameAssumption
      <4> QED BY <4>2, <4>3 DEF OnceOK, OneRequest
    <3> QED BY <3>1, <3>2
  <2>5. ~Asked'
    BY <1>2, <2>4 DEF Asked, SameCreates
  <2>6. ASSUME NEW d \in Ids, Created(d)' PROVE disk'[d] # None /\ Posted(disk[d])'
    <3>1. PICK c : c = disk[d]
      OBVIOUS
    <3> QED BY <1>1, <1>2, <1>3, <2>4, <2>6, <3>1 DEF SameCreates
  <2>7. disk'["new"] # None /\ ~seen'.listed => Posted(disk["new"])'
    <3>1. PICK c : c = disk["new"]
      OBVIOUS
    <3> QED BY <1>1, <1>2, <1>3, <2>3, <3>1
  <2>8. \A p, q \in sent' : p = q
    BY <1>1, <1>5
  <2> QED BY <1>3, <2>2, <2>5, <2>6, <2>7, <2>8 DEF AllPosted
<1> QED BY <1>4, <1>5

\* Copies are settled, freed or left alone, and nothing is queued.
LEMMA StillPosted ==
  ASSUME Settled /\ sent # {} => AllPosted, SameCreates, UNCHANGED <<sent, writes>>,
         run' = None \/ (run # None /\ (Posted(run) => Posted(run'))), seen.listed => seen'.listed, seen.blind => seen'.blind,
         AllPosted => \A k \in Slots : \/ disk'[k] = disk[k]
                                       \/ disk'[k] # None /\ Posted(disk'[k])
                                       \/ disk'[k] = None /\ k \notin Ids
  PROVE  Settled' /\ sent' # {} => AllPosted'
<1>1. ASSUME Settled', sent' # {} PROVE AllPosted'
  <2>1. AllPosted
    BY <1>1, SettledBefore DEF SameCreates, Started, Asked
  <2>2. run' = None \/ Posted(run')
    BY <2>1 DEF AllPosted
  <2> QED BY <2>1, <2>2, SettledPosted
<1> QED BY <1>1

LEMMA ArchivePosted ==
  ASSUME CopiesOK, Settled /\ sent # {} => AllPosted, ArchiveStep PROVE Settled' /\ sent' # {} => AllPosted'
<1>1. SameCreates /\ UNCHANGED <<sent, writes, seen>>
  BY DEF ArchiveStep, SameCreates, Created
<1>2. run' = None \/ (run # None /\ Posted(run'))
  BY DEF ArchiveStep, CopyOf, Posted
<1>3. \A k \in Slots : \/ disk'[k] = disk[k]
                       \/ disk'[k] # None /\ Posted(disk'[k])
                       \/ disk'[k] = None /\ k \notin Ids
  BY SettlesPosted DEF ArchiveStep
<1> QED BY <1>1, <1>2, <1>3, StillPosted

LEMMA MirrorsPosted ==
  ASSUME CopiesOK, Settled /\ sent # {} => AllPosted, CloseMirrors PROVE Settled' /\ sent' # {} => AllPosted'
<1>1. /\ OpKeeps /\ UNCHANGED <<writes, sent, seen>> /\ CopyOf(run') = CopyOf(run) /\ run # None
      /\ \/ disk' = disk
         \/ run.cloud.id \in Ids /\ disk' = [disk EXCEPT ![run.cloud.id] = CopyOf(run)]
  BY CloseMirrorsOK DEF OpKeeps
<1>2. SameCreates
  BY <1>1 DEF OpKeeps, SameCreates, Created
<1>3. Posted(run) => Posted(run') /\ Posted(CopyOf(run))
  BY <1>1 DEF CopyOf, Posted
<1>4. CopyOf(run) # None
  BY <1>1, NoneAssumption DEF CopiesOK, RunOK, EditorOK, CopyOK
<1>5. ASSUME AllPosted, NEW k \in Slots PROVE disk'[k] = disk[k] \/ (disk'[k] # None /\ Posted(disk'[k]))
  BY <1>1, <1>3, <1>4, <1>5 DEF CopiesOK, DiskOK, AllPosted
<1> QED BY <1>1, <1>2, <1>3, <1>5, StillPosted

LEMMA ClosedPosted ==
  ASSUME CopiesOK, Settled /\ sent # {} => AllPosted, ClosedStep PROVE Settled' /\ sent' # {} => AllPosted'
<1>1. SameCreates /\ UNCHANGED <<sent, writes, seen>> /\ run' = None
  BY DEF ClosedStep, SameCreates, Created
<1>2. \A k \in Slots : disk'[k] = disk[k] \/ (disk'[k] = None /\ k \notin Ids)
  BY NameAssumption DEF ClosedStep, CopiesOK, DiskOK
<1> QED BY <1>1, <1>2, StillPosted

LEMMA CleanPosted ==
  ASSUME CopiesOK, Settled /\ sent # {} => AllPosted, CleanStep PROVE Settled' /\ sent' # {} => AllPosted'
<1>1. SameCreates /\ UNCHANGED <<sent, writes, run>> /\ seen'.listed = seen.listed /\ seen'.blind = seen.blind
  BY DEF CleanStep, SameCreates, CopiesOK, RestOK
<1>2. \A k \in Slots : \/ disk'[k] = disk[k]
                       \/ disk'[k] # None /\ Posted(disk'[k])
                       \/ disk'[k] = None /\ k \notin Ids
  BY SettlesPosted DEF CleanStep
<1> QED BY <1>1, <1>2, StillPosted

LEMMA CrashPosted ==
  ASSUME Settled /\ sent # {} => AllPosted, Crash PROVE Settled' /\ sent' # {} => AllPosted'
<1>1. SameCreates /\ UNCHANGED <<disk, sent, seen>> /\ writes' = <<>> /\ run' = None
  BY DEF Crash, SameCreates, Created
<1>2. ASSUME Settled', sent' # {} PROVE AllPosted'
  <2>1. AllPosted
    BY <1>1, <1>2, SettledBefore DEF SameCreates, Started, Asked
  <2>2. ~Asked'
    BY <1>1, <2>1 DEF Asked, SameCreates, AllPosted
  <2> QED BY <1>1, <2>1, <2>2 DEF AllPosted, SameCreates, Posted
<1> QED BY <1>2

\* Where the post was sent in the knowledge of the draft no create is under way.
LEMMA LatePosted ==
  ASSUME Settled /\ sent # {} => AllPosted, LateStep PROVE Settled' /\ sent' # {} => AllPosted'
<1>1. PICK req \in late :
        /\ late' = late \ {req} /\ UNCHANGED <<disk, writes, run, sent, seen>>
        /\ \/ req.id = None /\ \E d \in Ids : Created(d)'
           \/ req.id # None /\ \A e \in Ids : Created(e)' <=> Created(e)
  BY DEF LateStep
<1>2. CASE req.id # None
  <2>1. SameCreates
    BY <1>1, <1>2 DEF SameCreates
  <2> QED BY <1>1, <2>1, StillPosted
<1>3. CASE req.id = None
  <2>1. Started' /\ Asked
    BY <1>1, <1>3 DEF Started, Asked
  <2>2. ASSUME Settled', sent' # {} PROVE FALSE
    <3>1. AllPosted
      BY <1>1, <2>1, <2>2 DEF Settled
    <3> QED BY <2>1, <3>1 DEF AllPosted
  <2> QED BY <2>2
<1> QED BY <1>2, <1>3

LEMMA QuietPosted ==
  ASSUME Settled /\ sent # {} => AllPosted, SameCreates, UNCHANGED <<disk, writes, run, sent, seen>>
  PROVE  Settled' /\ sent' # {} => AllPosted'
BY StillPosted
-----------------------------------------------------------------------------
LEMMA PostedInit == ASSUME Init PROVE PostedOK
BY DEF Init, PostedOK, SlotsKept, SendNoted

\* A step of the saver keeps the slots, and where it does not ask for the draft, the rest.
LEMMA SavingPosted == ASSUME CopiesOK, CopiesOK', OnceOK, PostedOK, Saving PROVE PostedOK'
<1>1. ASSUME SaverKeeps, Settled' /\ sent' # {} => AllPosted' PROVE PostedOK'
  <2>1. SlotsKept'
    BY <1>1, QueueSlots DEF SaverKeeps, PostedOK
  <2>2. SendNoted'
    BY <1>1 DEF SaverKeeps, SendNoted
  <2> QED BY <1>1, <2>1, <2>2 DEF PostedOK
<1>2. ASSUME SaverKeeps, SameCreates PROVE PostedOK'
  BY <1>1, <1>2, SaverPosted DEF PostedOK
<1>3. ASSUME SaverKeeps, run.saver = "creating" PROVE PostedOK'
  BY <1>1, <1>3, CreatePosted DEF PostedOK
<1>4. ASSUME SaverCalm PROVE PostedOK'
  <2>1. SaverKeeps /\ SameCreates
    BY <1>4 DEF SaverCalm, SameCreates, Created
  <2> QED BY <1>2, <2>1
<1>5. ASSUME SaverKeeps, UNCHANGED <<stash, late>> PROVE PostedOK'
  <2>1. SameCreates
    BY <1>5 DEF SameCreates, Created
  <2> QED BY <1>2, <1>5, <2>1
<1>6. CASE SaveStarts \/ SaveBegins \/ Reconcile \/ Confirm \/ Recheck \/ Loop \/ CreateRecorded \/ UpdateSent \/ UpdateRejected
  <2>1. SaverCalm
    BY <1>6, SaveStartsOK, SaveBeginsOK, ReconcileOK, ConfirmOK, RecheckOK, LoopOK, CreateRecordedOK, UpdateSentOK, UpdateRejectedOK
  <2> QED BY <1>4, <2>1
<1>7. CASE Check
  BY <1>4, <1>5, <1>7, CheckOK DEF IntentStep
<1>8. CASE IntentSaved \/ CreateRejected
  BY <1>5, <1>8, IntentSavedOK, CreateRejectedOK
<1>9. CASE CreateUnknown \/ CreateAnswered
  BY <1>3, <1>9, CreateUnknownOK, CreateAnsweredOK
<1> QED BY <1>6, <1>7, <1>8, <1>9 DEF Saving

LEMMA PublishingPosted == ASSUME CopiesOK, CopiesOK', OnceOK, PostedOK, Publishing PROVE PostedOK'
<1>1. seen \in [begun : BOOLEAN, listed : BOOLEAN, blind : BOOLEAN, finished : BOOLEAN, minted : 0..MaxJournals]
  BY DEF CopiesOK, RestOK
<1>2. ASSUME OpKeeps, seen'.begun = seen.begun /\ seen'.listed = seen.listed PROVE SlotsKept'
  BY <1>2, QueueSlots DEF OpKeeps, PostedOK
<1>3. ASSUME OpCalm, Posted(run) => Posted(run'), run'.op # "send" \/ SendNoted' PROVE PostedOK'
  <2>1. seen'.begun = seen.begun /\ seen'.listed = seen.listed /\ OpKeeps
    BY <1>1, <1>3 DEF OpCalm
  <2> QED BY <1>2, <1>3, <2>1, OpPosted DEF PostedOK, SendNoted
<1>4. ASSUME OpCalm, run'.journal = run.journal, run'.op # "send" PROVE PostedOK'
  BY <1>3, <1>4 DEF Posted, OpCalm
<1>5. CASE Publish \/ PublishBegins \/ Complete \/ CloseStarts
  BY <1>4, <1>5, PublishOK, PublishBeginsOK, CompleteOK, CloseStartsOK
<1>6. CASE Prepare
  <2>1. OpCalm /\ run'.op = "checkpoint" /\ (run'.journal = run.journal \/ run.journal = None) /\ run'.stopped = run.stopped
    BY <1>6, PrepareOK
  <2>2. ~run.stopped /\ run # None
    BY <1>6 DEF Prepare, OpAt, CopiesOK, RunOK, EditorOK, OpOK
  <2>3. ~run.cloud.done
    BY <2>2 DEF CopiesOK, RunOK, EditorOK
  <2>4. Posted(run) => Posted(run')
    BY <2>1, <2>3 DEF Posted
  <2> QED BY <1>3, <2>1, <2>4
<1>7. CASE Checkpoint
  <2>1. OpCalm /\ run'.op = "send" /\ Saved("op") /\ run'.journal.key = run.journal.key /\ Tried(run')
    BY <1>7, CheckpointOK
  <2>2. Posted(run) => Posted(run')
    BY <2>1 DEF Posted, Tried, OpCalm
  <2>3. SendNoted'
    BY <2>1, CheckpointNoted DEF OpCalm, OpKeeps, SendNoted
  <2> QED BY <1>3, <2>1, <2>2, <2>3
<1>8. CASE PublishFails
  <2>1. OpCalm /\ run'.op = "idle" /\ run'.journal = IF Tried(run) THEN run.journal ELSE None
    BY <1>8, PublishFailsOK
  <2>2. Posted(run) => Posted(run')
    BY <2>1 DEF Posted, Tried, OpCalm
  <2> QED BY <1>3, <2>1, <2>2
<1>9. CASE SendPost
  <2>1. OpKeeps /\ run'.op \in {"complete", "idle"} /\ seen' = [seen EXCEPT !.blind = @ \/ Uncertain(run.cloud)]
    BY <1>9, SendPostOK
  <2>2. SlotsKept'
    BY <1>1, <1>2, <2>1
  <2> QED BY <1>9, <2>1, <2>2, SendPosted DEF PostedOK, SendNoted
<1>10. CASE CloseMirrors
  <2>1. OpKeeps /\ run'.op = "closed" /\ seen' = seen
    BY <1>10, CloseMirrorsOK
  <2> QED BY <1>2, <1>10, <2>1, MirrorsPosted DEF PostedOK, SendNoted
<1>11. CASE Archive
  <2>1. ArchiveStep
    BY <1>11, ArchiveOK
  <2>2. SlotsKept'
    BY <2>1, QuietSlots DEF ArchiveStep, PostedOK, CopyOf
  <2>3. SendNoted'
    BY <2>1 DEF ArchiveStep, SendNoted
  <2> QED BY <2>1, <2>2, <2>3, ArchivePosted DEF PostedOK
<1>12. CASE CloseFrees \/ CloseLocked
  <2>1. ClosedStep
    BY <1>12, ClosesOK
  <2> QED BY <2>1, QuietSlots, ClosedPosted DEF ClosedStep, PostedOK, SendNoted
<1> QED BY <1>5, <1>6, <1>7, <1>8, <1>9, <1>10, <1>11, <1>12 DEF Publishing

LEMMA PostedStep == ASSUME CopiesOK, OnceOK, PostedOK, [Next]_vars PROVE PostedOK'
<1>1. CopiesOK'
  BY CopiesStep
<1>2. CASE Saving \/ Publishing
  BY <1>1, <1>2, SavingPosted, PublishingPosted
<1>3. CASE OpenNewPost
  <2>1. NewPostStep
    BY <1>3, OpenNewPostOK
  <2> QED BY <1>1, <2>1, NewPostSlots, NewPostPosted DEF NewPostStep, PostedOK, SendNoted
<1>4. ASSUME NEW d \in Ids, OpenListed(d) PROVE PostedOK'
  <2>1. ListedStep(d)
    BY <1>4, OpenListedOK
  <2> QED BY <1>1, <2>1, ListedSlots, ListedPosted DEF ListedStep, PostedOK, SendNoted
<1>5. ASSUME NEW t \in Texts, Edit(t) PROVE PostedOK'
  <2>1. EditStep(t)
    BY <1>5, EditOK
  <2>2. run # None /\ run' # None /\ QueueMoves /\ run'.slot = run.slot /\ run'.cloud.id = run.cloud.id /\ seen' = seen /\ run'.op # "send"
    BY <2>1 DEF EditStep, QueueMoves, By
  <2> QED BY <1>1, <2>1, <2>2, QueueSlots, EditPosted DEF PostedOK, SendNoted
<1>6. CASE SaveDone
  BY <1>1, <1>6, SaveDoneOK, DrainSlots, DrainNoted, DrainPosted DEF PostedOK
<1>7. CASE Cleaning
  <2>1. CleanStep
    BY <1>7, CleaningOK
  <2>2. SlotsKept'
    BY <2>1, QuietSlots DEF CleanStep, PostedOK, CopiesOK, RestOK
  <2> QED BY <2>1, <2>2, CleanNoted, CleanPosted DEF PostedOK
<1>8. CASE Crash
  BY <1>8, CrashSlots, CrashPosted DEF Crash, PostedOK, SendNoted
<1>9. CASE TakesEffectLate
  <2>1. LateStep /\ UNCHANGED <<disk, writes, run, sent, seen>>
    BY <1>9, LateOK DEF LateStep
  <2> QED BY <2>1, QuietSlots, QuietNoted, LatePosted DEF PostedOK
<1>10. CASE OtherDeviceEdits \/ UNCHANGED vars
  <2>1. SameCreates /\ UNCHANGED <<disk, writes, run, sent, seen>>
    BY <1>10, OtherOK DEF OtherStep, vars, SameCreates, Created
  <2> QED BY <2>1, QuietSlots, QuietNoted, QuietPosted DEF PostedOK
<1> QED BY <1>2, <1>3, <1>4, <1>5, <1>6, <1>7, <1>8, <1>9, <1>10 DEF Next

LEMMA PostedHolds == Spec => [](CopiesOK /\ OnceOK /\ PostedOK)
<1>1. Init => CopiesOK /\ OnceOK /\ PostedOK
  BY CopiesInit, OnceInit, PostedInit
<1>2. CopiesOK /\ OnceOK /\ PostedOK /\ [Next]_vars => (CopiesOK /\ OnceOK /\ PostedOK)'
  BY CopiesStep, OnceStep, PostedStep
<1> QED BY <1>1, <1>2, PTL DEF Spec

\* PublishedOnce, where New Post is not opened again once its draft was opened from
\* the list: whichever copy publishing is resumed from carries the journal, and so
\* the key, of the first attempt (publishSocialPost, prepareJournal).
THEOREM PostedOnce == Spec => [](~LeftoverReopened => PublishedOnce)
<1>1. ASSUME CopiesOK, PostedOK, ~LeftoverReopened, ~seen.blind PROVE Cardinality(sent) <= 1
  <2>1. \A p, q \in sent : p = q
    BY <1>1 DEF PostedOK, Settled, AllPosted
  <2>2. CASE sent = {}
    BY <2>2, FS_EmptySet
  <2>3. ASSUME NEW k \in sent PROVE Cardinality(sent) <= 1
    <3>1. sent = {k}
      BY <2>1, <2>3
    <3>2. Cardinality(sent) = 1
      BY <3>1, FS_Singleton
    <3> QED BY <3>2
  <2> QED BY <2>2, <2>3
<1>2. CopiesOK /\ PostedOK => (~LeftoverReopened => PublishedOnce)
  BY <1>1 DEF PublishedOnce
<1> QED BY <1>2, PostedHolds, PTL
-----------------------------------------------------------------------------
(* The cleanup: what it knows nothing of does not come to be.              *)

LEMMA StillCleaned ==
  ASSUME CleanedOK, SameCreates, \A d \in Ids : Exists(d)' => Exists(d), sent \subseteq sent', seen'.finished = seen.finished,
         disk'["cleanup"] \in {disk["cleanup"], None} \/ Knows(disk'["cleanup"]) \/ ~Started,
         cleaner' = cleaner \/ cleaner' = None
  PROVE  CleanedOK'
<1>1. (Asked' <=> Asked) /\ (Started' <=> Started)
  BY DEF Started, Asked, SameCreates
<1> QED BY <1>1 DEF CleanedOK, Knows

LEMMA SavingCleaned == ASSUME CopiesOK, CopiesOK', OnceOK, PostedOK, CleanedOK, Saving PROVE CleanedOK'
<1>1. ASSUME SaverKeeps, stash' = stash, SameCreates PROVE CleanedOK'
  BY <1>1, StillCleaned DEF SaverKeeps, Exists
<1>2. ASSUME SaverKeeps, run.saver = "creating" PROVE CleanedOK'
  <2>1. sent' = {} /\ UNCHANGED <<sent, disk, cleaner, seen>>
    BY <1>2, CreatePosted DEF PostedOK, SaverKeeps
  <2>2. disk["cleanup"] = None /\ cleaner = None
    BY <2>1 DEF CopiesOK, DiskOK, CopyOK, StoredOK, Fits, Slots, CleanOK, CleanerOK
  <2> QED BY <2>1, <2>2 DEF CleanedOK
<1>3. CASE SaveStarts \/ SaveBegins \/ Reconcile \/ Confirm \/ Recheck \/ Loop \/ CreateRecorded \/ UpdateSent \/ UpdateRejected
  <2>1. SaverCalm
    BY <1>3, SaveStartsOK, SaveBeginsOK, ReconcileOK, ConfirmOK, RecheckOK, LoopOK, CreateRecordedOK, UpdateSentOK, UpdateRejectedOK
  <2> QED BY <1>1, <2>1 DEF SaverCalm, SameCreates, Created
<1>4. CASE Check \/ IntentSaved \/ CreateRejected
  <2>1. SaverCalm \/ (SaverKeeps /\ UNCHANGED <<stash, late>>)
    BY <1>4, CheckOK, IntentSavedOK, CreateRejectedOK DEF IntentStep
  <2> QED BY <1>1, <2>1 DEF SaverCalm, SameCreates, Created
<1>5. CASE CreateUnknown \/ CreateAnswered
  BY <1>2, <1>5, CreateUnknownOK, CreateAnsweredOK
<1> QED BY <1>3, <1>4, <1>5 DEF Saving

LEMMA PublishingCleaned == ASSUME CopiesOK, OnceOK, CleanedOK, Publishing PROVE CleanedOK'
<1>1. seen \in [begun : BOOLEAN, listed : BOOLEAN, blind : BOOLEAN, finished : BOOLEAN, minted : 0..MaxJournals]
  BY DEF CopiesOK, RestOK
<1>2. ASSUME UNCHANGED <<stash, late, cleaner>>, sent \subseteq sent', seen'.finished = seen.finished,
             disk'["cleanup"] \in {disk["cleanup"], None} \/ Knows(disk'["cleanup"]) \/ ~Started
      PROVE  CleanedOK'
  <2>1. SameCreates /\ \A d \in Ids : Exists(d)' => Exists(d)
    BY <1>2 DEF SameCreates, Created, Exists
  <2> QED BY <1>2, <2>1, StillCleaned
<1>3. ASSUME OpCalm PROVE CleanedOK'
  BY <1>1, <1>2, <1>3 DEF OpCalm, OpKeeps
<1>4. CASE Publish \/ PublishBegins \/ Prepare \/ Checkpoint
  BY <1>3, <1>4, PublishOK, PublishBeginsOK, PrepareOK, CheckpointOK
<1>5. CASE PublishFails \/ Complete \/ CloseStarts
  BY <1>3, <1>5, PublishFailsOK, CompleteOK, CloseStartsOK
<1>6. CASE SendPost
  <2>1. OpKeeps /\ disk' = disk /\ sent \subseteq sent' /\ seen' = [seen EXCEPT !.blind = @ \/ Uncertain(run.cloud)]
    BY <1>6, SendPostOK
  <2> QED BY <1>1, <1>2, <2>1 DEF OpKeeps
<1>7. CASE CloseMirrors
  <2>1. OpKeeps /\ UNCHANGED <<sent, seen>>
    BY <1>7, CloseMirrorsOK
  <2>2. disk'["cleanup"] = disk["cleanup"]
    BY <1>7, CloseMirrorsOK, NameAssumption DEF CopiesOK, DiskOK, Slots
  <2> QED BY <1>2, <2>1, <2>2 DEF OpKeeps
<1>8. CASE Archive
  <2>1. ArchiveStep
    BY <1>8, ArchiveOK
  <2>2. Started => Knows(CopyOf(run))
    BY <2>1 DEF ArchiveStep, OnceOK, AllKnow, Knows, CopyOf
  <2>3. disk'["cleanup"] = disk["cleanup"] \/ disk'["cleanup"] = CopyOf(run)
    BY <2>1 DEF ArchiveStep, Settles, CopiesOK, DiskOK, Slots
  <2> QED BY <1>2, <2>1, <2>2, <2>3 DEF ArchiveStep
<1>9. CASE CloseFrees \/ CloseLocked
  <2>1. ClosedStep
    BY <1>9, ClosesOK
  <2>2. disk'["cleanup"] = disk["cleanup"]
    BY <2>1 DEF ClosedStep, CopiesOK, DiskOK, Slots
  <2> QED BY <1>2, <2>1, <2>2 DEF ClosedStep
<1> QED BY <1>4, <1>5, <1>6, <1>7, <1>8, <1>9 DEF Publishing

LEMMA CleaningCleaned == ASSUME CopiesOK, OnceOK, CleanedOK, CleanStep PROVE CleanedOK'
<1>1. SameCreates /\ UNCHANGED sent /\ sent # {} /\ \A d \in Ids : Exists(d)' => Exists(d)
  BY DEF CleanStep, SameCreates
<1>2. (Asked' <=> Asked) /\ (Started' <=> Started)
  BY <1>1 DEF Started, Asked, SameCreates
<1>3. disk'["cleanup"] \in {disk["cleanup"], None} \/ Knows(disk'["cleanup"])
  BY DEF CleanStep, Settles, CopiesOK, DiskOK, Slots
<1>4. disk'["cleanup"] # None /\ ~Knows(disk'["cleanup"]) => ~Started
  BY <1>3 DEF CleanedOK
<1>5. cleaner' # None /\ ~Knows(cleaner'.copy) => ~Started
  BY DEF CleanStep, CleanedOK
<1>6. CASE seen' = seen
  BY <1>1, <1>2, <1>4, <1>5, <1>6 DEF CleanedOK, Knows
<1>7. CASE cleaner # None /\ cleaner.at = "drop" /\ UNCHANGED stash
  <2>1. CleanerOK(cleaner) /\ cleaner.copy.cloud.id \in Ids \cup {None}
    BY <1>7 DEF CopiesOK, CleanOK, CleanerOK, Copy, Cloud
  <2>2. ~Asked /\ \A d \in Ids : ~Exists(d)
    <3>1. CASE ~Knows(cleaner.copy)
      BY <1>7, <3>1 DEF CleanedOK, Started, CopiesOK, RestOK
    <3>2. CASE Knows(cleaner.copy)
      <4>1. cleaner.copy.cloud.id # None
        BY <1>7, <2>1, <3>2 DEF CleanerOK, Uncertain, Knows
      <4>2. Created(cleaner.copy.cloud.id) /\ ~Exists(cleaner.copy.cloud.id)
        BY <1>7, <2>1, <4>1 DEF CleanerOK, CopyOK, StoredOK
      <4> QED BY <2>1, <4>1, <4>2 DEF OnceOK, OneRequest, CopiesOK, RestOK
    <3> QED BY <3>1, <3>2
  <2> QED BY <1>1, <1>2, <1>4, <1>5, <2>2 DEF CleanedOK, Knows
<1> QED BY <1>6, <1>7 DEF CleanStep

LEMMA LateCleaned == ASSUME CleanedOK, LateStep PROVE CleanedOK'
<1>1. PICK req \in late :
        /\ late' = late \ {req} /\ UNCHANGED <<disk, cleaner, sent, seen>>
        /\ \/ req.id = None
           \/ req.id # None /\ \A e \in Ids : (Created(e)' <=> Created(e)) /\ (Exists(e)' => Exists(e))
  BY DEF LateStep
<1>2. CASE req.id # None
  BY <1>1, <1>2, StillCleaned DEF SameCreates
<1>3. CASE req.id = None
  <2>1. Asked /\ Started
    BY <1>3 DEF Asked, Started
  <2> QED BY <1>1, <2>1 DEF CleanedOK, Knows
<1> QED BY <1>2, <1>3

LEMMA CleanedStep == ASSUME CopiesOK, OnceOK, PostedOK, CleanedOK, [Next]_vars PROVE CleanedOK'
<1>1. CopiesOK' /\ seen \in [begun : BOOLEAN, listed : BOOLEAN, blind : BOOLEAN, finished : BOOLEAN, minted : 0..MaxJournals]
  BY CopiesStep DEF CopiesOK, RestOK
<1>2. ASSUME UNCHANGED <<stash, late, cleaner, sent>>, seen'.finished = seen.finished, disk'["cleanup"] = disk["cleanup"]
      PROVE  CleanedOK'
  <2>1. SameCreates /\ \A d \in Ids : Exists(d)' => Exists(d)
    BY <1>2 DEF SameCreates, Created, Exists
  <2> QED BY <1>2, <2>1, StillCleaned
<1>3. CASE Saving \/ Publishing
  BY <1>1, <1>3, SavingCleaned, PublishingCleaned
<1>4. CASE OpenNewPost
  BY <1>1, <1>2, <1>4, OpenNewPostOK DEF NewPostStep
<1>5. ASSUME NEW d \in Ids, OpenListed(d) PROVE CleanedOK'
  BY <1>1, <1>2, <1>5, OpenListedOK DEF ListedStep
<1>6. ASSUME NEW t \in Texts, Edit(t) PROVE CleanedOK'
  BY <1>2, <1>6, EditOK DEF EditStep
<1>7. CASE SaveDone
  <2>1. PICK w : DrainStep(w)
    BY <1>7, SaveDoneOK
  <2>2. w.key # "cleanup"
    BY <2>1, NameAssumption DEF DrainStep, Write
  <2>3. disk'["cleanup"] = disk["cleanup"]
    BY <2>1, <2>2 DEF DrainStep, CopiesOK, DiskOK, Slots
  <2> QED BY <1>2, <2>1, <2>3 DEF DrainStep
<1>8. CASE Cleaning
  BY <1>8, CleaningOK, CleaningCleaned
<1>9. CASE Crash
  <2>1. SameCreates /\ \A d \in Ids : Exists(d)' => Exists(d)
    BY <1>9 DEF Crash, SameCreates, Created, Exists
  <2> QED BY <1>9, <2>1, StillCleaned DEF Crash
<1>10. CASE TakesEffectLate
  BY <1>10, LateOK, LateCleaned
<1>11. CASE OtherDeviceEdits
  BY <1>11, OtherOK, StillCleaned DEF OtherStep, SameCreates
<1>12. CASE UNCHANGED vars
  BY <1>2, <1>12 DEF vars
<1> QED BY <1>3, <1>4, <1>5, <1>6, <1>7, <1>8, <1>9, <1>10, <1>11, <1>12 DEF Next

LEMMA CleanedHolds == Spec => [](CopiesOK /\ OnceOK /\ PostedOK /\ CleanedOK)
<1>1. Init => CleanedOK
  BY DEF Init, CleanedOK, Slots
<1>2. CopiesOK /\ OnceOK /\ PostedOK /\ CleanedOK /\ [Next]_vars => CleanedOK'
  BY CleanedStep
<1> QED BY <1>1, <1>2, PostedHolds, PTL DEF Spec

\* CleanedLeavesNothing: a cleanup ends only when no draft of the composition is
\* left upstream and no request under way can make one
\* (cleanupPublishedComposition looks an unknown create up first).
THEOREM CleanupIsFinal == Spec => []CleanedLeavesNothing
<1>1. CleanedOK => CleanedLeavesNothing
  BY DEF CleanedOK, CleanedLeavesNothing, Asked
<1> QED BY <1>1, CleanedHolds, PTL
-----------------------------------------------------------------------------
(* The text the user typed last.                                           *)

LEMMA QueueKept ==
  ASSUME CopiesOK, CopiesOK', QueueOK, run # None, run' # None, QueueMoves, run'.segs = run.segs,
         run.stopped => run'.stopped, Tried(run) => Tried(run'),
         run'.stopped => run'.cloud.done \/ run'.op \in {"close", "closed"},
         run'.op = "send" => run.op = "send" \/ mind' = Forgotten, mind' = mind \/ mind' = Forgotten
  PROVE  QueueOK'
<1>1. mind'.kept => mind'.typed # None
  BY DEF QueueOK, Forgotten
<1>2. run'.op = "send" => mind'.typed = None
  BY DEF QueueOK, Forgotten
<1>3. ASSUME NEW by \in By, Saved(by)
      PROVE  /\ writes'[Len(writes')].copy.segs = run'.segs
             /\ ~Tried(run') => \A i \in DOMAIN writes' : ~Tried(writes'[i].copy)
  <2>1. writes'[Len(writes')].copy = CopyOf(run')
    BY <1>3, Queued
  <2>2. ASSUME ~Tried(run'), NEW i \in DOMAIN writes' PROVE ~Tried(writes'[i].copy)
    <3>1. CASE i = Len(writes) + 1
      BY <1>3, <2>1, <2>2, <3>1, Queued DEF Tried, CopyOf
    <3>2. CASE i # Len(writes) + 1
      <4>1. i \in DOMAIN writes /\ writes'[i] = writes[i]
        BY <1>3, <2>2, <3>2, Queued
      <4> QED BY <2>2, <4>1 DEF QueueOK
    <3> QED BY <3>1, <3>2
  <2> QED BY <2>1, <2>2 DEF CopyOf
<1>4. run' # None /\ ~run'.stopped /\ writes' # <<>> => writes'[Len(writes')].copy.segs = run'.segs
  BY <1>3 DEF QueueOK, QueueMoves
<1>5. ~Tried(run') => \A i \in DOMAIN writes' : ~Tried(writes'[i].copy)
  BY <1>3 DEF QueueOK, QueueMoves
<1> QED BY <1>1, <1>2, <1>4, <1>5 DEF QueueOK, Tried

LEMMA HeldQueue ==
  ASSUME CopiesOK, CopiesOK', NEW k \in {"new"} \cup Ids, HeldAt(k), run # None, run' # None, QueueMoves, disk' = disk, mind' = mind,
         run'.slot = run.slot, run'.segs = run.segs, ~Tried(run'), run'.op \notin {"close", "closed"}, seen'.listed = seen.listed
  PROVE  HeldAt(k)'
<1>1. PICK n : n = Len(writes)
  OBVIOUS
<1>2. n \in Nat /\ DOMAIN writes = 1..n
  BY <1>1, QueueStands
<1>3. \/ writes' = writes
      \/ /\ Len(writes') = n + 1 /\ DOMAIN writes' = 1..(n + 1) /\ writes'[n + 1].copy.segs = mind.typed
         /\ \A i \in 1..n : writes'[i] = writes[i]
  <2>1. ASSUME NEW by \in By, Saved(by)
        PROVE  /\ Len(writes') = n + 1 /\ DOMAIN writes' = 1..(n + 1) /\ writes'[n + 1].copy = CopyOf(run')
               /\ \A i \in 1..n : writes'[i] = writes[i]
    BY <1>1, <1>2, <2>1, Queued
  <2> QED BY <2>1 DEF QueueMoves, CopyOf, HeldAt
<1>4. ASSUME mind.kept, NEW i \in DOMAIN writes' PROVE writes'[i].copy.segs = mind.typed
  BY <1>2, <1>3, <1>4 DEF HeldAt
<1>5. ASSUME ~mind.kept
      PROVE  \E e \in DOMAIN writes' :
               /\ writes'[e].key = k
               /\ e > 1 => writes'[e - 1].copy.segs # mind.typed
               /\ \A i \in e..Len(writes') : writes'[i].copy.segs = mind.typed
  <2>1. PICK e \in 1..n : /\ writes[e].key = k
                          /\ e > 1 => writes[e - 1].copy.segs # mind.typed
                          /\ \A i \in e..n : writes[i].copy.segs = mind.typed
    BY <1>1, <1>2, <1>5 DEF HeldAt
  <2>2. CASE writes' = writes
    BY <1>1, <1>2, <2>1, <2>2
  <2>3. CASE /\ Len(writes') = n + 1 /\ DOMAIN writes' = 1..(n + 1) /\ writes'[n + 1].copy.segs = mind.typed
             /\ \A i \in 1..n : writes'[i] = writes[i]
    <3>1. e \in DOMAIN writes' /\ writes'[e] = writes[e] /\ (e > 1 => e - 1 \in 1..n)
      BY <1>2, <2>3
    <3>2. ASSUME NEW i \in e..(n + 1) PROVE writes'[i].copy.segs = mind.typed
      <4>1. i = n + 1 \/ (i \in e..n /\ i \in 1..n)
        BY <1>2
      <4> QED BY <2>1, <2>3, <4>1
    <3>3. e > 1 => writes'[e - 1].copy.segs # mind.typed
      BY <2>1, <2>3, <3>1
    <3> QED BY <2>1, <2>3, <3>1, <3>2, <3>3
  <2> QED BY <1>3, <2>2, <2>3
<1> QED BY <1>4, <1>5 DEF HeldAt, Tried

\* The editor moves on with the same text.
LEMMA KeptQueue ==
  ASSUME CopiesOK, CopiesOK', KeptOK, run # None, run' # None, QueueMoves, UNCHANGED <<disk, sent>>,
         run'.slot = run.slot, run'.segs = run.segs, run.stopped => run'.stopped, Tried(run) => Tried(run'),
         run'.stopped => run'.cloud.done \/ run'.op \in {"close", "closed"},
         run'.op = "send" => run.op = "send" \/ mind' = Forgotten, mind' = mind \/ mind' = Forgotten,
         seen'.listed = seen.listed, seen'.blind = seen.blind,
         mind'.typed # None /\ ~Tried(run) /\ run.segs = mind.typed /\ run.op \notin {"close", "closed"} =>
           ~Tried(run') /\ run'.op \notin {"close", "closed"}
  PROVE  KeptOK'
<1>1. QueueOK'
  BY QueueKept DEF KeptOK
<1>2. ASSUME Wanted' PROVE sent' = {} /\ Held'
  <2>1. mind' = mind /\ sent = {} /\ Held
    BY <1>2 DEF Wanted, KeptOK, Forgotten
  <2>2. CASE HeldAside
    BY <2>1, <2>2 DEF Held, HeldAside
  <2>3. ASSUME NEW k \in {"new"} \cup Ids, HeldAt(k) PROVE HeldAt(k)'
    <3>1. ~Tried(run') /\ run'.op \notin {"close", "closed"}
      BY <1>2, <2>1, <2>3 DEF HeldAt, Wanted
    <3> QED BY <2>1, <2>3, <3>1, HeldQueue
  <2> QED BY <2>1, <2>2, <2>3 DEF Held
<1> QED BY <1>1, <1>2 DEF KeptOK

LEMMA SaverKept == ASSUME CopiesOK, CopiesOK', KeptOK, SaverKeeps PROVE KeptOK'
<1>1. run'.stopped => run'.cloud.done \/ run'.op \in {"close", "closed"}
  BY DEF SaverKeeps, KeptOK, QueueOK
<1> QED BY <1>1, KeptQueue DEF SaverKeeps, Tried

LEMMA EditKept == ASSUME CopiesOK, CopiesOK', SlotsKept, Settled /\ sent # {} => AllPosted, KeptOK, NEW t \in Texts, EditStep(t) PROVE KeptOK'
<1>1. /\ run # None /\ run' # None /\ ~Tried(run) /\ ~Tried(run') /\ EditorOK(run) /\ t # None
      /\ UNCHANGED <<disk, sent, seen>> /\ run'.op = run.op /\ run.op \in {"idle", "close"} /\ run'.cloud = run.cloud
  BY NameAssumption DEF EditStep, Tried, CopiesOK, RunOK
<1>2. CASE run.stopped
  <2>1. /\ UNCHANGED <<writes, mind>> /\ run'.stopped
        /\ run.cloud.done \/ run.op = "close"
    BY <1>1, <1>2 DEF EditStep, KeptOK, QueueOK
  <2>2. QueueOK'
    BY <1>1, <2>1 DEF KeptOK, QueueOK
  <2>3. ASSUME Wanted' PROVE sent' = {} /\ Held'
    <3>1. sent = {} /\ Held
      BY <1>1, <2>1, <2>3 DEF Wanted, KeptOK
    <3>2. run.op = "close"
      BY <1>1, <2>1, <3>1 DEF EditorOK, CopyOK, CopyOf, StoredOK
    <3>3. HeldAside
      BY <1>1, <3>1, <3>2 DEF Held, HeldAt
    <3> QED BY <1>1, <2>1, <3>1, <3>3 DEF Held, HeldAside
  <2> QED BY <2>2, <2>3 DEF KeptOK
<1>3. CASE ~run.stopped
  <2>1. PICK n, k : n = Len(writes) /\ k = run.slot
    OBVIOUS
  <2>2. Saved("edit") /\ mind' = [typed |-> t, kept |-> FALSE] /\ run'.segs = t /\ run'.slot = k /\ t # run.segs /\ ~run'.stopped
    BY <1>3, <2>1 DEF EditStep
  <2>3. /\ n \in Nat /\ DOMAIN writes = 1..n /\ Len(writes') = n + 1 /\ DOMAIN writes' = 1..(n + 1)
        /\ \A i \in 1..n : writes'[i] = writes[i]
        /\ writes'[n + 1].key = k /\ writes'[n + 1].copy = CopyOf(run')
    BY <1>1, <2>1, <2>2, Queued DEF By
  <2>4. n > 0 => writes[n].copy.segs # t
    BY <1>1, <1>3, <2>1, <2>2, <2>3 DEF KeptOK, QueueOK
  <2>5. ASSUME NEW i \in DOMAIN writes' PROVE ~Tried(writes'[i].copy)
    <3>1. CASE i = n + 1
      BY <1>1, <2>3, <3>1 DEF Tried, CopyOf
    <3>2. CASE i # n + 1
      <4>1. i \in 1..n /\ writes'[i] = writes[i]
        BY <2>3, <2>5, <3>2
      <4> QED BY <1>1, <2>3, <4>1 DEF KeptOK, QueueOK
    <3> QED BY <3>1, <3>2
  <2>6. QueueOK'
    BY <1>1, <2>2, <2>3, <2>5 DEF QueueOK, CopyOf
  <2>7. ASSUME Wanted' PROVE sent' = {} /\ Held'
    <3>1. sent = {}
      <4>1. ASSUME sent # {} PROVE FALSE
        <5>1. Posted(run)
          BY <1>1, <2>7, <4>1 DEF Wanted, Settled, AllPosted
        <5> QED BY <1>1, <1>3, <5>1, PostedRests
      <4> QED BY <4>1
    <3>2. k \in {"new"} \cup Ids /\ (k # "new" => seen.listed)
      BY <1>1, <2>1 DEF EditorOK, Editor, SlotsKept
    <3>3. n + 1 \in DOMAIN writes' /\ (n + 1 > 1 => writes'[(n + 1) - 1].copy.segs # t)
      BY <2>3, <2>4
    <3>4. \A i \in (n + 1)..Len(writes') : writes'[i].copy.segs = t
      BY <2>2, <2>3 DEF CopyOf
    <3>5. mind'.typed = t /\ ~mind'.kept /\ seen' = seen /\ run'.segs = t /\ run'.op \notin {"close", "closed"}
      <4>1. run.op # "close"
        BY <1>1, <1>3 DEF EditorOK, OpOK
      <4> QED BY <1>1, <2>2, <4>1
    <3>6. \E e \in DOMAIN writes' :
            /\ writes'[e].key = k
            /\ e > 1 => writes'[e - 1].copy.segs # mind'.typed
            /\ \A i \in e..Len(writes') : writes'[i].copy.segs = mind'.typed
      BY <2>3, <3>3, <3>4, <3>5
    <3>7. HeldAt(k)'
      BY <1>1, <2>2, <3>2, <3>5, <3>6 DEF HeldAt
    <3> QED BY <1>1, <3>1, <3>2, <3>7 DEF Held
  <2> QED BY <2>6, <2>7 DEF KeptOK
<1> QED BY <1>2, <1>3

\* A fresh editor, and its copy alone in the queue.
LEMMA OpenedQueue ==
  ASSUME CopiesOK, CopiesOK', writes = <<>>, run' # None, QueueMoves
  PROVE  /\ \A i \in DOMAIN writes' : writes'[i].copy = CopyOf(run')
         /\ writes' # <<>> => Len(writes') \in DOMAIN writes'
<1>1. ASSUME NEW i \in DOMAIN writes' PROVE writes'[i].copy = CopyOf(run')
  <2>1. ASSUME NEW by \in By, Saved(by) PROVE writes'[i].copy = CopyOf(run')
    <3>1. DOMAIN writes' = 1..(Len(writes) + 1) /\ Len(writes) = 0 /\ writes'[Len(writes) + 1].copy = CopyOf(run')
      BY <2>1, Queued
    <3> QED BY <1>1, <3>1
  <2> QED BY <1>1, <2>1 DEF QueueMoves
<1>2. ASSUME writes' # <<>> PROVE Len(writes') \in DOMAIN writes'
  <2>1. ASSUME NEW by \in By, Saved(by) PROVE Len(writes') \in DOMAIN writes'
    BY <2>1, Queued
  <2> QED BY <1>2, <2>1 DEF QueueMoves
<1> QED BY <1>1, <1>2

LEMMA OpenedKept ==
  ASSUME CopiesOK, CopiesOK', QueueOK, writes = <<>>, run' # None, QueueMoves, run'.stopped = run'.cloud.done, run'.op # "send",
         mind' = mind \/ mind' = Forgotten
  PROVE  QueueOK'
<1>1. /\ \A i \in DOMAIN writes' : writes'[i].copy = CopyOf(run')
      /\ writes' # <<>> => Len(writes') \in DOMAIN writes'
  BY OpenedQueue
<1> QED BY <1>1 DEF QueueOK, CopyOf, Tried, Forgotten

\* The text is restored from the copy that held it.
LEMMA Restored ==
  ASSUME CopiesOK, CopiesOK', NEW k \in {"new"} \cup Ids, HeldAt(k), run = None, writes = <<>>, run' # None, QueueMoves,
         disk' = disk, mind' = mind, seen.listed => seen'.listed, run'.slot = k, run'.segs = disk[k].segs,
         run'.journal = disk[k].journal, run'.op \notin {"close", "closed"}
  PROVE  HeldAt(k)'
<1>1. mind.kept /\ disk[k].segs = mind.typed /\ ~Tried(disk[k]) /\ disk[k] # None
  BY DEF HeldAt
<1>2. \A i \in DOMAIN writes' : writes'[i].copy.segs = mind.typed
  BY <1>1, OpenedQueue DEF CopyOf
<1>3. ~Tried(run') /\ run'.segs = mind.typed
  BY <1>1 DEF Tried
<1> QED BY <1>1, <1>2, <1>3 DEF HeldAt, Tried

LEMMA NewPostKept == ASSUME CopiesOK, CopiesOK', OnceOK, KeptOK, NewPostStep PROVE KeptOK'
<1>1. /\ run = None /\ writes = <<>> /\ run' # None /\ EditorOK(run)' /\ UNCHANGED <<disk, mind, sent>> /\ run'.slot = "new"
      /\ run'.op \in {"idle", "archive"} /\ seen'.listed = seen.listed /\ seen'.blind = seen.blind /\ QueueMoves
      /\ run'.stopped = run'.cloud.done /\ (seen.listed => LeftoverReopened)
  BY DEF NewPostStep, CopiesOK, RestOK, RunOK
<1>2. QueueOK'
  BY <1>1, OpenedKept DEF KeptOK
<1>3. ASSUME Wanted' PROVE sent' = {} /\ Held'
  <2>1. sent = {} /\ Held /\ ~seen.listed
    BY <1>1, <1>3 DEF Wanted, KeptOK
  <2>2. HeldAt("new")
    BY <2>1 DEF Held, HeldAside, HeldAt
  <2>3. run'.segs = disk["new"].segs /\ run'.journal = disk["new"].journal
    BY <1>1, <2>2 DEF NewPostStep, HeldAt
  <2>4. HeldAt("new")'
    BY <1>1, <2>2, <2>3, Restored
  <2> QED BY <1>1, <2>1, <2>4 DEF Held
<1> QED BY <1>2, <1>3 DEF KeptOK

LEMMA ListedKept == ASSUME CopiesOK, CopiesOK', OnceOK, KeptOK, NEW d \in Ids, ListedStep(d) PROVE KeptOK'
<1>1. /\ run = None /\ writes = <<>> /\ run' # None /\ UNCHANGED <<disk, sent>> /\ run'.slot = d /\ Created(d)
      /\ run'.op = "idle" /\ seen'.listed /\ seen'.blind = seen.blind /\ QueueMoves /\ run'.stopped = run'.cloud.done
      /\ mind' = mind \/ mind' = Forgotten
  BY DEF ListedStep, CopiesOK, RestOK, Confirmed
<1>2. QueueOK'
  BY <1>1, OpenedKept DEF KeptOK
<1>3. ASSUME Wanted' PROVE sent' = {} /\ Held'
  <2>1. sent = {} /\ Held /\ mind' = mind
    BY <1>1, <1>3 DEF Wanted, KeptOK, Forgotten
  <2>2. CASE HeldAside
    BY <1>1, <2>1, <2>2 DEF Held, HeldAside
  <2>3. CASE HeldAt("new")
    BY <1>1, <2>1, <2>3 DEF Held, HeldAside, HeldAt
  <2>4. ASSUME NEW k \in Ids, HeldAt(k) PROVE Held'
    <3>1. disk[k] # None /\ disk[k].segs = mind.typed
      BY <1>1, <2>4 DEF HeldAt
    <3>2. CopyOK(disk[k]) /\ disk[k].cloud.id = k
      BY <2>4, <3>1 DEF CopiesOK, DiskOK, Fits, Slots
    <3>3. k = d
      BY <1>1, <2>4, <3>2, NameAssumption DEF CopyOK, StoredOK, OnceOK, OneRequest
    <3>4. ~disk[d].cloud.done
      BY <2>1, <3>2, <3>3 DEF CopyOK, StoredOK
    \* Otherwise the list would have confirmed it.
    <3>5. disk[d].segs # disk[d].cloud.ack
      BY <1>3, <2>1, <3>1, <3>3 DEF ListedStep, Confirmed, Forgotten, Wanted
    <3>6. run'.segs = disk[d].segs /\ run'.journal = disk[d].journal
      BY <3>1, <3>3, <3>4, <3>5 DEF ListedStep
    <3>7. HeldAt(d)'
      BY <1>1, <2>1, <2>4, <3>3, <3>6, Restored
    <3> QED BY <3>7 DEF Held
  <2> QED BY <2>1, <2>2, <2>3, <2>4, <1>1 DEF Held
<1> QED BY <1>2, <1>3 DEF KeptOK

LEMMA DrainKept == ASSUME CopiesOK, CopiesOK', SlotsKept, KeptOK, NEW w, DrainStep(w) PROVE KeptOK'
<1>1. /\ UNCHANGED <<run, sent, seen>> /\ mind'.typed = mind.typed /\ mind'.kept = (mind.kept \/ SavesOnly(mind.typed))
      /\ disk' = [disk EXCEPT ![w.key] = w.copy] /\ w.copy # None /\ w.key \in Slots
  BY NoneAssumption DEF DrainStep, CopiesOK, RestOK, Write, Slots
<1>2. PICK n, p, t : n = Len(writes) /\ p = Len(writes') /\ t = mind.typed
  OBVIOUS
<1>3. /\ n \in Nat /\ DOMAIN writes = 1..n /\ p \in Nat /\ DOMAIN writes' = 1..p
      /\ 1 \in DOMAIN writes /\ writes[1] = w
  <2>1. n \in Nat /\ DOMAIN writes = 1..n /\ 1 \in DOMAIN writes /\ writes[1] = w
    BY <1>2, QueueStands, Drained
  <2>2. p \in Nat /\ DOMAIN writes' = 1..p
    BY <1>2 DEF CopiesOK, WritesOK
  <2> QED BY <2>1, <2>2
<1>4. /\ \A i \in DOMAIN writes : i >= 1 /\ (i > 1 => i - 1 \in DOMAIN writes' /\ writes'[i - 1] = writes[i])
      /\ \A j \in DOMAIN writes' :
           \/ j + 1 \in DOMAIN writes /\ writes'[j] = writes[j + 1]
           \/ run # None /\ writes'[j].copy = CopyOf(run)
  BY Drained DEF Mirrors, Mirrored
<1>5. QueueOK'
  <2>1. mind'.kept => mind'.typed # None
    BY <1>1 DEF KeptOK, QueueOK, SavesOnly
  <2>2. ASSUME run # None, ~Tried(run), NEW i \in DOMAIN writes' PROVE ~Tried(writes'[i].copy)
    BY <1>4, <2>2 DEF KeptOK, QueueOK, Tried, CopyOf
  <2>3. ASSUME run # None, ~run.stopped, writes' # <<>> PROVE writes'[p].copy.segs = run.segs
    <3>1. p \in DOMAIN writes'
      <4>1. p # 0
        BY <1>2, <2>3 DEF CopiesOK, WritesOK
      <4> QED BY <1>3, <4>1
    <3>2. CASE run # None /\ writes'[p].copy = CopyOf(run)
      BY <3>2 DEF CopyOf
    <3>3. CASE p + 1 \in DOMAIN writes /\ writes'[p] = writes[p + 1]
      <4>1. p + 1 = n
        <5>1. ASSUME p + 1 # n PROVE FALSE
          <6>1. p + 1 \in 1..n /\ n \in DOMAIN writes /\ n > 1
            BY <1>3, <3>3, <5>1
          <6>2. n - 1 \in 1..p
            BY <1>3, <1>4, <6>1
          <6> QED BY <1>3, <5>1, <6>1, <6>2
        <5> QED BY <5>1
      <4> QED BY <1>2, <1>3, <2>3, <3>3, <4>1 DEF KeptOK, QueueOK
    <3> QED BY <1>4, <3>1, <3>2, <3>3
  <2> QED BY <1>1, <1>2, <2>1, <2>2, <2>3 DEF KeptOK, QueueOK, Tried
<1>6. ASSUME Wanted' PROVE sent' = {} /\ Held'
  <2>1. sent = {} /\ Held /\ t # None
    BY <1>1, <1>2, <1>6 DEF Wanted, KeptOK
  <2>2. CASE HeldAside
    <3>1. w.key # "new"
      <4>1. seen.listed /\ ~LeftoverReopened
        BY <1>6, <2>2 DEF HeldAside, Wanted
      <4>2. \A i \in DOMAIN writes : writes[i].key # "new"
        BY <4>1 DEF SlotsKept
      <4> QED BY <1>3, <4>2
    <3>2. disk'["new"] = disk["new"]
      BY <1>1, <3>1 DEF CopiesOK, DiskOK, Slots
    <3> QED BY <1>1, <2>1, <2>2, <3>2 DEF Held, HeldAside
  <2>3. ASSUME NEW k \in {"new"} \cup Ids, HeldAt(k) PROVE HeldAt(k)'
    <3>1. run # None /\ run.slot = k /\ run.segs = t /\ ~Tried(run) /\ run.op \notin {"close", "closed"} /\ (k # "new" => seen.listed)
      BY <1>2, <1>3, <2>3 DEF HeldAt
    <3>2. disk'[k] = IF w.key = k THEN w.copy ELSE disk[k]
      BY <1>1, <2>3 DEF CopiesOK, DiskOK, Slots
    <3>3. ~Tried(w.copy)
      BY <1>3, <3>1 DEF KeptOK, QueueOK
    \* The text is in the copy already, or gets there now.
    <3>4. CASE mind.kept \/ SavesOnly(t)
      <4>1. \A i \in DOMAIN writes : writes[i].copy.segs = t
        BY <1>2, <2>3, <3>4 DEF HeldAt, SavesOnly
      <4>2. \A i \in DOMAIN writes' : writes'[i].copy.segs = t
        BY <1>4, <3>1, <4>1 DEF CopyOf
      <4>3. disk'[k] # None /\ disk'[k].segs = t /\ ~Tried(disk'[k])
        <5>1. CASE mind.kept
          BY <1>1, <1>2, <1>3, <2>3, <3>2, <3>3, <4>1, <5>1 DEF HeldAt
        <5>2. CASE ~mind.kept
          <6>1. PICK e \in 1..n : writes[e].key = k /\ (e > 1 => writes[e - 1].copy.segs # t)
            BY <1>2, <1>3, <2>3, <5>2 DEF HeldAt
          <6>2. e = 1
            <7>1. e > 1 => e - 1 \in 1..n
              BY <1>3
            <7> QED BY <1>3, <4>1, <6>1, <7>1
          <6> QED BY <1>1, <1>3, <3>2, <3>3, <4>1, <6>1, <6>2
        <5> QED BY <5>1, <5>2
      <4> QED BY <1>1, <1>2, <3>1, <3>4, <4>2, <4>3 DEF HeldAt, Tried
    \* An older text is still to be saved first.
    <3>5. CASE ~mind.kept /\ ~SavesOnly(t)
      <4>1. PICK e \in 1..n : /\ writes[e].key = k
                              /\ e > 1 => writes[e - 1].copy.segs # t
                              /\ \A i \in e..n : writes[i].copy.segs = t
        BY <1>2, <1>3, <2>3, <3>5 DEF HeldAt
      <4>2. e > 1
        BY <1>3, <2>1, <3>5, <4>1 DEF SavesOnly
      <4>3. e - 1 \in DOMAIN writes' /\ writes'[e - 1] = writes[e]
        BY <1>3, <1>4, <4>1, <4>2
      <4>4. e - 1 > 1 => writes'[(e - 1) - 1].copy.segs # t
        <5>1. ASSUME e - 1 > 1 PROVE writes'[(e - 1) - 1] = writes[e - 1]
          BY <1>3, <1>4, <5>1
        <5> QED BY <4>1, <4>2, <5>1
      <4>5. ASSUME NEW i \in (e - 1)..p PROVE writes'[i].copy.segs = t
        <5>1. i \in DOMAIN writes' /\ i + 1 >= e
          BY <1>3, <4>2, <4>3
        <5>2. i + 1 \in DOMAIN writes => i + 1 \in e..n
          BY <1>3, <4>1, <5>1
        <5> QED BY <1>4, <3>1, <4>1, <5>1, <5>2 DEF CopyOf
      <4>6. \E x \in DOMAIN writes' :
              /\ writes'[x].key = k
              /\ x > 1 => writes'[x - 1].copy.segs # t
              /\ \A i \in x..Len(writes') : writes'[i].copy.segs = t
        BY <1>2, <4>1, <4>3, <4>4, <4>5
      <4> QED BY <1>1, <1>2, <3>1, <3>5, <4>6 DEF HeldAt, Tried
    <3> QED BY <3>4, <3>5
  <2> QED BY <1>1, <2>1, <2>2, <2>3 DEF Held
<1> QED BY <1>5, <1>6 DEF KeptOK

\* Where nothing of the editor, its queue and the text changes.
LEMMA StillKept ==
  ASSUME KeptOK, UNCHANGED <<disk, writes, run, mind, sent, seen>> PROVE KeptOK'
BY DEF KeptOK, QueueOK, Wanted, Held, HeldAside, HeldAt, Tried

\* The editor goes, its text being none that is wanted.
LEMMA GoneKept ==
  ASSUME CopiesOK, SlotsKept, KeptOK, ClosedStep, disk' # disk => run.slot = "new",
         run.op = "closed" \/ Tried(run) \/ run.cloud.done
  PROVE  KeptOK'
<1>1. run # None /\ run' = None /\ UNCHANGED <<sent, mind, seen, writes>> /\ EditorOK(run)
  BY DEF ClosedStep, CopiesOK, RunOK
<1>2. QueueOK'
  BY <1>1 DEF KeptOK, QueueOK
<1>3. ASSUME Wanted' PROVE sent' = {} /\ Held'
  <2>1. sent = {} /\ Held
    BY <1>1, <1>3 DEF Wanted, KeptOK
  <2>2. ~run.cloud.done
    BY <1>1, <2>1 DEF EditorOK, CopyOK, CopyOf, StoredOK
  <2>3. HeldAside
    BY <1>1, <2>1, <2>2 DEF Held, HeldAt
  <2>4. run.slot # "new"
    BY <1>1, <1>3, <2>3 DEF HeldAside, Wanted, SlotsKept
  <2> QED BY <1>1, <2>1, <2>3, <2>4 DEF Held, HeldAside
<1> QED BY <1>2, <1>3 DEF KeptOK

LEMMA MirrorsKept == ASSUME CopiesOK, CopiesOK', KeptOK, CloseMirrors PROVE KeptOK'
<1>1. /\ OpKeeps /\ UNCHANGED <<writes, sent, mind, seen>> /\ CopyOf(run') = CopyOf(run) /\ run.op = "close" /\ run'.op = "closed"
      /\ run'.stopped /\ run # None /\ run' # None
  BY CloseMirrorsOK DEF OpKeeps
<1>2. disk'["new"] = disk["new"]
  BY CloseMirrorsOK, NameAssumption DEF CopiesOK, DiskOK, Slots
<1>3. Tried(run) => Tried(run')
  BY <1>1 DEF Tried, CopyOf
<1>4. run.stopped
  BY <1>1 DEF CopiesOK, RunOK, EditorOK, OpOK
<1>5. QueueOK'
  BY <1>1, <1>3, <1>4, QueueKept DEF OpKeeps, KeptOK
<1>6. ASSUME Wanted' PROVE sent' = {} /\ Held'
  <2>1. sent = {} /\ Held
    BY <1>1, <1>6 DEF Wanted, KeptOK
  <2>2. HeldAside
    BY <1>1, <2>1 DEF Held, HeldAt
  <2> QED BY <1>1, <1>2, <2>1, <2>2 DEF Held, HeldAside
<1> QED BY <1>5, <1>6 DEF KeptOK

\* Archiving comes after the post.
LEMMA ArchiveKept == ASSUME CopiesOK, CopiesOK', KeptOK, ArchiveStep PROVE KeptOK'
<1>1. /\ run # None /\ run.cloud.done /\ EditorOK(run) /\ UNCHANGED <<sent, mind, seen, writes>>
  BY DEF ArchiveStep, CopiesOK, RunOK
<1>2. sent # {}
  BY <1>1 DEF EditorOK, CopyOK, CopyOf, StoredOK
<1>3. CASE run' = None
  <2>1. QueueOK'
    BY <1>1, <1>3 DEF KeptOK, QueueOK
  <2> QED BY <1>1, <1>2, <2>1 DEF KeptOK, Wanted
<1>4. CASE run' # None
  <2>1. /\ run'.stopped /\ CopyOf(run') = CopyOf(run) /\ run'.op \notin {"send", "close", "closed"}
    BY <1>4 DEF ArchiveStep
  <2>2. run'.segs = run.segs /\ run'.cloud.done /\ (Tried(run) => Tried(run'))
    BY <1>1, <2>1 DEF CopyOf, Tried
  <2>3. QueueOK'
    BY <1>1, <1>4, <2>1, <2>2, QueueKept DEF KeptOK, QueueMoves
  <2> QED BY <1>1, <1>2, <2>3 DEF KeptOK, Wanted
<1> QED BY <1>3, <1>4

\* After the post no text is wanted, and the cleanup comes after it.
LEMMA CleanKept == ASSUME CopiesOK, KeptOK, CleanStep PROVE KeptOK'
<1>1. UNCHANGED <<writes, run, sent, mind>> /\ sent # {} /\ seen'.blind = seen.blind
  BY DEF CleanStep, CopiesOK, RestOK
<1> QED BY <1>1 DEF KeptOK, QueueOK, Wanted, Tried

LEMMA CrashKept == ASSUME KeptOK, Crash PROVE KeptOK'
<1>1. /\ UNCHANGED <<disk, sent, seen>> /\ run' = None /\ writes' = <<>>
      /\ mind' = IF mind.kept THEN mind ELSE Forgotten
  BY DEF Crash
<1>2. QueueOK'
  BY <1>1 DEF KeptOK, QueueOK, Forgotten
<1>3. ASSUME Wanted' PROVE sent' = {} /\ Held'
  <2>1. mind.kept /\ mind' = mind /\ sent = {} /\ Held
    BY <1>1, <1>3 DEF Wanted, KeptOK, Forgotten
  <2>2. CASE HeldAside
    BY <1>1, <2>1, <2>2 DEF Held, HeldAside
  <2>3. ASSUME NEW k \in {"new"} \cup Ids, HeldAt(k) PROVE HeldAt(k)'
    BY <1>1, <2>1, <2>3 DEF HeldAt, Tried
  <2> QED BY <1>1, <2>1, <2>2, <2>3 DEF Held
<1> QED BY <1>2, <1>3 DEF KeptOK

LEMMA PublishingKept == ASSUME CopiesOK, CopiesOK', SlotsKept, KeptOK, Publishing PROVE KeptOK'
<1>1. /\ seen \in [begun : BOOLEAN, listed : BOOLEAN, blind : BOOLEAN, finished : BOOLEAN, minted : 0..MaxJournals]
      /\ run # None => EditorOK(run)
  BY DEF CopiesOK, RestOK, RunOK
\* A step at a place where the editor is not closing.
<1>2. ASSUME OpCalm, run'.stopped = run.stopped, run.op \notin {"close", "closed"}, run'.op \notin {"close", "closed"},
             Tried(run) => Tried(run'), Tried(run') => Tried(run) \/ mind' = Forgotten,
             run'.op = "send" => mind' = Forgotten
      PROVE  KeptOK'
  <2>1. seen'.listed = seen.listed /\ seen'.blind = seen.blind /\ run # None /\ run' # None /\ OpKeeps
    BY <1>1, <1>2 DEF OpCalm, OpKeeps
  <2>2. run'.stopped => run'.cloud.done
    BY <1>2, <2>1 DEF OpCalm, KeptOK, QueueOK
  <2>3. mind'.typed # None /\ ~Tried(run) => ~Tried(run')
    BY <1>2 DEF Forgotten
  <2> QED BY <1>2, <2>1, <2>2, <2>3, KeptQueue DEF OpCalm, OpKeeps
<1>3. CASE Publish \/ PublishBegins \/ Complete
  <2>1. /\ OpCalm /\ run'.stopped = run.stopped /\ run'.op \in {"begin", "prepare", "archive"} /\ run'.journal = run.journal
        /\ run.op \in {"idle", "begin", "complete"}
    BY <1>3, PublishOK, PublishBeginsOK, CompleteOK DEF PublishBegins, Complete, OpAt
  <2>2. Tried(run) <=> Tried(run')
    BY <2>1 DEF Tried
  <2> QED BY <1>2, <2>1, <2>2
<1>4. CASE Prepare
  <2>1. /\ OpCalm /\ run'.stopped = run.stopped /\ run'.op = "checkpoint" /\ run.op = "prepare"
        /\ run'.journal = run.journal \/ (run.journal = None /\ ~run'.journal.tried)
    BY <1>4, PrepareOK DEF Prepare, OpAt
  <2>2. Tried(run) <=> Tried(run')
    BY <2>1 DEF Tried
  <2> QED BY <1>2, <2>1, <2>2
<1>5. CASE Checkpoint
  <2>1. OpCalm /\ run'.stopped = run.stopped /\ run'.op = "send" /\ run.op = "checkpoint" /\ Tried(run') /\ mind' = Forgotten
    BY <1>5, CheckpointOK DEF Checkpoint, OpAt
  <2> QED BY <1>2, <2>1
<1>6. CASE PublishFails
  <2>1. /\ OpCalm /\ run'.stopped = run.stopped /\ run'.op = "idle" /\ run.op \in {"prepare", "checkpoint", "send"}
        /\ run'.journal = IF Tried(run) THEN run.journal ELSE None
    BY <1>6, PublishFailsOK DEF PublishFails, OpAt
  <2>2. Tried(run) <=> Tried(run')
    BY <2>1 DEF Tried
  <2> QED BY <1>2, <2>1, <2>2
<1>7. CASE CloseStarts
  <2>1. /\ OpCalm /\ UNCHANGED <<writes, seen>> /\ run.op = "idle" /\ ~run.stopped /\ run'.journal = run.journal
        /\ \/ run'.op = "close" /\ Confirmed(run.segs)
           \/ run'.op = "idle" /\ run'.stopped = run.stopped /\ mind' = mind
    BY <1>7, CloseStartsOK
  <2>2. (Tried(run) <=> Tried(run')) /\ (run'.op = "close" /\ run.segs = mind.typed => mind' = Forgotten)
    BY <2>1 DEF Tried, Confirmed
  <2>3. CASE run'.op = "idle"
    BY <1>2, <2>1, <2>2, <2>3
  <2>4. CASE run'.op = "close"
    <3>1. mind'.typed # None => mind' = mind
      BY <2>1 DEF OpCalm, Forgotten
    <3>2. mind'.typed # None => run.segs # mind'.typed
      BY <2>2, <2>4, <3>1 DEF Forgotten
    <3> QED BY <2>1, <2>2, <2>4, <3>1, <3>2, KeptQueue DEF OpCalm, OpKeeps
  <2> QED BY <2>1, <2>3, <2>4
<1>8. CASE SendPost
  <2>1. /\ OpKeeps /\ UNCHANGED <<disk, writes, mind>> /\ run.op = "send" /\ run'.journal = run.journal /\ run'.op \in {"complete", "idle"}
        /\ run # None /\ run' # None
    BY <1>8, SendPostOK DEF OpKeeps
  <2>2. ~run.stopped
    BY <1>1, <2>1 DEF EditorOK, OpOK
  <2>3. run'.stopped => run'.cloud.done
    BY <1>8, SendPostOK
  <2>4. Tried(run) => Tried(run')
    BY <2>1 DEF Tried
  <2>5. QueueOK'
    BY <2>1, <2>2, <2>3, <2>4, QueueKept DEF OpKeeps, KeptOK
  <2>6. mind'.typed = None
    BY <2>1 DEF KeptOK, QueueOK
  <2> QED BY <2>5, <2>6 DEF KeptOK, Wanted
<1>9. CASE CloseMirrors
  BY <1>9, MirrorsKept
<1>10. CASE Archive
  BY <1>10, ArchiveOK, ArchiveKept
<1>11. CASE CloseFrees \/ CloseLocked
  BY <1>11, ClosesOK, GoneKept
<1> QED BY <1>3, <1>4, <1>5, <1>6, <1>7, <1>8, <1>9, <1>10, <1>11 DEF Publishing

LEMMA SavingKept == ASSUME CopiesOK, CopiesOK', KeptOK, Saving PROVE KeptOK'
<1>1. CASE SaveStarts \/ SaveBegins \/ Reconcile \/ Confirm \/ Recheck \/ Loop \/ CreateRecorded \/ UpdateSent \/ UpdateRejected
  <2>1. SaverCalm
    BY <1>1, SaveStartsOK, SaveBeginsOK, ReconcileOK, ConfirmOK, RecheckOK, LoopOK, CreateRecordedOK, UpdateSentOK, UpdateRejectedOK
  <2> QED BY <2>1, SaverKept DEF SaverCalm
<1>2. CASE Check \/ IntentSaved \/ CreateRejected \/ CreateUnknown \/ CreateAnswered
  <2>1. SaverKeeps
    BY <1>2, CheckOK, IntentSavedOK, CreateRejectedOK, CreateUnknownOK, CreateAnsweredOK DEF IntentStep, SaverCalm
  <2> QED BY <2>1, SaverKept
<1> QED BY <1>1, <1>2 DEF Saving

LEMMA KeptStep == ASSUME CopiesOK, OnceOK, PostedOK, KeptOK, [Next]_vars PROVE KeptOK'
<1>1. CopiesOK' /\ SlotsKept /\ (Settled /\ sent # {} => AllPosted)
  BY CopiesStep DEF PostedOK
<1>2. CASE Saving \/ Publishing
  BY <1>1, <1>2, SavingKept, PublishingKept
<1>3. CASE OpenNewPost
  BY <1>1, <1>3, OpenNewPostOK, NewPostKept
<1>4. ASSUME NEW d \in Ids, OpenListed(d) PROVE KeptOK'
  BY <1>1, <1>4, OpenListedOK, ListedKept
<1>5. ASSUME NEW t \in Texts, Edit(t) PROVE KeptOK'
  BY <1>1, <1>5, EditOK, EditKept
<1>6. CASE SaveDone
  BY <1>1, <1>6, SaveDoneOK, DrainKept
<1>7. CASE Cleaning
  BY <1>7, CleaningOK, CleanKept
<1>8. CASE Crash
  BY <1>8, CrashKept
<1>9. CASE TakesEffectLate \/ OtherDeviceEdits \/ UNCHANGED vars
  <2>1. UNCHANGED <<disk, writes, run, mind, sent, seen>>
    BY <1>9, LateOK, OtherOK DEF LateStep, OtherStep, vars
  <2> QED BY <2>1, StillKept
<1> QED BY <1>2, <1>3, <1>4, <1>5, <1>6, <1>7, <1>8, <1>9 DEF Next

LEMMA InvariantHolds == Spec => []IInv
<1>1. Init => IInv
  <2>1. Init => CleanedOK /\ KeptOK
    BY DEF Init, CleanedOK, KeptOK, QueueOK, Wanted, Forgotten, Slots
  <2> QED BY <2>1, CopiesInit, OnceInit, PostedInit DEF IInv
<1>2. IInv /\ [Next]_vars => IInv'
  BY CopiesStep, OnceStep, PostedStep, CleanedStep, KeptStep DEF IInv
<1> QED BY <1>1, <1>2, PTL DEF Spec

\* LocalTextKept, where New Post is not opened again once its draft was opened from
\* the list: what the user typed last and a local save held stays in a local copy,
\* across crashes, conflicts and newer remote drafts (persist, openCompositionForDraft).
THEOREM TextSurvives == Spec => [](~LeftoverReopened => LocalTextKept)
<1>1. ASSUME KeptOK, ~LeftoverReopened, mind.kept, ~seen.blind PROVE \E k \in Slots : disk[k] # None /\ disk[k].segs = mind.typed
  <2>1. Held
    BY <1>1 DEF KeptOK, QueueOK, Wanted
  <2>2. CASE HeldAside
    BY <2>2 DEF HeldAside, Slots
  <2>3. ASSUME NEW k \in {"new"} \cup Ids, HeldAt(k) PROVE k \in Slots /\ disk[k] # None /\ disk[k].segs = mind.typed
    BY <1>1, <2>3 DEF HeldAt, Slots
  <2> QED BY <2>1, <2>2, <2>3 DEF Held
<1>2. IInv => (~LeftoverReopened => LocalTextKept)
  BY <1>1 DEF IInv, LocalTextKept
<1> QED BY <1>2, InvariantHolds, PTL
=============================================================================
