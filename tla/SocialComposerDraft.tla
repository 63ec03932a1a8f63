------------------------ MODULE SocialComposerDraft ------------------------
(***************************************************************************)
(* One composition of the web composer (apps/web, useSocialComposerDraft): *)
(* text typed in one browser is kept in local copies, saved as a private   *)
(* draft upstream and finally published, while pages crash, answers are    *)
(* lost and another device edits the draft.  Upstream can neither create   *)
(* idempotently nor update conditionally, and its list may be old.         *)
(*                                                                         *)
(* A composition has up to three local copies: under New Post, under the   *)
(* ID of its upstream draft (the mirror), and, once published, under       *)
(* Cleanup.                                                                *)
(*                                                                         *)
(* Simplifications:                                                        *)
(*  - one account and one composition; a text stands for the segments and  *)
(*    for their fingerprint, None for the blank editor;                    *)
(*  - attachments, forks, replacing by the remote draft and discarding are *)
(*    left out; of the post journal only its key and 'tried' are kept;     *)
(*  - the local saves run in the order they were called, as read-write     *)
(*    transactions of one object store do;                                 *)
(*  - a readback of three reads may give up after any of them;             *)
(*  - the drafts a create found in the list ('baselineIds') are not the    *)
(*    composition's, and so not in the model.                              *)
(***************************************************************************)
EXTENDS Naturals, FiniteSets, Sequences

CONSTANTS
  Ids,               \* what upstream may call a draft
  Texts,
  None,
  LeftoverReopened,  \* may New Post be opened once its draft was opened from the list?
  MaxEdits, MaxFaults, MaxJournals  \* bounds; a fault is a crash, a lost answer or another device's edit

VARIABLES
  stash,    \* upstream, per draft: its content (None: deleted) and all it ever had
  late,     \* requests sent that may still take effect
  disk,     \* the local copies (IndexedDB)
  writes,   \* local saves under way, in the order they were called
  run,      \* the open editor (Composition), or None
  cleaner,  \* the background cleanup of a published composition, or None
  sent,     \* keys of the posts sent
  mind,     \* history: what the user typed last, and whether it was saved
  seen,     \* history of the composition
  used      \* how much of each bound is used up

vars == <<stash, late, disk, writes, run, cleaner, sent, mind, seen, used>>

Slots   == {"new", "cleanup"} \cup Ids
Maybe   == Texts \cup {None}
Pending == [text : Texts, prev : Texts] \cup {None}
Cloud   == [id : Ids \cup {None}, ack : Maybe, stale : SUBSET Texts, intent : Maybe,
            pending : Pending, done : BOOLEAN, deleted : BOOLEAN, cleaned : BOOLEAN]
Journal == [key : 1..MaxJournals, tried : BOOLEAN] \cup {None}
Copy    == [segs : Maybe, journal : Journal, cloud : Cloud]
SaverPc == {"idle", "begin", "confirm", "recheck", "preserved", "loop", "check", "intent",
            "creating", "created", "pending"}
OpPc    == {"idle", "begin", "prepare", "checkpoint", "send", "complete", "archive", "tombstone",
            "retire", "free", "close", "closed"}
Editor  == [slot : {"new"} \cup Ids, segs : Maybe, journal : Journal, cloud : Cloud,
            stopped : BOOLEAN, publishing : BOOLEAN, conflict : BOOLEAN,
            saver : SaverPc, payload : Maybe, resend : BOOLEAN, op : OpPc]

ASSUME NameAssumption  == {None, "new", "cleanup"} \cap Ids = {} /\ None \notin Texts \cup {"new", "cleanup"}
ASSUME BoundAssumption == {MaxEdits, MaxFaults, MaxJournals} \subseteq Nat
\* None stands for no update, no journal, no copy, no editor and no cleanup.
ASSUME NoneAssumption ==
  /\ None \notin [text : Texts, prev : Texts] /\ None \notin [key : 1..MaxJournals, tried : BOOLEAN]
  /\ None \notin Copy /\ None \notin Editor /\ None \notin [at : {"reconcile", "claim", "delete", "tombstone", "retire", "drop"}, copy : Copy]

TypeOK ==
  /\ stash \in [Ids -> [now : Maybe, ever : SUBSET Texts]]
  /\ late \in SUBSET ([id : Ids \cup {None}, text : Texts])
  /\ disk \in [Slots -> Copy \cup {None}]
  /\ \A i \in DOMAIN writes : writes[i] \in [key : Slots, copy : Copy, by : {"saver", "op", "edit"}, mirrors : BOOLEAN]
  /\ run \in Editor \cup {None}
  /\ cleaner \in [at : {"reconcile", "claim", "delete", "tombstone", "retire", "drop"}, copy : Copy] \cup {None}
  /\ sent \in SUBSET (1..MaxJournals)
  /\ mind \in [typed : Maybe, kept : BOOLEAN]
  /\ seen \in [begun : BOOLEAN, listed : BOOLEAN, blind : BOOLEAN, finished : BOOLEAN, minted : 0..MaxJournals]
  /\ used \in [edits : 0..MaxEdits, faults : 0..MaxFaults]
-----------------------------------------------------------------------------
(* Upstream.                                                               *)

Exists(d)  == stash[d].now # None
Created(d) == stash[d].ever # {}

Put(d, t) == stash' = [stash EXCEPT ![d] = [now |-> t, ever |-> @.ever \cup {t}]]

\* What one entry of a list may show: any content the draft ever had, or nothing.
Shown(d) == stash[d].ever \cup {None}
Listings == {l \in [Ids -> Maybe] : \A d \in Ids : l[d] \in Shown(d)}

\* A request takes effect: an update of a deleted draft has none.
Effect(req) ==
  IF req.id = None
    THEN \E d \in Ids : ~Created(d) /\ Put(d, req.text)
    ELSE IF Exists(req.id) THEN Put(req.id, req.text) ELSE UNCHANGED stash

TakesEffectLate ==
  \E req \in late :
    /\ Effect(req) /\ late' = late \ {req}
    /\ UNCHANGED <<disk, writes, run, cleaner, sent, mind, seen, used>>

Fault == used.faults < MaxFaults /\ used' = [used EXCEPT !.faults = @ + 1]

OtherDeviceEdits ==
  \E d \in Ids, t \in Texts :
    /\ Exists(d) /\ t # stash[d].now /\ Fault
    /\ Put(d, t)
    /\ UNCHANGED <<late, disk, writes, run, cleaner, sent, mind, seen>>
-----------------------------------------------------------------------------
(* Local copies.                                                           *)

NoCloud == [id |-> None, ack |-> None, stale |-> {}, intent |-> None, pending |-> None,
            done |-> FALSE, deleted |-> FALSE, cleaned |-> FALSE]

CopyOf(r) == [segs |-> r.segs, journal |-> r.journal, cloud |-> r.cloud]

Tombstone(d) == [segs |-> None, journal |-> None,
                 cloud |-> [NoCloud EXCEPT !.id = d, !.done = TRUE, !.cleaned = TRUE]]

\* persist(run): r becomes the editor's state, and its copy is queued for its slot.
Persist(r, by) ==
  /\ run' = r
  /\ writes' = Append(writes, [key |-> r.slot, copy |-> CopyOf(r), by |-> by, mirrors |-> TRUE])

Awaited(by) == \A i \in DOMAIN writes : writes[i].by # by

\* Variant: checkpoints are not mirrored.
MirrorsDraft(w) == w.by = "saver" /\ w.mirrors /\ run # None /\ run.cloud.id \notin {None, run.slot}

Mirrors(w) == w.mirrors /\ run # None /\ run.cloud.id \notin {None, run.slot}

\* No older text waits to be saved over t.
SavesOnly(t) == t # None /\ \A i \in DOMAIN writes : writes[i].copy.segs = t

\* The oldest save is done; persist then saves the mirror, with what the editor
\* holds by now.
SaveDone ==
  /\ writes # <<>>
  /\ LET w == Head(writes) IN
     /\ disk' = [disk EXCEPT ![w.key] = w.copy]
     /\ writes' = IF Mirrors(w)
                    THEN Append(Tail(writes), [key |-> run.cloud.id, copy |-> CopyOf(run), by |-> w.by, mirrors |-> FALSE])
                    ELSE Tail(writes)
     /\ mind' = [mind EXCEPT !.kept = @ \/ SavesOnly(mind.typed)]
  /\ UNCHANGED <<stash, late, run, cleaner, sent, seen, used>>

\* A save that is waited for where it is called.
SaveAt(k, copy) == writes = <<>> /\ disk' = [disk EXCEPT ![k] = copy]

Forgotten == [typed |-> None, kept |-> FALSE]

\* Upstream confirmed t: what the user typed is no longer held here alone.
Confirmed(t) == mind' = IF t = mind.typed THEN Forgotten ELSE mind
-----------------------------------------------------------------------------
(* Opening, editing, crashing.                                             *)

Opened(slot, copy) ==
  [slot |-> slot, segs |-> copy.segs, journal |-> copy.journal, cloud |-> copy.cloud,
   stopped |-> copy.cloud.done, publishing |-> FALSE, conflict |-> FALSE,
   saver |-> "idle", payload |-> None, resend |-> FALSE, op |-> "idle"]

\* New Post; a completed leftover is archived first, and its editor ends there.
OpenNewPost ==
  /\ run = None /\ writes = <<>>
  /\ seen.listed => LeftoverReopened
  /\ IF disk["new"] = None
       THEN /\ ~seen.begun /\ seen' = [seen EXCEPT !.begun = TRUE]
            /\ Persist(Opened("new", [segs |-> None, journal |-> None, cloud |-> NoCloud]), "edit")
       ELSE /\ UNCHANGED seen
            /\ LET r == Opened("new", disk["new"]) IN
               IF r.cloud.done THEN run' = [r EXCEPT !.op = "archive"] /\ UNCHANGED writes
                               ELSE Persist(r, "edit")
  /\ UNCHANGED <<stash, late, disk, cleaner, sent, mind, used>>

\* What the list shows of the draft is neither confirmed, nor ours in flight, nor an old payload.
Foreign(t, cloud) ==
  t \notin {None, cloud.ack} \cup cloud.stale \cup (IF cloud.pending = None THEN {} ELSE {cloud.pending.text})

\* Variant: a newer remote draft replaces text that was never saved upstream.
ResumedOver(d, copy, t) ==
  LET r == Opened(d, copy) IN
  IF copy.cloud.done THEN [r EXCEPT !.segs = None, !.journal = None]
  ELSE IF ~Foreign(t, copy.cloud) THEN r
  ELSE [r EXCEPT !.segs = t, !.cloud.ack = t]

Resumed(d, copy, t) ==
  LET r == Opened(d, copy) IN
  IF copy.cloud.done THEN [r EXCEPT !.segs = None, !.journal = None]
  ELSE IF ~Foreign(t, copy.cloud) THEN r
  ELSE IF copy.segs = copy.cloud.ack /\ copy.journal = None /\ copy.cloud.intent = None
    THEN [r EXCEPT !.segs = t, !.cloud.ack = t]
    ELSE [r EXCEPT !.conflict = TRUE]

OpenListed(d) ==
  /\ run = None /\ writes = <<>>
  /\ \E t \in Shown(d) \ {None} :
       LET fresh == [segs |-> t, journal |-> None, cloud |-> [NoCloud EXCEPT !.id = d, !.ack = t]] IN
       Persist(IF disk[d] = None THEN Opened(d, fresh) ELSE Resumed(d, disk[d], t), "edit")
  /\ IF disk[d] # None /\ disk[d].segs = disk[d].cloud.ack THEN Confirmed(disk[d].segs) ELSE UNCHANGED mind
  /\ seen' = [seen EXCEPT !.listed = TRUE]
  /\ UNCHANGED <<stash, late, disk, cleaner, sent, used>>

\* Attempted text is locked, and so is the editor while it publishes.
Tried(r) == r.journal # None /\ r.journal.tried

Edit(t) ==
  /\ run # None /\ ~Tried(run) /\ run.op \in {"idle", "close"} /\ t # run.segs
  /\ used.edits < MaxEdits /\ used' = [used EXCEPT !.edits = @ + 1]
  /\ LET r == [run EXCEPT !.segs = t] IN
     IF run.stopped THEN run' = r /\ UNCHANGED <<writes, mind>>
                    ELSE Persist(r, "edit") /\ mind' = [typed |-> t, kept |-> FALSE]
  /\ UNCHANGED <<stash, late, disk, cleaner, sent, seen>>

Crash ==
  /\ run # None \/ cleaner # None
  /\ Fault
  /\ run' = None /\ cleaner' = None /\ writes' = <<>>
  /\ mind' = IF mind.kept THEN mind ELSE Forgotten
  /\ UNCHANGED <<stash, late, disk, sent, seen>>
-----------------------------------------------------------------------------
(* The saver: saveRemote, one call at a time (run.inFlight).               *)

Halted(r) == Tried(r) \/ r.stopped \/ r.publishing
Rest(r)   == [r EXCEPT !.saver = "idle", !.payload = None, !.resend = FALSE]
Go(r, pc) == [r EXCEPT !.saver = pc]

SaverAt(pc) == run # None /\ run.saver = pc /\ Awaited("saver")
QuietSave   == UNCHANGED <<disk, cleaner, sent, seen>>

\* The autosave timer, a flush, or (resend) the user's Retry.
SaveStarts ==
  /\ run # None /\ run.saver = "idle" /\ run.op \in {"idle", "close"}
  /\ ~run.cloud.done /\ ~run.stopped /\ ~run.publishing
  /\ \E resend \in BOOLEAN : Persist([Go(run, "begin") EXCEPT !.resend = resend], "saver")
  /\ UNCHANGED <<stash, late, mind, used>> /\ QuietSave

\* Variant: the intent of an earlier page is not looked up.
UncertainNever(cloud) == FALSE

Uncertain(cloud) == cloud.intent # None /\ cloud.id = None

SaveBegins ==
  /\ SaverAt("begin")
  /\ IF Tried(run) \/ run.conflict THEN run' = Rest(run)
     ELSE /\ ~Uncertain(run.cloud)
          /\ run' = Go(run, IF run.cloud.pending = None THEN "loop" ELSE "confirm")
  /\ UNCHANGED <<stash, late, writes, mind, used>> /\ QuietSave

\* reconcileCreate: the create of an earlier page or request is looked up, never sent again.
Candidates(l, copy) == {d \in Ids : l[d] = copy.cloud.intent}

Adopted(cloud, d) == [cloud EXCEPT !.id = d, !.ack = cloud.intent, !.intent = None]

Reconcile ==
  /\ SaverAt("begin") /\ ~Tried(run) /\ ~run.conflict
  /\ Uncertain(run.cloud)
  /\ \E l \in Listings :
       LET found == Candidates(l, CopyOf(run)) IN
       IF Cardinality(found) = 1
         THEN /\ Persist([Go(run, "loop") EXCEPT !.cloud = Adopted(@, CHOOSE d \in found : TRUE)], "saver")
              /\ Confirmed(run.cloud.intent)
         ELSE run' = Rest(run) /\ UNCHANGED <<writes, mind>>
  /\ UNCHANGED <<stash, late, used>> /\ QuietSave

\* Variant: the pending update itself is kept, not its text.
AcknowledgedWhole(cloud) ==
  [cloud EXCEPT !.stale = @ \cup {cloud.pending.prev}, !.ack = cloud.pending, !.pending = None]

Acknowledged(cloud) ==
  [cloud EXCEPT !.stale = @ \cup {cloud.pending.prev}, !.ack = cloud.pending.text, !.pending = None]

\* confirmUpdate: only a list that shows the text confirms it.
Confirm ==
  /\ SaverAt("confirm")
  /\ \E t \in Shown(run.cloud.id) :
       IF t = run.cloud.pending.text
         THEN /\ Persist([Go(run, "loop") EXCEPT !.cloud = Acknowledged(@), !.resend = FALSE], "saver")
              /\ Confirmed(t)
         ELSE /\ \/ Foreign(t, run.cloud) /\ run' = [Rest(run) EXCEPT !.conflict = TRUE]
                 \/ ~Foreign(t, run.cloud) /\ run' = IF run.resend THEN Go(run, "recheck") ELSE Rest(run)
              /\ UNCHANGED <<writes, mind>>
  /\ UNCHANGED <<stash, late, used>> /\ QuietSave

\* An explicit Retry may send the update again, once two more lists show exactly
\* what it replaces; the local copy is preserved between them.
Recheck ==
  /\ \E pc \in {"recheck", "preserved"} :
       /\ SaverAt(pc)
       /\ \E t \in Shown(run.cloud.id) :
            IF t = run.cloud.pending.text
              THEN /\ Persist([Go(run, "loop") EXCEPT !.cloud = Acknowledged(@), !.resend = FALSE], "saver")
                   /\ Confirmed(t) /\ UNCHANGED <<late, used>>
            ELSE IF t # run.cloud.pending.prev
              THEN /\ run' = [Rest(run) EXCEPT !.conflict = Foreign(t, run.cloud)]
                   /\ UNCHANGED <<writes, mind, late, used>>
            ELSE IF pc = "recheck"
              THEN Persist(Go(run, "preserved"), "saver") /\ UNCHANGED <<mind, late, used>>
            ELSE IF Halted(run)
              THEN run' = Rest(run) /\ UNCHANGED <<writes, mind, late, used>>
              ELSE /\ run' = [Go(run, "pending") EXCEPT !.resend = FALSE]
                   /\ UNCHANGED <<writes, mind, late, used>>
  /\ UNCHANGED stash /\ QuietSave

\* The head of the loop; edits made meanwhile are saved by the next turn.
Loop ==
  /\ SaverAt("loop")
  /\ IF Halted(run) \/ (run.cloud.id = None /\ run.segs = None) \/ run.segs = run.cloud.ack
       THEN run' = Rest(run) /\ UNCHANGED writes
       ELSE Persist([Go(run, "check") EXCEPT !.payload = run.segs], "saver")
  /\ UNCHANGED <<stash, late, mind, used>> /\ QuietSave

\* The list is read before a create (for its baseline) and before an update; the
\* intent or the pending update is saved before the request is sent.
Check ==
  /\ SaverAt("check")
  /\ \E t \in IF run.cloud.id = None THEN {None} ELSE Shown(run.cloud.id) :
       IF run.cloud.id # None /\ (t = None \/ Foreign(t, run.cloud))
         THEN run' = [Rest(run) EXCEPT !.conflict = t # None] /\ UNCHANGED writes
       ELSE IF Halted(run)
         THEN run' = Rest(run) /\ UNCHANGED writes
       ELSE IF run.cloud.id = None
         THEN Persist([Go(run, "intent") EXCEPT !.cloud.intent = run.payload], "saver")
         ELSE Persist([Go(run, "pending") EXCEPT
                         !.cloud.pending = [text |-> run.payload, prev |-> run.cloud.ack]], "saver")
  /\ UNCHANGED <<stash, late, mind, used>> /\ QuietSave

Withdrawn(r) == [r EXCEPT !.cloud.intent = None]

IntentSaved ==
  /\ SaverAt("intent")
  /\ IF Halted(run) THEN Persist(Withdrawn(Rest(run)), "saver")
                    ELSE run' = Go(run, "creating") /\ UNCHANGED writes
  /\ UNCHANGED <<stash, late, mind, used>> /\ QuietSave

\* createSocialDraft is answered, or definitely rejected, or its outcome is unknown.
CreateAnswered ==
  /\ SaverAt("creating")
  /\ \E d \in Ids :
       /\ ~Created(d) /\ Put(d, run.payload)
       /\ Persist([Go(run, "created") EXCEPT !.cloud.id = d, !.cloud.ack = run.payload], "saver")
  /\ Confirmed(run.payload)
  /\ UNCHANGED <<late, used>> /\ QuietSave

CreateRejected ==
  /\ SaverAt("creating")
  /\ Persist(Withdrawn(Rest(run)), "saver")
  /\ UNCHANGED <<stash, late, mind, used>> /\ QuietSave

CreateUnknown ==
  /\ SaverAt("creating")
  /\ Fault
  /\ late' = late \cup {[id |-> None, text |-> run.payload]}
  /\ run' = Rest(run)
  /\ UNCHANGED <<stash, writes, mind>> /\ QuietSave

CreateRecorded ==
  /\ SaverAt("created")
  /\ Persist(Withdrawn(Go(run, "loop")), "saver")
  /\ UNCHANGED <<stash, late, mind, used>> /\ QuietSave

\* Variant: the answer to an update is taken for its confirmation.
UpdateTrusted ==
  /\ SaverAt("pending")
  /\ late' = late \cup {[id |-> run.cloud.id, text |-> run.cloud.pending.text]}
  /\ Persist([Go(run, "loop") EXCEPT !.cloud = Acknowledged(@)], "saver")
  /\ Confirmed(run.cloud.pending.text)
  /\ UNCHANGED <<stash, used>> /\ QuietSave

\* updateSocialDraft: an answer only says that upstream took the request.
UpdateSent ==
  /\ SaverAt("pending")
  /\ late' = late \cup {[id |-> run.cloud.id, text |-> run.cloud.pending.text]}
  /\ \/ run' = Go(run, "confirm") /\ UNCHANGED used
     \/ run' = Rest(run) /\ Fault
  /\ UNCHANGED <<stash, writes, mind>> /\ QuietSave

UpdateRejected ==
  /\ SaverAt("pending")
  /\ Persist([Rest(run) EXCEPT !.cloud.pending = None], "saver")
  /\ UNCHANGED <<stash, late, mind, used>> /\ QuietSave
-----------------------------------------------------------------------------
(* Publishing and closing.                                                 *)

OpAt(pc)   == run # None /\ run.op = pc /\ Awaited("op")
Do(r, pc)  == [r EXCEPT !.op = pc]
SaverQuiet == run.saver = "idle" /\ Awaited("saver")
QuietOp    == UNCHANGED <<stash, late, cleaner, used>>

\* beginPublication: no save starts any more, and the running one is waited for.
Publish ==
  /\ OpAt("idle") /\ ~run.stopped /\ ~run.cloud.done /\ run.segs # None
  /\ run' = [Do(run, "begin") EXCEPT !.publishing = TRUE]
  /\ UNCHANGED <<writes, disk, sent, mind, seen>> /\ QuietOp

PublishBegins ==
  /\ OpAt("begin") /\ SaverQuiet
  /\ Persist(Do(run, "prepare"), "op")
  /\ UNCHANGED <<disk, sent, mind, seen>> /\ QuietOp

\* The journal of the restored copy is continued; only without one a key is minted.
Prepare ==
  /\ OpAt("prepare")
  /\ IF run.journal # None
       THEN Persist(Do(run, "checkpoint"), "op") /\ UNCHANGED seen
       ELSE /\ seen.minted < MaxJournals /\ seen' = [seen EXCEPT !.minted = @ + 1]
            /\ Persist([Do(run, "checkpoint") EXCEPT !.journal = [key |-> seen.minted + 1, tried |-> FALSE]], "op")
  /\ UNCHANGED <<disk, sent, mind>> /\ QuietOp

Checkpoint ==
  /\ OpAt("checkpoint")
  /\ Persist([Do(run, "send") EXCEPT !.journal.tried = TRUE], "op")
  /\ mind' = Forgotten
  /\ UNCHANGED <<disk, sent, seen>> /\ QuietOp

\* The post is created under the journal's key; its outcome may stay unknown.
SendPost ==
  /\ OpAt("send")
  /\ sent' = sent \cup {run.journal.key}
  /\ seen' = [seen EXCEPT !.blind = @ \/ Uncertain(run.cloud)]
  /\ \/ run' = [Do(run, "complete") EXCEPT !.stopped = TRUE, !.cloud.done = TRUE]
     \/ run' = [Do(run, "idle") EXCEPT !.publishing = FALSE]
  /\ UNCHANGED <<disk, writes, mind>> /\ QuietOp

\* Preparing or sending fails; a journal that was never tried is forgotten.
PublishFails ==
  /\ \E pc \in {"prepare", "checkpoint", "send"} : OpAt(pc)
  /\ run' = [Do(run, "idle") EXCEPT !.publishing = FALSE, !.journal = IF Tried(run) THEN @ ELSE None]
  /\ UNCHANGED <<disk, writes, sent, mind, seen>> /\ QuietOp

Complete ==
  /\ OpAt("complete") /\ SaverQuiet
  /\ Persist(Do(run, "archive"), "op")
  /\ UNCHANGED <<disk, sent, mind, seen>> /\ QuietOp

\* archivePublishedComposition: the cleanup copy, the mirror as a tombstone, a
\* leftover under New Post, and last the editor's own slot.
Leftover(d) == disk["new"] # None /\ d # None /\ disk["new"].cloud.id = d

Archive ==
  /\ \/ /\ OpAt("archive") /\ SaveAt("cleanup", CopyOf(run)) /\ run' = Do(run, "tombstone")
     \/ /\ OpAt("tombstone") /\ run' = Do(run, "retire")
        /\ IF run.cloud.id = None THEN UNCHANGED disk ELSE SaveAt(run.cloud.id, CopyOf(run))
     \/ /\ OpAt("retire") /\ run' = Do(run, "free")
        /\ IF run.slot # "new" /\ Leftover(run.cloud.id)
             THEN SaveAt("new", [disk["new"] EXCEPT !.cloud.done = TRUE]) ELSE UNCHANGED disk
     \/ /\ OpAt("free") /\ run' = None
        /\ IF run.slot = "new" \/ Leftover(run.cloud.id) THEN SaveAt("new", None) ELSE UNCHANGED disk
  /\ UNCHANGED <<writes, sent, mind, seen>> /\ QuietOp

\* close, after its flush: the draft must be visible upstream with the text shown.
Synced == IF run.cloud.id = None THEN run.segs = None ELSE run.segs = run.cloud.ack

CloseStarts ==
  /\ OpAt("idle") /\ SaverQuiet /\ ~run.stopped /\ run.journal = None /\ ~run.conflict
  /\ run.cloud.intent = None /\ run.cloud.pending = None /\ Synced
  /\ \E t \in IF run.cloud.id = None THEN {None} ELSE Shown(run.cloud.id) :
       \/ t = run.cloud.ack /\ run' = [Do(run, "close") EXCEPT !.stopped = TRUE] /\ Confirmed(run.segs)
       \/ Foreign(t, run.cloud) /\ run' = [run EXCEPT !.conflict = TRUE] /\ UNCHANGED mind
  /\ UNCHANGED <<writes, disk, sent, seen>> /\ QuietOp

CloseMirrors ==
  /\ OpAt("close")
  /\ IF run.cloud.id \in {None, run.slot} THEN UNCHANGED disk ELSE SaveAt(run.cloud.id, CopyOf(run))
  /\ run' = Do(run, "closed")
  /\ UNCHANGED <<writes, sent, mind, seen>> /\ QuietOp

CloseFrees ==
  /\ OpAt("closed")
  /\ IF run.slot = "new" THEN SaveAt("new", None) ELSE UNCHANGED disk
  /\ run' = None
  /\ UNCHANGED <<writes, sent, mind, seen>> /\ QuietOp

\* A tried or a completed composition closes without more ado; its copies stay.
CloseLocked ==
  /\ OpAt("idle") /\ SaverQuiet /\ (Tried(run) \/ run.cloud.done)
  /\ run' = None
  /\ UNCHANGED <<writes, disk, sent, mind, seen>> /\ QuietOp
-----------------------------------------------------------------------------
(* cleanupPublishedComposition, resumed from its copy until it succeeds.   *)

QuietCleanup == UNCHANGED <<late, writes, run, sent, mind>>
CleanerAt(at) == cleaner # None /\ cleaner.at = at
Clean(at, copy) == cleaner' = [at |-> at, copy |-> copy]

CleanupStarts ==
  /\ cleaner = None /\ disk["cleanup"] # None
  /\ Clean("reconcile", disk["cleanup"])
  /\ UNCHANGED <<stash, disk, seen, used>> /\ QuietCleanup

\* Variant: without an ID there is nothing to delete.
CleanupAssumes ==
  /\ CleanerAt("reconcile") /\ Clean("claim", cleaner.copy)
  /\ UNCHANGED <<stash, disk, seen, used>> /\ QuietCleanup

\* A create whose outcome is unknown is looked up before there is anything to delete.
CleanupReconciles ==
  /\ CleanerAt("reconcile")
  /\ IF ~Uncertain(cleaner.copy.cloud) THEN Clean("claim", cleaner.copy) /\ UNCHANGED disk
     ELSE \E l \in Listings :
            LET found == Candidates(l, cleaner.copy)
                copy  == [cleaner.copy EXCEPT !.cloud.id = CHOOSE d \in found : TRUE, !.cloud.intent = None] IN
            IF Cardinality(found) = 1
              THEN Clean("claim", copy) /\ SaveAt("cleanup", copy)
              ELSE cleaner' = None /\ UNCHANGED disk
  /\ UNCHANGED <<stash, seen, used>> /\ QuietCleanup

CleanupClaims ==
  /\ CleanerAt("claim")
  /\ LET copy == cleaner.copy IN
     IF copy.cloud.id = None THEN Clean("drop", copy) /\ UNCHANGED disk
     ELSE /\ SaveAt(copy.cloud.id, copy)
          /\ Clean(IF copy.cloud.deleted THEN "tombstone" ELSE "delete", copy)
  /\ UNCHANGED <<stash, seen, used>> /\ QuietCleanup

\* deleteSocialDraft; when its answer is lost the draft may be gone or not.
CleanupDeletes ==
  /\ CleanerAt("delete")
  /\ LET d     == cleaner.copy.cloud.id
         copy  == [cleaner.copy EXCEPT !.cloud.deleted = TRUE]
         gone  == stash' = [stash EXCEPT ![d].now = None] IN
     \/ gone /\ SaveAt("cleanup", copy) /\ Clean("tombstone", copy) /\ UNCHANGED used
     \/ /\ gone \/ UNCHANGED stash
        /\ Fault
        /\ cleaner' = None /\ UNCHANGED disk
  /\ UNCHANGED seen /\ QuietCleanup

CleanupSettles ==
  /\ \/ /\ CleanerAt("tombstone")
        /\ SaveAt(cleaner.copy.cloud.id, Tombstone(cleaner.copy.cloud.id)) /\ Clean("retire", cleaner.copy)
     \/ /\ CleanerAt("retire") /\ Clean("drop", cleaner.copy)
        /\ IF Leftover(cleaner.copy.cloud.id) /\ disk["new"].cloud.done
             THEN SaveAt("new", None) ELSE UNCHANGED disk
  /\ UNCHANGED <<stash, seen, used>> /\ QuietCleanup

CleanupEnds ==
  /\ CleanerAt("drop") /\ SaveAt("cleanup", None)
  /\ cleaner' = None /\ seen' = [seen EXCEPT !.finished = TRUE]
  /\ UNCHANGED <<stash, used>> /\ QuietCleanup
-----------------------------------------------------------------------------
Init ==
  /\ stash = [d \in Ids |-> [now |-> None, ever |-> {}]] /\ late = {} /\ disk = [k \in Slots |-> None] /\ writes = <<>>
  /\ run = None /\ cleaner = None /\ sent = {} /\ mind = Forgotten
  /\ seen = [begun |-> FALSE, listed |-> FALSE, blind |-> FALSE, finished |-> FALSE, minted |-> 0]
  /\ used = [edits |-> 0, faults |-> 0]

Saving ==
  \/ SaveStarts \/ SaveBegins \/ Reconcile \/ Confirm \/ Recheck \/ Loop \/ Check \/ IntentSaved
  \/ CreateAnswered \/ CreateRejected \/ CreateUnknown \/ CreateRecorded \/ UpdateSent \/ UpdateRejected

Publishing ==
  \/ Publish \/ PublishBegins \/ Prepare \/ Checkpoint \/ SendPost \/ PublishFails \/ Complete \/ Archive
  \/ CloseStarts \/ CloseMirrors \/ CloseFrees \/ CloseLocked

Cleaning ==
  \/ CleanupStarts \/ CleanupReconciles \/ CleanupClaims \/ CleanupDeletes \/ CleanupSettles \/ CleanupEnds

Next ==
  \/ OpenNewPost \/ (\E d \in Ids : OpenListed(d)) \/ (\E t \in Texts : Edit(t))
  \/ SaveDone \/ Saving \/ Publishing \/ Cleaning
  \/ Crash \/ TakesEffectLate \/ OtherDeviceEdits

Spec == Init /\ [][Next]_vars
-----------------------------------------------------------------------------
\* A create is never sent again, whatever became of the first request: over lost
\* answers, crashes, reloads and editors opened from elsewhere, upstream has at
\* most one draft of the composition.
CreatedOnce == Cardinality({d \in Ids : Created(d)}) <= 1

\* What the editor or any copy takes for confirmed was upstream's content once: an
\* answered update that took no effect is never reported as saved.
SavedMeansStored ==
  LET copies == {disk[k] : k \in Slots} \ {None}
      clouds == {c.cloud : c \in copies} \cup (IF run = None THEN {} ELSE {run.cloud}) IN
  \A c \in clouds : c.ack # None => c.id # None /\ c.ack \in stash[c.id].ever

\* Text that was saved locally stays in some local copy until upstream confirmed
\* it or the user typed on or published it: no crash, conflict, cleanup or newer
\* remote draft takes it away (but for a draft that turned up after it was posted).
LocalTextKept ==
  mind.kept /\ ~seen.blind => \E k \in Slots : disk[k] # None /\ disk[k].segs = mind.typed

\* The composition is posted under one key, from whichever copy publishing is
\* resumed, unless it was posted while nobody knew whether its draft exists.
PublishedOnce == seen.blind \/ Cardinality(sent) <= 1

\* A finished cleanup leaves no draft of the published text behind, and no request
\* under way that would create one.
CleanedLeavesNothing ==
  seen.finished => (\A d \in Ids : ~Exists(d)) /\ (\A req \in late : req.id # None)
=============================================================================
