-------------------------- MODULE ArticleDraftSync --------------------------
(***************************************************************************)
(* One private article draft (apps/web, lib/articles, useArticleDrafts and *)
(* ArticlesWorkspace): tabs of several browsers edit, sync, delete and     *)
(* publish it.  A browser keeps a row with the draft and a sync state in   *)
(* IndexedDB, shared by its tabs; the AppView keeps the draft's mutations, *)
(* accepts one only against the revision it expects, and repeats the       *)
(* answer to the latest.  A mutation is journalled before it is sent.      *)
(*                                                                         *)
(* Simplifications:                                                        *)
(*  - a text stands for the whole content; the record key of the article   *)
(*    is a function of the draft, so its existence is all that is kept;    *)
(*  - images are left out, except for the time their hashing and download  *)
(*    take; scheduling, which claims the draft like publishing, too;       *)
(*  - transactions of one tab with no request, hashing or download between *)
(*    them are one step;                                                   *)
(*  - an edit is saved, and a tab syncs, at any time after it; the limit   *)
(*    of five rounds of 'reconcile' is left out;                           *)
(*  - creating and leaving a draft in the editor are left out.             *)
(***************************************************************************)
EXTENDS Naturals, Sequences, FiniteSets

CONSTANTS
  Tab, Browser,
  None,
  MaxEvents, \* how many edits, publications, deletions, unanswered requests and closed tabs
  MaxTime, MaxIds  \* how far the drafts' clock and the mutations' identifiers go

VARIABLES
  cloud,    \* the mutations the AppView accepted; its revision is their number
  late,     \* mutations whose answer was lost, which may still take effect
  row,      \* per browser: the draft with its local revision, or None
  sync,     \* per browser: its sync state
  tab,      \* per tab: the editor, its save, its sync and its publication
  posted,   \* the text of the public article, or None
  used      \* how much of each bound is used up

vars == <<cloud, late, row, sync, tab, posted, used>>

Texts   == 0..MaxEvents
Draft   == [text : Texts, time : 0..MaxTime, lock : {"open", "claimed", "published"}, claim : 0..MaxEvents]
Row     == [rev : Nat, draft : Draft]
\* A request without a draft is a deletion.
Request == [id : 0..MaxIds, expected : Nat, draft : Draft \cup {None}, local : Nat]
Doc     == [id : 0..MaxIds, rev : Nat, draft : Draft \cup {None}]
State   == [server : Nat, acked : Nat, pending : Request \cup {None},
            deleted : BOOLEAN, asked : BOOLEAN, recovery : Draft \cup {None}]
Job     == [pc : {"idle", "read", "got", "journal", "send", "answered", "refused", "resolve", "adopt", "listed"},
            why : {"none", "sync", "refresh", "last", "remove"}, fresh : BOOLEAN,
            pend : Request \cup {None}, doc : Doc \cup {None},
            base : State \cup {None}, seen : 0..MaxIds \cup {None}]
Op      == [stage : {"none", "review", "claim", "send", "record"},
            wait : {"no", "save", "sync", "done", "failed"}, claim : 0..MaxEvents, active : Draft \cup {None}]
Editor  == [home : Browser, cur : Draft \cup {None}, known : Nat, dirty : BOOLEAN, job : Job, op : Op]

ASSUME BoundsAssumption == MaxEvents \in Nat /\ MaxTime \in Nat /\ MaxIds \in Nat
ASSUME NoneAssumption ==
  /\ None \notin Nat
  /\ None \notin Draft /\ None \notin Row /\ None \notin Request /\ None \notin Doc /\ None \notin State

TypeOK ==
  /\ \A i \in DOMAIN cloud : cloud[i] \in [id : 0..MaxIds, draft : Draft \cup {None}]
  /\ \A r \in late : r \in Request
  /\ \A b \in Browser : row[b] \in Row \cup {None} /\ sync[b] \in State
  /\ \A t \in Tab : tab[t] \in Editor
  /\ posted \in Texts \cup {None}
  /\ used \in [events : 0..MaxEvents, ids : 0..MaxIds]
-----------------------------------------------------------------------------
(* The AppView.                                                            *)

Latest  == cloud[Len(cloud)]
Current == IF cloud = <<>> THEN None ELSE [id |-> Latest.id, rev |-> Len(cloud), draft |-> Latest.draft]

Locked(d) == d.lock # "open"

\* What a draft that is published or claimed still lets a put change.
Permits(old, new) ==
  /\ old.lock = "published" => new.lock = "published"
  /\ Locked(old) => /\ old.text = new.text
                    /\ old.claim # 0 /\ Locked(new) => new.claim = old.claim

Repeated(req) == cloud # <<>> /\ Latest.id = req.id
Accepted(req) ==
  /\ Len(cloud) = req.expected
  /\ cloud # <<>> => /\ Latest.draft # None
                     /\ req.draft # None => Permits(Latest.draft, req.draft)

Mutate(req) ==
  cloud' = IF Accepted(req) /\ ~Repeated(req)
             THEN Append(cloud, [id |-> req.id, draft |-> req.draft]) ELSE cloud

\* The revision a request expects may still come, or is there.
Alive(requests, rev) == {req \in requests : req.expected >= rev}
-----------------------------------------------------------------------------
(* What a tab works on: its browser's row and sync state, itself, and the  *)
(* identifiers handed out.                                                 *)

NoSync == [server |-> 0, acked |-> 0, pending |-> None, deleted |-> FALSE, asked |-> FALSE, recovery |-> None]
NoJob  == [pc |-> "idle", why |-> "none", fresh |-> FALSE, pend |-> None, doc |-> None, base |-> None, seen |-> None]
NoOp   == [stage |-> "none", wait |-> "no", claim |-> 0, active |-> None]

View(t) == [row |-> row[tab[t].home], sync |-> sync[tab[t].home], tab |-> tab[t], ids |-> used.ids, events |-> used.events]

Become(t, v) ==
  /\ v.ids <= MaxIds /\ v.events <= MaxEvents
  /\ row'  = [row EXCEPT ![tab[t].home] = v.row]
  /\ sync' = [sync EXCEPT ![tab[t].home] = v.sync]
  /\ tab'  = [tab EXCEPT ![t] = v.tab]
  /\ used' = [used EXCEPT !.ids = v.ids, !.events = v.events]

\* A step of a tab that touches nothing else.
Local(t, v) == Become(t, v) /\ UNCHANGED <<cloud, late, posted>>

Greater(m, n)  == IF m > n THEN m ELSE n
PendingId(v)   == IF v.sync.pending = None THEN None ELSE v.sync.pending.id
HasPut(v)      == v.sync.pending # None /\ v.sync.pending.draft # None
Dirty(v)       == v.row # None /\ v.row.rev # v.sync.acked
Clean(v)       == v.row # None /\ v.row.rev = v.sync.acked
RemoteWins(doc, l) == doc.draft = None \/ l = None \/ Locked(doc.draft) \/ doc.draft.time >= l.draft.time

\* The next stage of the sync; a read is answered at once, and the tab looks at the answer later.
GoTo(v, pc) == [v EXCEPT !.tab.job = [NoJob EXCEPT !.pc = pc, !.why = v.tab.job.why, !.fresh = v.tab.job.fresh]]
Answered(v, pc) == [GoTo(v, pc) EXCEPT !.tab.job.doc = Current]

\* The end of a sync; a publication may be waiting for it.
Ended(v, ok) ==
  [v EXCEPT !.tab.job = NoJob,
            !.tab.op.wait = IF @ # "sync" THEN @ ELSE IF ok THEN "done" ELSE "failed"]

\* install: the editor takes what a sync returned, unless it is ahead of it.
Installed(v, saved) ==
  LET t == v.tab
      taken == t.job.fresh \/ Locked(saved.draft) \/ saved.draft.time > t.cur.time
      rescued == IF saved = None THEN t.dirty ELSE t.dirty /\ ~t.job.fresh /\ Locked(saved.draft)
      kept == IF rescued THEN t.cur ELSE v.sync.recovery
      known == IF saved = None THEN t.known ELSE saved.rev
      newer == [v EXCEPT !.tab.known = known]
  IN IF known < t.known THEN v
     ELSE IF t.cur = None THEN newer
     ELSE IF saved = None THEN [v EXCEPT !.sync.recovery = kept, !.tab.cur = None, !.tab.dirty = FALSE]
     ELSE IF taken THEN [newer EXCEPT !.sync.recovery = kept, !.tab.cur = saved.draft, !.tab.dirty = FALSE]
     ELSE newer

NeedsSync(v) == v.sync.pending # None \/ (v.row # None /\ (v.sync.server = 0 \/ Dirty(v)))

\* 'reconcile' returns: to syncOne, to syncArticleDrafts (which syncs what the list
\* did not) or to removeSyncedArticleDraft.
Returned(v, saved) ==
  CASE v.tab.job.why = "sync"    -> Ended(Installed(v, saved), TRUE)
    [] v.tab.job.why = "refresh" /\ NeedsSync(v) -> [GoTo(v, "read") EXCEPT !.tab.job.why = "last"]
    [] v.tab.job.why = "remove"  -> Ended(v, TRUE)
    [] OTHER -> Ended(Installed(v, v.row), TRUE)
-----------------------------------------------------------------------------
(* Reconciliation: 'reconcile', 'adopt' and 'prepare'.                     *)

\* applyRemoteArticleDraftDeletion: the row goes, edits that never left it are kept.
Erased(v, rev) ==
  LET kept == IF v.row # None /\ (HasPut(v) \/ Dirty(v)) THEN v.row.draft ELSE v.sync.recovery
  IN [v EXCEPT !.row = None,
               !.sync = [NoSync EXCEPT !.server = rev, !.deleted = TRUE, !.asked = v.sync.asked,
                                       !.recovery = IF v.sync.asked THEN None ELSE kept]]

Deletion(v, expected) == [id |-> v.ids + 1, expected |-> expected, draft |-> None, local |-> 0]

\* Mutant of Adopting: a deletion is taken for a draft.
AdoptingAny(v, doc) ==
  IF v.sync.server > doc.rev THEN Returned(v, v.row)
  ELSE IF v.sync.deleted THEN Returned(v, None)
  ELSE [GoTo(v, "adopt") EXCEPT !.tab.job.doc = doc, !.tab.job.seen = PendingId(v)]

\* adopt, up to the download of the images.
Adopting(v, doc) ==
  CASE v.sync.server > doc.rev -> Returned(v, v.row)
    [] v.sync.server <= doc.rev /\ doc.draft = None -> Returned(Erased(v, doc.rev), None)
    [] OTHER -> IF v.sync.deleted THEN Returned(v, None)
                ELSE [GoTo(v, "adopt") EXCEPT !.tab.job.doc = doc, !.tab.job.seen = PendingId(v)]

\* Mutant of Cached: the row it replaces is dropped.
CachedOver(v, doc) ==
  LET rev == IF v.row = None THEN 1 ELSE v.row.rev + 1
  IN [v EXCEPT !.row = [rev |-> rev, draft |-> doc.draft],
               !.sync = [v.sync EXCEPT !.server = doc.rev, !.acked = rev, !.pending = None]]

\* cacheRemoteArticleDraft
Cached(v, doc) ==
  LET rev == IF v.row = None THEN 1 ELSE v.row.rev + 1
  IN [v EXCEPT !.row = [rev |-> rev, draft |-> doc.draft],
               !.sync = [v.sync EXCEPT !.server = doc.rev, !.acked = rev, !.pending = None,
                                       !.recovery = IF Dirty(v) THEN v.row.draft ELSE @]]

\* The row loses to nothing: it is to be put over the cloud's revision 'rev'.
Rebased(v, rev) == GoTo([v EXCEPT !.sync.server = rev, !.sync.pending = None], "read")

Adopted(v, doc) ==
  CASE v.sync.deleted -> Returned(v, None)
    [] ~v.sync.deleted /\ v.sync.server > doc.rev -> Returned(v, v.row)
    [] ~v.sync.deleted /\ v.sync.server <= doc.rev ->
         IF PendingId(v) # v.tab.job.seen THEN GoTo(v, "read")
         ELSE IF Dirty(v) /\ ~RemoteWins(doc, v.row) THEN Rebased(v, doc.rev)
         ELSE Returned(Cached(v, doc), Cached(v, doc).row)

\* The row is put, unless the cloud has it; first its images are hashed.
Composed(v) ==
  CASE v.row = None -> Returned(v, None)
    [] v.row # None /\ v.sync.server # 0 /\ Clean(v) -> Returned(v, v.row)
    [] OTHER -> [GoTo(v, "journal") EXCEPT
                   !.tab.job.base = v.sync,
                   !.tab.job.pend = [id |-> 0, expected |-> v.sync.server, draft |-> v.row.draft, local |-> v.row.rev]]

Sending(v) == [GoTo(v, "send") EXCEPT !.tab.job.pend = v.sync.pending]

\* The journal entry of a put, written over the state that was read before the hashing.
Journalled(v) ==
  LET base == v.tab.job.base
      put  == [v.tab.job.pend EXCEPT !.id = v.ids + 1]
  IN CASE v.sync.pending # None -> Sending(v)
       [] v.sync.pending = None /\ v.sync.deleted -> GoTo(v, "read")
       [] OTHER -> IF v.sync.server # base.server THEN Ended(v, FALSE)
                   ELSE Sending([v EXCEPT !.sync = [base EXCEPT !.pending = put], !.ids = @ + 1])

\* The answer to a read of the cloud, with nothing journalled.
Compared(v, doc) ==
  CASE v.sync.pending # None \/ v.sync.deleted \/ (doc # None /\ doc.rev < v.sync.server) -> GoTo(v, "read")
    [] OTHER ->
         IF doc = None THEN IF v.sync.server = 0 THEN Composed(v) ELSE Ended(v, FALSE)
         ELSE IF doc.draft # None /\ doc.rev = v.sync.server THEN Composed(v)
         ELSE IF RemoteWins(doc, v.row) \/ Clean(v) THEN Adopting(v, doc)
         ELSE Composed([v EXCEPT !.sync.server = doc.rev])

\* Mutant of Acknowledged: what the row holds now is acknowledged.
AcknowledgedRow(v, req, doc) ==
  IF PendingId(v) # req.id THEN v
  ELSE LET owed == v.sync.deleted /\ doc.draft # None
       IN [v EXCEPT !.ids = IF owed THEN @ + 1 ELSE @,
                    !.sync = [v.sync EXCEPT !.server = doc.rev,
                                            !.acked = IF v.row # None THEN v.row.rev ELSE @,
                                            !.pending = IF owed THEN Deletion(v, doc.rev) ELSE None,
                                            !.deleted = @ \/ doc.draft = None]]

\* Mutant of Acknowledged: nothing follows the journalled put.
AcknowledgedPut(v, req, doc) ==
  IF PendingId(v) # req.id THEN v
  ELSE [v EXCEPT !.sync = [v.sync EXCEPT !.server = doc.rev,
                                         !.acked = IF req.draft # None THEN req.local ELSE @,
                                         !.pending = None,
                                         !.deleted = @ \/ doc.draft = None]]

\* The answer to a mutation: acknowledged in the journal if it is still there.  The
\* deletion that was asked for while a put was under way is journalled in its turn.
Acknowledged(v, req, doc) ==
  IF PendingId(v) # req.id THEN v
  ELSE LET owed == v.sync.deleted /\ doc.draft # None
       IN [v EXCEPT !.ids = IF owed THEN @ + 1 ELSE @,
                    !.sync = [v.sync EXCEPT !.server = doc.rev,
                                            !.acked = IF req.draft # None THEN req.local ELSE @,
                                            !.pending = IF owed THEN Deletion(v, doc.rev) ELSE None,
                                            !.deleted = @ \/ doc.draft = None]]

Settled(v, req, doc) ==
  LET w == Acknowledged(v, req, doc)
  IN CASE doc.draft = None -> Returned(Erased(w, doc.rev), None)
       [] doc.draft # None /\ req.draft # None /\ w.row # None /\ w.row.rev = req.local -> Returned(w, w.row)
       [] OTHER -> GoTo(w, "read")

\* A refused mutation, with what the cloud has instead.
Resolved(v, req, doc) ==
  LET own == PendingId(v) = req.id
      deletion == [v EXCEPT !.sync.server = doc.rev, !.sync.pending = Deletion(v, doc.rev), !.ids = @ + 1]
  IN CASE doc.draft # None /\ (req.draft = None \/ v.sync.deleted) -> GoTo(IF own THEN deletion ELSE v, "read")
       [] req.draft = None /\ doc.draft = None -> Adopting(v, doc)
       [] OTHER -> IF RemoteWins(doc, v.row) THEN Adopting(v, doc)
                   ELSE IF own THEN Rebased(v, doc.rev) ELSE GoTo(v, "read")

\* syncArticleDrafts: the draft as the list has it.
Listed(v, doc) ==
  IF doc = None THEN Returned(v, None)
  ELSE IF (v.sync.deleted /\ doc.draft # None) \/ v.sync.pending # None THEN GoTo(v, "read")
  ELSE IF doc.draft # None /\ v.row # None /\ doc.rev = v.sync.server THEN Returned(v, None)
  ELSE IF RemoteWins(doc, v.row) \/ Clean(v) THEN Adopting(v, doc)
  ELSE GoTo(v, "read")
-----------------------------------------------------------------------------
(* The steps of a sync.                                                    *)

Read(t) ==
  LET v == View(t)
  IN /\ tab[t].job.pc = "read"
     /\ Local(t, CASE v.sync.pending # None -> Sending(v)
                   [] v.sync.pending = None /\ v.sync.deleted -> Returned(v, None)
                   [] OTHER -> Answered(v, "got"))

\* A refusal is followed by a read.
GetRefused(t) ==
  tab[t].job.pc = "refused" /\ Local(t, [View(t) EXCEPT !.tab.job.pc = "resolve", !.tab.job.doc = Current])

Compare(t) == tab[t].job.pc = "got" /\ Local(t, Compared(View(t), tab[t].job.doc))
Journal(t) == tab[t].job.pc = "journal" /\ Local(t, Journalled(View(t)))
Adopt(t)   == tab[t].job.pc = "adopt" /\ Local(t, Adopted(View(t), tab[t].job.doc))
Settle(t)  == tab[t].job.pc = "answered" /\ Local(t, Settled(View(t), tab[t].job.pend, tab[t].job.doc))
Resolve(t) == tab[t].job.pc = "resolve" /\ Local(t, Resolved(View(t), tab[t].job.pend, tab[t].job.doc))
List(t)    == tab[t].job.pc = "listed" /\ Local(t, Listed(View(t), tab[t].job.doc))

Send(t) ==
  LET req == tab[t].job.pend
  IN /\ tab[t].job.pc = "send"
     /\ Mutate(req)
     /\ Become(t, [View(t) EXCEPT !.tab.job.pc = IF Repeated(req) \/ Accepted(req) THEN "answered" ELSE "refused",
                                  !.tab.job.doc = IF Repeated(req) \/ Accepted(req)
                                                    THEN [id |-> req.id, rev |-> Len(cloud'), draft |-> req.draft]
                                                    ELSE None])
     /\ late' = Alive(late, Len(cloud'))
     /\ UNCHANGED posted

Happens == used.events < MaxEvents /\ used' = [used EXCEPT !.events = @ + 1]

\* A tab that gives a request up, or is closed, does not take it back.
LeavesBehind(t) ==
  /\ Happens
  /\ late' = IF tab[t].job.pc # "send" THEN late ELSE Alive(late \cup {tab[t].job.pend}, Len(cloud))

Timeout(t) ==
  /\ tab[t].job.pc \in {"got", "resolve", "listed", "send"}
  /\ tab' = [tab EXCEPT ![t] = Ended(View(t), FALSE).tab]
  /\ LeavesBehind(t)
  /\ UNCHANGED <<cloud, row, sync, posted>>

ArrivesLate ==
  \E req \in late :
    /\ Mutate(req) /\ late' = Alive(late \ {req}, Len(cloud'))
    /\ UNCHANGED <<row, sync, tab, posted, used>>
-----------------------------------------------------------------------------
(* The editor.                                                             *)

\* An update of the open draft, later than what it changes; a sync under way did not see it.
Later(v) == {n \in 0..MaxTime : n > v.tab.cur.time}
Updated(v, d, n) == [v EXCEPT !.tab.cur = [d EXCEPT !.time = n], !.tab.dirty = TRUE, !.tab.job.fresh = FALSE]

Edit(t) ==
  LET v == View(t)
      cur == v.tab.cur
  IN /\ cur # None /\ ~Locked(cur) /\ v.tab.op.stage = "none"
     /\ \E n \in Later(v) :
          Local(t, [Updated(v, [cur EXCEPT !.text = v.events + 1], n) EXCEPT !.events = @ + 1])

\* saveArticleDraft: not over a row the tab has not seen, nor over a deletion.
Saved(v) ==
  LET rev == IF v.row = None THEN 0 ELSE v.row.rev
      failed == [v EXCEPT !.tab.op.wait = IF @ = "save" THEN "failed" ELSE @]
  IN IF v.sync.deleted THEN [failed EXCEPT !.sync.recovery = IF v.sync.asked THEN @ ELSE v.tab.cur]
     ELSE IF v.tab.known # rev THEN failed
     ELSE [v EXCEPT !.row = [rev |-> rev + 1, draft |-> v.tab.cur], !.tab.known = rev + 1, !.tab.dirty = FALSE]

\* persist, as far as the local journal.
Save(t) == tab[t].cur # None /\ tab[t].dirty /\ Local(t, Saved(View(t)))

Idle(t) == tab[t].job.pc = "idle"
Start(v, pc, why) ==
  [v EXCEPT !.tab.job = [NoJob EXCEPT !.pc = pc, !.why = why, !.fresh = ~v.tab.dirty]]

\* syncOne, after a save or a selection; a publication waits for its own.
SyncStarts(t) ==
  /\ Idle(t) /\ tab[t].cur # None
  /\ \/ tab[t].op.stage = "none" /\ Local(t, Start(View(t), "read", "sync"))
     \/ /\ tab[t].op.wait = "save" /\ ~tab[t].dirty
        /\ Local(t, [Start(View(t), "read", "sync") EXCEPT !.tab.op.wait = "sync"])

RefreshStarts(t) == Idle(t) /\ ~tab[t].dirty /\ Local(t, Answered(Start(View(t), "listed", "refresh"), "listed"))

\* select, or the first load of a tab.
Opens(t) ==
  LET v == View(t)
  IN /\ v.row # None /\ v.tab.cur # v.row.draft /\ ~v.tab.dirty /\ v.tab.op.stage = "none"
     /\ Local(t, [v EXCEPT !.tab.cur = v.row.draft, !.tab.known = Greater(@, v.row.rev)])

\* remove: the tombstone is durable before anything is sent, and keeps a pending put.
Tombstoned(v) ==
  LET put == v.sync.pending # None
  IN [v EXCEPT !.row = None, !.ids = IF put THEN @ ELSE @ + 1,
               !.sync = [v.sync EXCEPT !.deleted = TRUE, !.asked = TRUE, !.recovery = None,
                                       !.pending = IF put THEN @ ELSE Deletion(v, v.sync.server)]]

RemoveStarts(t) ==
  /\ Idle(t) /\ tab[t].cur # None /\ tab[t].cur.lock # "claimed" /\ ~tab[t].dirty /\ tab[t].op.stage = "none"
  /\ Local(t, Start([Tombstoned(View(t)) EXCEPT !.tab.cur = None, !.events = @ + 1], "read", "remove"))

\* The tab is closed, and may be opened again.
Crash(t) ==
  /\ tab[t].cur # None
  /\ tab' = [tab EXCEPT ![t] = [@ EXCEPT !.cur = None, !.known = 0, !.dirty = FALSE, !.job = NoJob, !.op = NoOp]]
  /\ LeavesBehind(t)
  /\ UNCHANGED <<cloud, row, sync, posted>>
-----------------------------------------------------------------------------
(* Publication.                                                            *)

Waits(v, stage)   == [v EXCEPT !.tab.op.stage = stage, !.tab.op.wait = "save"]
OpEnds(v)         == [v EXCEPT !.tab.op = NoOp]
OpAt(t, stage)    == tab[t].op.stage = stage /\ tab[t].op.wait \in {"no", "done", "failed"}

PublishStarts(t) ==
  LET cur == tab[t].cur
  IN /\ cur # None /\ ~Locked(cur) /\ tab[t].op.stage = "none"
     /\ Local(t, [Waits(View(t), "review") EXCEPT !.tab.op.active = cur, !.tab.op.claim = used.events + 1, !.events = @ + 1])

\* The draft is claimed only as it was reviewed, after a sync.
Reviewed(v) ==
  /\ v.tab.op.wait = "done" /\ v.row # None
  /\ ~Locked(v.row.draft) /\ v.row.draft.time = v.tab.op.active.time /\ v.row.draft.text = v.tab.op.active.text

Claim(t) ==
  LET v == View(t)
  IN /\ OpAt(t, "review")
     /\ \/ ~(Reviewed(v) /\ v.tab.cur # None) /\ Local(t, OpEnds(v))
        \/ /\ Reviewed(v) /\ v.tab.cur # None
           /\ \E n \in Later(v) :
                LET w == Updated(v, [v.tab.cur EXCEPT !.lock = "claimed", !.claim = v.tab.op.claim], n)
                IN Local(t, Waits(w, "claim"))

\* releaseUnsubmittedClaim; what it changes is saved and synced like an edit.
Release(t, v) ==
  LET claim == v.tab.op.claim
      ours  == v.tab.cur # None /\ v.row # None /\ v.row.draft.claim = claim /\ v.row.draft.lock # "published"
  IN \/ ~ours /\ Local(t, OpEnds(v))
     \/ /\ ours
        /\ \E n \in Later(v) : Local(t, OpEnds(Updated(v, [v.tab.cur EXCEPT !.lock = "open", !.claim = 0], n)))

\* Mutant of Claimed: any claim will do.
ClaimedBySomeone(v) ==
  /\ v.tab.op.wait = "done" /\ v.row # None
  /\ v.row.draft.text = v.tab.op.active.text
  /\ v.row.draft.lock = "claimed"

\* After the sync of the claim: is it this tab's, on the content that was reviewed?
Claimed(v) ==
  /\ v.tab.op.wait = "done" /\ v.row # None
  /\ v.row.draft.text = v.tab.op.active.text
  /\ v.row.draft.claim = v.tab.op.claim /\ v.row.draft.lock = "claimed"

CheckClaim(t) ==
  LET v == View(t)
  IN /\ OpAt(t, "claim")
     /\ \/ Claimed(v) /\ Local(t, [v EXCEPT !.tab.op.stage = "send", !.tab.op.wait = "no"])
        \/ ~Claimed(v) /\ Release(t, v)

RecordResult(t) ==
  \E n \in Later(View(t)) :
    Become(t, Waits(Updated(View(t), [tab[t].cur EXCEPT !.lock = "published"], n), "record"))

\* publishArticle: the article is created unless there is one; an answer that is lost
\* and cannot be confirmed leaves the draft claimed.
Publish(t) ==
  /\ OpAt(t, "send")
  /\ \/ /\ posted = None /\ posted' = tab[t].op.active.text
        /\ IF tab[t].cur = None THEN Become(t, OpEnds(View(t))) ELSE RecordResult(t)
        /\ UNCHANGED <<cloud, late>>
     \/ Release(t, View(t))
     \/ /\ posted' \in {posted, IF posted = None THEN tab[t].op.active.text ELSE posted}
        /\ tab' = [tab EXCEPT ![t].op = NoOp]
        /\ Happens
        /\ UNCHANGED <<cloud, late, row, sync>>

\* checkPendingResult: the article of a claimed draft is found.
CheckPublication(t) ==
  LET v == View(t)
  IN /\ tab[t].op.stage = "none" /\ posted # None /\ v.tab.cur # None /\ v.tab.cur.lock = "claimed"
     /\ v.row # None /\ v.row.draft.claim = v.tab.cur.claim /\ v.row.draft.lock = "claimed"
     /\ RecordResult(t)
     /\ UNCHANGED <<cloud, late, posted>>

Recorded(t) == OpAt(t, "record") /\ Local(t, OpEnds(View(t)))
-----------------------------------------------------------------------------
\* The draft was written in one browser and is nowhere else.
First == [text |-> 0, time |-> 0, lock |-> "open", claim |-> 0]

Init ==
  /\ cloud = <<>>
  /\ \E author \in Browser :
       row = [b \in Browser |-> IF b = author THEN [rev |-> 1, draft |-> First] ELSE None]
  /\ sync = [b \in Browser |-> NoSync]
  /\ \E home \in [Tab -> Browser] :
       tab = [t \in Tab |-> [home |-> home[t], dirty |-> FALSE, job |-> NoJob, op |-> NoOp,
                             cur |-> IF row[home[t]] = None THEN None ELSE First,
                             known |-> IF row[home[t]] = None THEN 0 ELSE 1]]
  /\ late = {} /\ posted = None
  /\ used = [events |-> 0, ids |-> 0]

Next ==
  \/ ArrivesLate
  \/ \E t \in Tab :
       \/ Read(t) \/ GetRefused(t) \/ Compare(t) \/ Journal(t) \/ Send(t) \/ Timeout(t)
       \/ Settle(t) \/ Resolve(t) \/ Adopt(t) \/ List(t)
       \/ Edit(t) \/ Save(t) \/ SyncStarts(t) \/ RefreshStarts(t)
       \/ Opens(t) \/ RemoveStarts(t) \/ Crash(t)
       \/ PublishStarts(t) \/ Claim(t) \/ CheckClaim(t) \/ Publish(t) \/ CheckPublication(t) \/ Recorded(t)

Spec == Init /\ [][Next]_vars
-----------------------------------------------------------------------------
(* Properties.                                                             *)

\* A row that counts as acknowledged is what the cloud stored at the revision the browser
\* knows, whichever requests were lost, repeated or refused on the way.
AckedMeansStored ==
  \A b \in Browser :
    (row[b] # None /\ sync[b].server # 0 /\ row[b].rev = sync[b].acked)
      => /\ sync[b].server <= Len(cloud)
         /\ row[b].draft = cloud[sync[b].server].draft

CloudTexts == {cloud[i].draft.text : i \in {j \in DOMAIN cloud : cloud[j].draft # None}}

\* No step but a save takes a text out of a row before the cloud has it, unless it keeps
\* it in the recovery copy, the user deleted the draft there, or the one recovery copy a
\* browser has goes to what the tab had not even saved.
UnsyncedTextRescued ==
  [][\A b \in Browser :
       (row[b] # None /\ (row'[b] = None \/ row'[b].draft.text # row[b].draft.text)) =>
          \/ sync'[b].asked
          \/ row[b].draft.text \in CloudTexts
          \/ sync'[b].recovery # None /\ sync'[b].recovery.text = row[b].draft.text
          \/ \E t \in Tab : /\ tab[t].home = b /\ tab[t].dirty /\ ~tab'[t].dirty
                            /\ \/ row'[b] # None /\ row'[b].draft = tab[t].cur
                               \/ sync'[b].recovery = tab[t].cur]_vars

\* A draft the user deleted stays hidden, and its deletion is either done or journalled.
DeletionPursued ==
  \A b \in Browser :
    sync[b].asked => /\ row[b] = None
                     /\ sync[b].pending # None \/ Latest.draft = None

Free == cloud = <<>> \/ Latest.draft # None

\* The tab is about to create the article under a claim the cloud holds on its text.
SentUnderClaim(t) ==
  (tab[t].op.stage = "send" /\ Free) =>
     cloud # <<>> /\ Latest.draft.claim = tab[t].op.claim /\ Latest.draft.text = tab[t].op.active.text

TabsApart == \A t, u \in Tab : tab[t].home = tab[u].home => t = u

\* While no two tabs share a browser, a tab sends the article only while the cloud holds
\* its claim on that text, and a draft whose article exists stays locked with the text of
\* the article, unless it is deleted.
PublicationProtected ==
  TabsApart =>
    /\ \A t \in Tab : SentUnderClaim(t)
    /\ (posted # None /\ Free) => cloud # <<>> /\ Locked(Latest.draft) /\ Latest.draft.text = posted

\* "requires an acknowledged private claim before making any public article write"
\* (ArticlesWorkspace.test.tsx:375), for tabs that may share a browser.
ClaimAcknowledgedFirst == \A t \in Tab : SentUnderClaim(t)
=============================================================================
