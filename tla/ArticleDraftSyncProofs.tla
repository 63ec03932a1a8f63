----------------------- MODULE ArticleDraftSyncProofs -----------------------
(***************************************************************************)
(* What ArticleDraftSync promises, for any tabs, browsers and bounds: its  *)
(* types, that an acknowledged row is stored, that a deletion is pursued,  *)
(* that no sync drops saved text the cloud does not have, and, while no    *)
(* two tabs share a browser, that an article is sent only under the claim  *)
(* the cloud holds and stays locked with its text.                         *)
(*                                                                         *)
(* All but the last rest on SInv.  Its parts speak of a browser's row and  *)
(* sync state (BrowserOK), of what a sync read and uses later, while other *)
(* tabs of the browser act (JobOK, JournalOK, TabOK), and of the requests  *)
(* that may take effect some time and the mutations that did (RequestsOK,  *)
(* CloudOK).                                                               *)
(*                                                                         *)
(* Publication rests on PInv, an invariant while TabsApart, which no step  *)
(* changes.  A browser's only tab finds its journal as it left it (Alone), *)
(* so whatever is derived from a draft with a claim has the claim (Loyal); *)
(* a claim that was synced is then in the cloud and its draft stays locked *)
(* until the tab that made the claim releases it (ClaimsStored).           *)
(*                                                                         *)
(* Most of the proof does not look at actions.  A step of a tab turns what *)
(* the tab works on from v into w, and every action is first shown to have *)
(* one of a few forms (Syncs, Plain, EditorForm, Quits, Sent); the         *)
(* invariants are proved of the forms.                                     *)
(***************************************************************************)
EXTENDS ArticleDraftSync, TLAPS

-----------------------------------------------------------------------------
(* Types, and what a sync carries at each of its stages.                   *)

Carrying == {"send", "answered", "refused", "resolve"}

\* A sync that carries a request, an answer or a journal entry has one, and revisions
\* it knows of exist.
JobOK(j) ==
  /\ j.pc \in Carrying \cup {"journal"} => j.pend # None
  /\ j.pc \in {"answered", "resolve", "adopt"} => j.doc # None
  /\ j.pc = "adopt" => j.doc.draft # None
  /\ j.pc = "answered" => j.doc.id = j.pend.id /\ j.doc.draft = j.pend.draft
  /\ j.pc = "refused" => cloud # <<>>
  /\ j.pc = "journal" => j.base # None /\ j.pend.draft # None
  /\ j.pend # None => j.pend.expected <= Len(cloud)
  /\ j.doc # None => j.doc.rev \in 1..Len(cloud)
  /\ j.base # None => j.base.server <= Len(cloud) /\ j.base.pending = None

SyncOK(s) ==
  /\ s.server <= Len(cloud)
  /\ s.pending # None => s.pending.expected <= Len(cloud)

Publishing(t) == tab[t].op.stage \in {"review", "claim", "send"}

Entry == [id : 0..MaxIds, draft : Draft \cup {None}]

Types ==
  /\ cloud \in Seq(Entry)
  /\ \A r \in late : r \in Request /\ r.expected <= Len(cloud)
  /\ row \in [Browser -> Row \cup {None}]
  /\ sync \in [Browser -> State] /\ \A b \in Browser : SyncOK(sync[b])
  /\ tab \in [Tab -> Editor] /\ \A t \in Tab : JobOK(tab[t].job)
  /\ \A t \in Tab : Publishing(t) => tab[t].op.active # None
  /\ posted \in Texts \cup {None}
  /\ used \in [events : 0..MaxEvents, ids : 0..MaxIds]

-----------------------------------------------------------------------------
(* What a browser's row and journal say of each other and of the cloud.    *)

BrowserOK(r, s) ==
  /\ s.deleted => r = None
  /\ s.asked => s.deleted
  /\ s.asked /\ s.pending = None => cloud # <<>> /\ Latest.draft = None
  /\ s.server = 0 => s.acked = 0
  /\ r = None /\ ~s.deleted => s.server = 0 /\ s.acked = 0 /\ s.pending = None
  /\ r # None => /\ r.rev >= 1 /\ s.acked <= r.rev
                 /\ s.acked = r.rev => r.draft = cloud[s.server].draft
  /\ s.pending # None =>
       /\ s.pending.expected = s.server
       /\ s.pending.draft = None => s.deleted
       /\ r # None => /\ s.acked < s.pending.local /\ s.pending.local <= r.rev
                      /\ s.pending.local = r.rev => r.draft = s.pending.draft

JournalOK(j, r, s) ==
  /\ ~j.base.deleted /\ ~j.base.asked
  /\ j.base.server = 0 => j.base.acked = 0
  /\ j.pend.expected = j.base.server
  /\ j.base.acked < j.pend.local
  /\ ~s.deleted => r # None
  /\ r # None => j.pend.local <= r.rev /\ (j.pend.local = r.rev => r.draft = j.pend.draft)

TabOK(e, r, s) ==
  /\ r # None => e.known <= r.rev
  /\ r = None /\ ~s.deleted => e.known = 0
  /\ e.job.pc = "journal" => JournalOK(e.job, r, s)
  /\ e.job.doc # None => /\ cloud[e.job.doc.rev].id = e.job.doc.id
                         /\ cloud[e.job.doc.rev].draft = e.job.doc.draft

Requests == late \cup ({sync[b].pending : b \in Browser} \ {None})
                 \cup {tab[t].job.pend : t \in {u \in Tab : tab[u].job.pc \in Carrying}}

RequestsOK ==
  /\ \A r \in Requests : r.id <= used.ids
  /\ \A r, q \in Requests : r.id = q.id => r = q
  /\ \A r \in Requests : \A i \in DOMAIN cloud : cloud[i].id = r.id => cloud[i].draft = r.draft

CloudOK ==
  \A i \in DOMAIN cloud : cloud[i].id <= used.ids /\ (cloud[i].draft = None => i = Len(cloud))

SInv ==
  /\ Types
  /\ \A b \in Browser : BrowserOK(row[b], sync[b])
  /\ \A t \in Tab : TabOK(tab[t], row[tab[t].home], sync[tab[t].home])
  /\ RequestsOK /\ CloudOK

-----------------------------------------------------------------------------
(* Publication, while no two tabs share a browser.                         *)

SameJournal(s, z) ==
  /\ z.server = s.server /\ z.acked = s.acked /\ z.pending = s.pending
  /\ z.deleted = s.deleted /\ z.asked = s.asked

\* Nothing changes the journal of a browser while its only tab syncs.
Alone(e, s) ==
  /\ e.job.pc \in Carrying => s.pending = e.job.pend
  /\ e.job.pc = "journal" => SameJournal(e.job.base, s)
  /\ e.job.doc # None => s.server <= e.job.doc.rev
  /\ e.op.wait = "sync" => e.job.pc # "idle" /\ e.job.why = "sync"
  /\ e.job.pc = "listed" => e.job.why = "refresh"
  /\ e.op.stage = "claim" /\ e.op.wait \in {"sync", "done"} => ~e.dirty

Follows(d, c) == d # None /\ Locked(d) /\ d.claim = c

\* The claims a tab may still publish under, and the claim of the article that exists.
Claiming(t) == tab[t].op.stage \in {"claim", "send"}
Public  == posted # None /\ cloud # <<>> /\ Latest.draft # None
Guarded == {tab[t].op.claim : t \in {u \in Tab : Claiming(u)}} \cup (IF Public THEN {Latest.draft.claim} ELSE {})

InPlay ==
  ({cloud[i].draft : i \in DOMAIN cloud} \cup {r.draft : r \in Requests}
    \cup {row[b].draft : b \in {a \in Browser : row[a] # None}}
    \cup {tab[t].cur : t \in Tab}
    \cup {tab[t].job.pend.draft : t \in {u \in Tab : tab[u].job.pc = "journal"}}) \ {None}

DraftsOK ==
  /\ \A d \in InPlay : d.claim <= used.events /\ (d.lock = "open" => d.claim = 0)
  /\ \A d, f \in InPlay : d.claim = f.claim /\ d.claim # 0 => d.text = f.text

OpsOK ==
  /\ \A t \in Tab : Publishing(t) => tab[t].op.claim \in 1..used.events
  /\ \A t, u \in Tab : (Publishing(t) /\ Publishing(u) /\ tab[t].op.claim = tab[u].op.claim) => t = u
  /\ \A t \in Tab : tab[t].op.stage = "review" => \A d \in InPlay : d.claim # tab[t].op.claim
  /\ Public => \A t \in Tab : Claiming(t) => tab[t].op.claim # Latest.draft.claim

\* What was derived from a draft with the claim 'c' has the claim, too: the row from the
\* request or the revision it is based on, the editor and the put from the row, and what
\* the cloud has or may take from its older revisions.
BrowserLoyal(r, s, c) ==
  r # None =>
    /\ s.pending # None /\ Follows(s.pending.draft, c) => Follows(r.draft, c)
    /\ s.pending = None /\ s.server > 0 /\ Follows(cloud[s.server].draft, c) => Follows(r.draft, c)

TabLoyal(e, r, c) ==
  r # None =>
    /\ e.cur # None /\ e.known = r.rev /\ Follows(r.draft, c) => Follows(e.cur, c)
    /\ e.job.pc = "journal" =>
         /\ Follows(e.job.pend.draft, c) => Follows(r.draft, c)
         /\ e.job.base.server > 0 /\ Follows(cloud[e.job.base.server].draft, c) => Follows(e.job.pend.draft, c)

RequestLoyal(r, c) ==
  r.draft # None /\ r.expected > 0 /\ Follows(cloud[r.expected].draft, c) => Follows(r.draft, c)

Loyal(c) ==
  /\ \A b \in Browser : BrowserLoyal(row[b], sync[b], c)
  /\ \A t \in Tab : TabLoyal(tab[t], row[tab[t].home], c)
  /\ \A r \in Requests : RequestLoyal(r, c)
  /\ \A i, j \in DOMAIN cloud : i <= j /\ Follows(cloud[i].draft, c) => cloud[j].draft = None \/ Follows(cloud[j].draft, c)

InCloud(c) == \E i \in DOMAIN cloud : Follows(cloud[i].draft, c)

\* A claim that was synced is in the cloud, and the one the article is sent under is there
\* with the text of the article.
ClaimStored(o, r) ==
  /\ (o.stage = "claim" /\ o.wait = "done" /\ r # None /\ Follows(r.draft, o.claim)) => InCloud(o.claim)
  /\ o.stage = "send" => \E i \in DOMAIN cloud : Follows(cloud[i].draft, o.claim) /\ cloud[i].draft.text = o.active.text

ClaimsStored == \A t \in Tab : ClaimStored(tab[t].op, row[tab[t].home])

ArticleLocked == (posted # None /\ Free) => cloud # <<>> /\ Locked(Latest.draft) /\ Latest.draft.text = posted

PInv ==
  /\ SInv /\ TabsApart
  /\ \A t \in Tab : Alone(tab[t], sync[tab[t].home])
  /\ DraftsOK /\ OpsOK
  /\ \A c \in Guarded : Loyal(c)
  /\ ClaimsStored /\ ArticleLocked

-----------------------------------------------------------------------------
(* The forms that the steps of a sync have: what they do to the browser    *)
(* and the tab they work on, v becoming w.                                 *)

Views == [row : Row \cup {None}, sync : State, tab : Editor, ids : Nat, events : Nat]

\* The editor and the publication stay as they are.
Still(v, w) ==
  /\ w.tab.home = v.tab.home /\ w.events = v.events /\ w.tab.op = v.tab.op
  /\ w.tab.cur = v.tab.cur /\ w.tab.known = v.tab.known /\ w.tab.dirty = v.tab.dirty
  /\ w.tab.job.why = v.tab.job.why

\* A sync goes on with no more than its stage.
Turns(v, w) == Still(v, w) /\ w.row = v.row /\ w.sync = v.sync /\ w.ids = v.ids

At(j, pc, pend, doc, base) == j.pc = pc /\ j.pend = pend /\ j.doc = doc /\ j.base = base
Quiet(j) == j.pc \in {"idle", "read"} /\ j.pend = None /\ j.doc = None /\ j.base = None

\* What a sync leaves in the editor, over the row it leaves.
Edits(v, w) ==
  \/ w.tab.cur = v.tab.cur /\ w.tab.dirty = v.tab.dirty /\ w.tab.known = v.tab.known
  \/ /\ w.row # None /\ w.tab.known = w.row.rev /\ w.tab.known >= v.tab.known
     /\ w.tab.cur = v.tab.cur /\ w.tab.dirty = v.tab.dirty
     /\ v.tab.cur = None \/ ~Locked(w.row.draft)
  \/ w.tab.cur = None /\ ~w.tab.dirty /\ w.tab.known = v.tab.known
  \/ /\ w.row # None /\ w.tab.known = w.row.rev /\ w.tab.known >= v.tab.known
     /\ w.tab.cur = w.row.draft /\ ~w.tab.dirty

Finished(v, w) == v.tab.op.wait = "sync" /\ w.tab.op.wait = "done"

\* A sync may end, with what it leaves in the editor.
Closes(v, w) ==
  /\ w.tab.home = v.tab.home /\ w.events = v.events
  /\ w.tab.op.stage = v.tab.op.stage /\ w.tab.op.claim = v.tab.op.claim /\ w.tab.op.active = v.tab.op.active
  /\ w.tab.op.wait = v.tab.op.wait \/ (v.tab.op.wait = "sync" /\ w.tab.op.wait \in {"done", "failed"})
  /\ w.tab.op.wait = "sync" => w.tab.job.pc # "idle" /\ (v.tab.job.why = "sync" => w.tab.job.why = "sync")
  /\ Edits(v, w) /\ Quiet(w.tab.job)

\* The recovery copy 'd', unless it went to what the tab had not saved.
Recovers(v, w, d) ==
  w.sync.recovery = d \/ (v.tab.dirty /\ ~w.tab.dirty /\ w.sync.recovery = v.tab.cur)

\* The journal and the row stay as they are.
Rests(v, w) == Closes(v, w) /\ SameJournal(v.sync, w.sync) /\ w.row = v.row /\ w.ids = v.ids

\* A publication that waits is told that the sync is done: the row is stored in the
\* cloud, or the sync met a journal newer than what it worked on.
Synced(v, w) ==
  Finished(v, w) => \/ w.row = None
                    \/ w.sync.server # 0 /\ Clean(w)
                    \/ v.tab.job.doc # None /\ v.sync.server > v.tab.job.doc.rev
                    \/ v.tab.job.pc = "answered" /\ PendingId(v) # v.tab.job.pend.id
                    \/ v.tab.job.pc = "listed"
                    \/ v.sync.deleted

Resting(v, w) == Rests(v, w) /\ Synced(v, w)

Sends(v, w) ==
  Turns(v, w) /\ v.sync.pending # None /\ At(w.tab.job, "send", v.sync.pending, None, None)

Asks(v, w) ==
  /\ Turns(v, w) /\ v.sync.pending = None /\ ~v.sync.deleted /\ At(w.tab.job, "got", None, Current, None)

Adopts(v, w) ==
  LET doc == v.tab.job.doc
  IN /\ Turns(v, w) /\ doc # None /\ doc.draft # None /\ ~v.sync.deleted /\ v.sync.server <= doc.rev
     /\ At(w.tab.job, "adopt", None, doc, None)

\* A put of the row is composed, over the revision the browser knows or has just read.
Composes(v, w) ==
  LET doc == v.tab.job.doc
      put == [id |-> 0, expected |-> w.sync.server, draft |-> v.row.draft, local |-> v.row.rev]
  IN /\ Still(v, w) /\ w.row = v.row /\ w.ids = v.ids
     /\ v.row # None /\ v.sync.pending = None /\ ~v.sync.deleted
     /\ \/ w.sync = v.sync
        \/ doc # None /\ doc.rev >= v.sync.server /\ ~RemoteWins(doc, v.row) /\ w.sync = [v.sync EXCEPT !.server = doc.rev]
     /\ w.sync.server = 0 \/ ~Clean(v)
     /\ At(w.tab.job, "journal", put, None, w.sync)

Puts(v, w) ==
  LET put == [v.tab.job.pend EXCEPT !.id = v.ids + 1]
  IN /\ Still(v, w) /\ w.row = v.row /\ w.ids = v.ids + 1
     /\ v.tab.job.pc = "journal" /\ v.sync.pending = None /\ ~v.sync.deleted
     /\ v.sync.server = v.tab.job.base.server
     /\ w.sync = [v.tab.job.base EXCEPT !.pending = put]
     /\ At(w.tab.job, "send", put, None, None)

Erases(v, w) ==
  LET doc == v.tab.job.doc
  IN /\ Closes(v, w) /\ w.row = None /\ w.ids = v.ids
     /\ doc # None /\ doc.draft = None
     /\ w.sync.server = doc.rev /\ w.sync.acked = 0 /\ w.sync.pending = None
     /\ w.sync.deleted /\ w.sync.asked = v.sync.asked
     /\ (Dirty(v) /\ ~v.sync.asked) => Recovers(v, w, v.row.draft)

Caches(v, w) ==
  LET doc == v.tab.job.doc
  IN /\ Closes(v, w) /\ w.ids = v.ids
     /\ doc # None /\ doc.draft # None /\ ~v.sync.deleted /\ v.sync.server <= doc.rev
     /\ w.row = [rev |-> IF v.row = None THEN 1 ELSE v.row.rev + 1, draft |-> doc.draft]
     /\ w.sync.server = doc.rev /\ w.sync.acked = w.row.rev /\ w.sync.pending = None
     /\ w.sync.deleted = v.sync.deleted /\ w.sync.asked = v.sync.asked
     /\ Dirty(v) => Recovers(v, w, v.row.draft)

Rebases(v, w) ==
  LET doc == v.tab.job.doc
  IN /\ Still(v, w) /\ w.row = v.row /\ w.ids = v.ids /\ Quiet(w.tab.job) /\ w.tab.job.pc = "read"
     /\ doc # None /\ ~RemoteWins(doc, v.row) /\ ~v.sync.deleted
     /\ Dirty(v) \/ v.sync.pending # None
     /\ w.sync = [v.sync EXCEPT !.server = doc.rev, !.pending = None]

\* The journalled put is in the cloud; the deletion that was asked for meanwhile follows.
Acks(v, w) ==
  LET doc == v.tab.job.doc
      put == v.tab.job.pend
  IN /\ Closes(v, w) /\ w.row = v.row
     /\ v.tab.job.pc = "answered" /\ PendingId(v) = put.id /\ put.draft # None
     /\ w.sync.server = doc.rev /\ w.sync.acked = put.local
     /\ w.sync.deleted = v.sync.deleted /\ w.sync.asked = v.sync.asked
     /\ \/ ~v.sync.deleted /\ w.ids = v.ids /\ w.sync.pending = None
        \/ v.sync.deleted /\ w.ids = v.ids + 1 /\ w.sync.pending = Deletion(v, doc.rev)
     /\ Finished(v, w) => w.row # None /\ w.row.rev = put.local

\* A deletion is journalled again, over the revision that stood in its way.
AsksAgain(v, w) ==
  LET doc == v.tab.job.doc
  IN /\ Still(v, w) /\ w.row = v.row /\ w.ids = v.ids + 1 /\ Quiet(w.tab.job) /\ w.tab.job.pc = "read"
     /\ v.tab.job.pc = "resolve" /\ PendingId(v) = v.tab.job.pend.id
     /\ doc.draft # None /\ (v.tab.job.pend.draft = None \/ v.sync.deleted)
     /\ w.sync = [v.sync EXCEPT !.server = doc.rev, !.pending = Deletion(v, doc.rev)]

Syncs(v, w) ==
  \/ Resting(v, w) \/ Sends(v, w) \/ Asks(v, w) \/ Adopts(v, w) \/ Composes(v, w) \/ Puts(v, w)
  \/ Erases(v, w) \/ Caches(v, w) \/ Rebases(v, w) \/ Acks(v, w) \/ AsksAgain(v, w)

-----------------------------------------------------------------------------
(* Every stage of a sync has one of these forms.                           *)

Stages == {"idle", "read", "got", "journal", "send", "answered", "refused", "resolve", "adopt", "listed"}

LEMMA GoToTurns ==
  ASSUME NEW v \in Views, NEW pc \in Stages
  PROVE  /\ GoTo(v, pc) \in Views /\ Turns(v, GoTo(v, pc))
         /\ GoTo(v, pc).tab.job = [NoJob EXCEPT !.pc = pc, !.why = v.tab.job.why, !.fresh = v.tab.job.fresh]
         /\ At(GoTo(v, pc).tab.job, pc, None, None, None)
  BY ZenonT(60) DEF GoTo, Views, Turns, Still, NoJob, Editor, Job, Stages, At

\* A turn back to the read, or out of the sync, leaves the rest at rest.
LEMMA ReadRests ==
  ASSUME NEW v \in Views
  PROVE  GoTo(v, "read") \in Views /\ Resting(v, GoTo(v, "read")) /\ ~Finished(v, GoTo(v, "read"))
  <1>. DEFINE w == GoTo(v, "read")
  <1>1. w \in Views /\ Turns(v, w) /\ At(w.tab.job, "read", None, None, None)
    BY GoToTurns DEF Stages
  <1>. HIDE DEF w
  <1>2. Closes(v, w)
    BY <1>1 DEF Closes, Edits, Quiet, At, Turns, Still
  <1>3. Rests(v, w)
    BY <1>1, <1>2 DEF Rests, Turns, SameJournal
  <1>4. ~Finished(v, w)
    BY <1>1 DEF Finished, Turns, Still
  <1>. QED  BY <1>1, <1>3, <1>4 DEF Resting, Synced, w

\* 'w' is v without its sync, and a publication that waited for it goes on with 'wait'.
Ends(v, w, wait) ==
  /\ w \in Views /\ w.row = v.row /\ w.sync = v.sync /\ w.ids = v.ids /\ w.events = v.events
  /\ w.tab.home = v.tab.home /\ w.tab.cur = v.tab.cur /\ w.tab.known = v.tab.known /\ w.tab.dirty = v.tab.dirty
  /\ w.tab.job = NoJob
  /\ w.tab.op.stage = v.tab.op.stage /\ w.tab.op.claim = v.tab.op.claim /\ w.tab.op.active = v.tab.op.active
  /\ w.tab.op.wait = IF v.tab.op.wait # "sync" THEN v.tab.op.wait ELSE wait

LEMMA EndedEnds ==
  ASSUME NEW v \in Views
  PROVE  Ends(v, Ended(v, TRUE), "done") /\ Ends(v, Ended(v, FALSE), "failed")
  BY ZenonT(60) DEF Ends, Ended, Views, NoJob, Editor, Job, Op

LEMMA EndsCloses ==
  ASSUME NEW v \in Views, NEW w, NEW wait \in {"done", "failed"}, Ends(v, w, wait)
  PROVE  Rests(v, w) /\ (wait = "failed" => ~Finished(v, w))
  <1>1. Closes(v, w)
    BY DEF Ends, Closes, Edits, Quiet, NoJob
  <1>2. wait = "failed" => ~Finished(v, w)
    BY DEF Ends, Finished
  <1>. QED  BY <1>1, <1>2 DEF Ends, Rests, SameJournal

LEMMA FailedRests ==
  ASSUME NEW v \in Views
  PROVE  Ended(v, FALSE) \in Views /\ Resting(v, Ended(v, FALSE)) /\ ~Finished(v, Ended(v, FALSE))
  BY EndedEnds, EndsCloses DEF Ends, Resting, Synced

\* What the editor takes from a sync leaves row, journal and publication alone.
LEMMA InstalledMoves ==
  ASSUME NEW v \in Views, NEW saved \in {None, v.row}
  PROVE  LET w == Installed(v, saved)
         IN /\ w \in Views /\ w.row = v.row /\ w.ids = v.ids /\ w.events = v.events
            /\ w.tab.home = v.tab.home /\ w.tab.job = v.tab.job /\ w.tab.op = v.tab.op
            /\ SameJournal(v.sync, w.sync) /\ Edits(v, w) /\ Recovers(v, w, v.sync.recovery)
  <1>. DEFINE known == IF saved = None THEN v.tab.known ELSE saved.rev
              kept == IF (IF saved = None THEN v.tab.dirty ELSE v.tab.dirty /\ ~v.tab.job.fresh /\ Locked(saved.draft))
                        THEN v.tab.cur ELSE v.sync.recovery
              newer == [v EXCEPT !.tab.known = known]
              gone == [v EXCEPT !.sync.recovery = kept, !.tab.cur = None, !.tab.dirty = FALSE]
              took == [newer EXCEPT !.sync.recovery = kept, !.tab.cur = saved.draft, !.tab.dirty = FALSE]
  <1>1. known \in Nat /\ kept \in Draft \cup {None}
    BY DEF Views, Editor, State, Row
  <1>2. \/ Installed(v, saved) = v
        \/ Installed(v, saved) = newer /\ known >= v.tab.known /\ (v.tab.cur = None \/ (saved # None /\ ~Locked(saved.draft)))
        \/ Installed(v, saved) = gone /\ saved = None
        \/ Installed(v, saved) = took /\ saved # None /\ known >= v.tab.known
    <2>1. CASE known < v.tab.known
      BY <2>1 DEF Installed
    <2>2. CASE ~(known < v.tab.known) /\ v.tab.cur = None
      BY <2>2, <1>1 DEF Installed, Views, Editor
    <2>3. CASE ~(known < v.tab.known) /\ v.tab.cur # None /\ saved = None
      BY <2>3 DEF Installed
    <2>4. CASE ~(known < v.tab.known) /\ v.tab.cur # None /\ saved # None
      <3>1. known >= v.tab.known
        BY <2>4, <1>1 DEF Views, Editor
      <3>. QED  BY <2>4, <3>1 DEF Installed
    <2>. QED  BY <2>1, <2>2, <2>3, <2>4
  <1>3. CASE Installed(v, saved) = v
    BY <1>3 DEF SameJournal, Edits, Recovers
  <1>4. CASE Installed(v, saved) = newer /\ known >= v.tab.known /\ (v.tab.cur = None \/ (saved # None /\ ~Locked(saved.draft)))
    <2>1. newer \in Views /\ newer.row = v.row /\ newer.ids = v.ids /\ newer.events = v.events /\ newer.sync = v.sync
          /\ newer.tab = [v.tab EXCEPT !.known = known] /\ newer.tab.known = known
          /\ newer.tab.home = v.tab.home /\ newer.tab.job = v.tab.job /\ newer.tab.op = v.tab.op
          /\ newer.tab.cur = v.tab.cur /\ newer.tab.dirty = v.tab.dirty
      BY <1>1 DEF Views, Editor
    <2>. QED  BY <1>4, <2>1 DEF SameJournal, Edits, Recovers
  <1>5. CASE Installed(v, saved) = gone /\ saved = None
    <2>1. gone \in Views /\ gone.row = v.row /\ gone.ids = v.ids /\ gone.events = v.events
          /\ gone.sync = [v.sync EXCEPT !.recovery = kept]
          /\ gone.tab = [v.tab EXCEPT !.cur = None, !.dirty = FALSE]
      BY <1>1 DEF Views, Editor, State
    <2>2. SameJournal(v.sync, gone.sync) /\ gone.sync.recovery = kept
      BY <2>1, <1>1 DEF SameJournal, Views, State
    <2>3. /\ gone.tab.home = v.tab.home /\ gone.tab.job = v.tab.job /\ gone.tab.op = v.tab.op
          /\ gone.tab.cur = None /\ ~gone.tab.dirty /\ gone.tab.known = v.tab.known
      BY <2>1 DEF Views, Editor
    <2>. HIDE DEF gone
    <2>4. Edits(v, gone)
      BY <2>3 DEF Edits
    <2>5. Recovers(v, gone, v.sync.recovery)
      BY <1>5, <2>2, <2>3 DEF Recovers, Views, Editor
    <2>. QED  BY <1>5, <2>1, <2>2, <2>3, <2>4, <2>5
  <1>6. CASE Installed(v, saved) = took /\ saved # None /\ known >= v.tab.known
    <2>1. took \in Views /\ took.row = v.row /\ took.ids = v.ids /\ took.events = v.events
          /\ took.sync = [v.sync EXCEPT !.recovery = kept]
          /\ took.tab = [v.tab EXCEPT !.known = known, !.cur = saved.draft, !.dirty = FALSE]
      BY ZenonT(60), <1>1, <1>6 DEF Views, Editor, State, Row
    <2>2. SameJournal(v.sync, took.sync) /\ took.sync.recovery = kept
      BY <2>1, <1>1 DEF SameJournal, Views, State
    <2>3. /\ took.tab.home = v.tab.home /\ took.tab.job = v.tab.job /\ took.tab.op = v.tab.op
          /\ took.tab.cur = saved.draft /\ ~took.tab.dirty /\ took.tab.known = known
      BY <2>1 DEF Views, Editor
    <2>. HIDE DEF took
    <2>4. Edits(v, took)
      BY ZenonT(60), <1>6, <2>1, <2>3 DEF Edits
    <2>5. Recovers(v, took, v.sync.recovery)
      BY <1>6, <2>2, <2>3 DEF Recovers, Views, Editor
    <2>. QED  BY <1>6, <2>1, <2>2, <2>3, <2>4, <2>5
  <1>. QED  BY <1>2, <1>3, <1>4, <1>5, <1>6

\* Whoever called the reconciliation, what follows its return only ends the sync.
LEMMA ReturnedRests ==
  ASSUME NEW v \in Views, NEW saved \in {None, v.row}
  PROVE  LET w == Returned(v, saved)
         IN w \in Views /\ Rests(v, w) /\ Recovers(v, w, v.sync.recovery)
  <1>1. ASSUME NEW x \in Views, x.row = v.row, x.ids = v.ids, x.events = v.events, x.tab.home = v.tab.home,
               x.tab.job = v.tab.job, x.tab.op = v.tab.op, SameJournal(v.sync, x.sync), Edits(v, x),
               Recovers(v, x, v.sync.recovery)
        PROVE  LET w == Ended(x, TRUE) IN w \in Views /\ Rests(v, w) /\ Recovers(v, w, v.sync.recovery)
    <2>. DEFINE w == Ended(x, TRUE)
    <2>1. Ends(x, w, "done")
      BY <1>1, EndedEnds
    <2>. HIDE DEF w
    <2>2. Edits(v, w)
      BY <1>1, <2>1 DEF Ends, Edits
    <2>3. Closes(v, w)
      BY <1>1, <2>1, <2>2 DEF Ends, Closes, Quiet, NoJob
    <2>4. Rests(v, w)
      BY <1>1, <2>1, <2>3 DEF Ends, Rests, SameJournal
    <2>. QED  BY <1>1, <2>1, <2>4 DEF Ends, Recovers, w
  <1>2. Ended(v, TRUE) \in Views /\ Rests(v, Ended(v, TRUE)) /\ Recovers(v, Ended(v, TRUE), v.sync.recovery)
    BY <1>1 DEF Edits, Recovers, SameJournal
  <1>3. \A s \in {None, v.row} : LET w == Ended(Installed(v, s), TRUE)
           IN w \in Views /\ Rests(v, w) /\ Recovers(v, w, v.sync.recovery)
    BY <1>1, InstalledMoves
  <1>. DEFINE w == [GoTo(v, "read") EXCEPT !.tab.job.why = "last"]
  <1>4. v.tab.job.why # "sync" => w \in Views /\ Rests(v, w) /\ Recovers(v, w, v.sync.recovery)
    <2>1. /\ w \in Views /\ w.row = v.row /\ w.sync = v.sync /\ w.ids = v.ids /\ w.events = v.events
          /\ w.tab.job = [NoJob EXCEPT !.pc = "read", !.why = "last", !.fresh = v.tab.job.fresh]
      BY ZenonT(60) DEF GoTo, Views, Editor, Job, NoJob
    <2>2. /\ w.tab.home = v.tab.home /\ w.tab.cur = v.tab.cur /\ w.tab.known = v.tab.known
          /\ w.tab.dirty = v.tab.dirty /\ w.tab.op = v.tab.op
      BY DEF GoTo, Views, Editor
    <2>. HIDE DEF w
    <2>4. w.tab.job.pc = "read" /\ Quiet(w.tab.job)
      BY <2>1 DEF Quiet, NoJob
    <2>3. v.tab.job.why # "sync" => Closes(v, w)
      BY <2>1, <2>2, <2>4 DEF Closes, Edits
    <2>. QED  BY <2>1, <2>2, <2>3 DEF Rests, SameJournal, Recovers, w
  <1>. QED  BY <1>2, <1>3, <1>4 DEF Returned

\* What a sync does after the row or the journal has changed leaves the editor as it would
\* have left it before.
LEMMA ClosesFrom ==
  ASSUME NEW v, NEW x, NEW w, x.tab = v.tab, x.events = v.events, Closes(x, w)
  PROVE  Closes(v, w) /\ (Finished(v, w) <=> Finished(x, w))
  BY DEF Closes, Edits, Finished

\* A deletion in the cloud empties the row; what was not synced becomes the recovery copy.
LEMMA ErasedErases ==
  ASSUME NEW v \in Views, NEW y \in Views, y.row = v.row, y.tab = v.tab, y.ids = v.ids, y.events = v.events,
         y.sync.asked = v.sync.asked, y.sync.acked = v.sync.acked,
         v.tab.job.doc # None, v.tab.job.doc.draft = None
  PROVE  LET w == Returned(Erased(y, v.tab.job.doc.rev), None) IN w \in Views /\ Erases(v, w)
  <1>. DEFINE rev == v.tab.job.doc.rev
              x == Erased(y, rev)
              w == Returned(x, None)
              kept == IF y.row # None /\ (HasPut(y) \/ Dirty(y)) THEN y.row.draft ELSE y.sync.recovery
  <1>1. rev \in Nat /\ kept \in Draft \cup {None}
    BY DEF Views, Editor, Job, Doc, State, Row
  <1>. DEFINE erased == [NoSync EXCEPT !.server = rev, !.deleted = TRUE, !.asked = y.sync.asked,
                                       !.recovery = IF y.sync.asked THEN None ELSE kept]
  <1>8. erased \in State
    <2>. DEFINE recovery == IF y.sync.asked THEN None ELSE kept
    <2>1. y.sync.asked \in BOOLEAN /\ recovery \in Draft \cup {None}
      BY <1>1 DEF Views, State
    <2>2. erased = [NoSync EXCEPT !.server = rev, !.deleted = TRUE, !.asked = y.sync.asked, !.recovery = recovery]
      OBVIOUS
    <2>. HIDE DEF recovery
    <2>3. [NoSync EXCEPT !.server = rev, !.deleted = TRUE, !.asked = y.sync.asked, !.recovery = recovery] \in State
      BY <1>1, <2>1 DEF State, NoSync
    <2>. QED  BY <2>2, <2>3
  <1>9. x = [y EXCEPT !.row = None, !.sync = erased]
    BY DEF Erased
  <1>2. /\ x \in Views /\ x.row = None /\ x.tab = v.tab /\ x.ids = v.ids /\ x.events = v.events
        /\ x.sync = erased
    BY <1>8, <1>9 DEF Views
  <1>3. /\ x.sync.server = rev /\ x.sync.acked = 0 /\ x.sync.pending = None /\ x.sync.deleted
        /\ x.sync.asked = v.sync.asked /\ ((Dirty(v) /\ ~v.sync.asked) => x.sync.recovery = v.row.draft)
    BY <1>2 DEF NoSync, Dirty
  <1>. HIDE DEF x
  <1>4. w \in Views /\ Rests(x, w) /\ Recovers(x, w, x.sync.recovery)
    BY <1>2, ReturnedRests
  <1>. HIDE DEF w
  <1>5. Closes(v, w)
    BY <1>2, <1>4, ClosesFrom DEF Rests
  <1>6. (Dirty(v) /\ ~v.sync.asked) => Recovers(v, w, v.row.draft)
    BY <1>2, <1>3, <1>4 DEF Recovers
  <1>7. /\ w.row = None /\ w.ids = v.ids /\ w.sync.server = rev /\ w.sync.acked = 0 /\ w.sync.pending = None
        /\ w.sync.deleted /\ w.sync.asked = v.sync.asked
    BY <1>2, <1>3, <1>4 DEF Rests, SameJournal
  <1>. QED  BY <1>4, <1>5, <1>6, <1>7 DEF Erases, w, x

\* Where the cloud's draft wins: the browser is ahead of it, it is deleted, or its images come first.
LEMMA AdoptingForms ==
  ASSUME NEW v \in Views, v.tab.job.doc # None
  PROVE  LET w == Adopting(v, v.tab.job.doc) IN w \in Views /\ Syncs(v, w)
  <1>. DEFINE doc == v.tab.job.doc
  <1>1. doc \in Doc /\ doc.rev \in Nat /\ v.sync.server \in Nat
    BY DEF Views, Editor, Job, Doc, State
  <1>2. CASE v.sync.server > doc.rev
    <2>1. Resting(v, Returned(v, v.row)) /\ Returned(v, v.row) \in Views
      BY <1>2, ReturnedRests DEF Resting, Synced
    <2>2. Adopting(v, doc) = Returned(v, v.row)
      BY <1>1, <1>2 DEF Adopting
    <2>. QED  BY <2>1, <2>2 DEF Syncs
  <1>3. CASE v.sync.server <= doc.rev /\ doc.draft = None
    <2>1. Adopting(v, doc) = Returned(Erased(v, doc.rev), None)
      BY <1>1, <1>3 DEF Adopting
    <2>. QED  BY <1>3, <2>1, ErasedErases DEF Syncs
  <1>4. CASE v.sync.server <= doc.rev /\ doc.draft # None /\ v.sync.deleted
    <2>1. Resting(v, Returned(v, None)) /\ Returned(v, None) \in Views
      BY <1>4, ReturnedRests DEF Resting, Synced
    <2>2. Adopting(v, doc) = Returned(v, None)
      BY <1>1, <1>4 DEF Adopting
    <2>. QED  BY <2>1, <2>2 DEF Syncs
  <1>5. CASE v.sync.server <= doc.rev /\ doc.draft # None /\ ~v.sync.deleted
    <2>. DEFINE g == GoTo(v, "adopt")
                w == [g EXCEPT !.tab.job.doc = doc, !.tab.job.seen = PendingId(v)]
    <2>1. PendingId(v) \in 0..MaxIds \cup {None}
      BY DEF PendingId, Views, State, Request
    <2>2. g \in Views /\ Turns(v, g) /\ At(g.tab.job, "adopt", None, None, None)
      BY GoToTurns DEF Stages
    <2>3. Adopting(v, doc) = w
      BY <1>1, <1>5 DEF Adopting
    <2>. HIDE DEF g
    <2>4. /\ w \in Views /\ w.row = g.row /\ w.sync = g.sync /\ w.ids = g.ids /\ w.events = g.events
          /\ w.tab.home = g.tab.home /\ w.tab.cur = g.tab.cur /\ w.tab.known = g.tab.known
          /\ w.tab.dirty = g.tab.dirty /\ w.tab.op = g.tab.op
      BY ZenonT(60), <1>1, <2>1, <2>2 DEF Views, Editor, Job
    <2>5. w.tab.job.why = g.tab.job.why /\ At(w.tab.job, "adopt", None, doc, None)
      BY <2>2 DEF At, Views, Editor, Job
    <2>. HIDE DEF w
    <2>6. Turns(v, w)
      BY <2>2, <2>4, <2>5 DEF Turns, Still
    <2>7. Adopts(v, w)
      BY <1>5, <2>5, <2>6 DEF Adopts
    <2>. QED  BY <2>3, <2>4, <2>7 DEF Syncs
  <1>. QED  BY <1>1, <1>2, <1>3, <1>4, <1>5

\* The row takes a draft of the cloud that is not older than what the browser knows.
LEMMA CachedCaches ==
  ASSUME NEW v \in Views, v.tab.job.doc # None, v.tab.job.doc.draft # None,
         ~v.sync.deleted, v.sync.server <= v.tab.job.doc.rev
  PROVE  LET x == Cached(v, v.tab.job.doc)
             w == Returned(x, x.row)
         IN w \in Views /\ Caches(v, w)
  <1>. DEFINE doc == v.tab.job.doc
              rev == IF v.row = None THEN 1 ELSE v.row.rev + 1
              kept == IF Dirty(v) THEN v.row.draft ELSE v.sync.recovery
              x == Cached(v, doc)
              w == Returned(x, x.row)
  <1>1. doc.rev \in Nat /\ doc.draft \in Draft /\ rev \in Nat /\ kept \in Draft \cup {None}
    BY DEF Views, Editor, Job, Doc, State, Row, Dirty
  <1>. DEFINE fresh == [rev |-> rev, draft |-> doc.draft]
              cached == [v.sync EXCEPT !.server = doc.rev, !.acked = rev, !.pending = None, !.recovery = kept]
  <1>8. fresh \in Row /\ cached \in State
    BY <1>1 DEF Views, State, Row
  <1>9. x = [v EXCEPT !.row = fresh, !.sync = cached]
    BY DEF Cached
  <1>2. /\ x \in Views /\ x.row = fresh /\ x.tab = v.tab /\ x.ids = v.ids /\ x.events = v.events /\ x.sync = cached
    BY <1>8, <1>9 DEF Views
  <1>3. /\ x.sync.server = doc.rev /\ x.sync.acked = x.row.rev /\ x.sync.pending = None
        /\ x.sync.deleted = v.sync.deleted /\ x.sync.asked = v.sync.asked
        /\ (Dirty(v) => x.sync.recovery = v.row.draft)
    BY <1>2 DEF Views, State
  <1>. HIDE DEF x
  <1>4. w \in Views /\ Rests(x, w) /\ Recovers(x, w, x.sync.recovery)
    BY <1>2, ReturnedRests
  <1>. HIDE DEF w
  <1>5. Closes(v, w)
    BY <1>2, <1>4, ClosesFrom DEF Rests
  <1>6. Dirty(v) => Recovers(v, w, v.row.draft)
    BY <1>2, <1>3, <1>4 DEF Recovers
  <1>7. /\ w.row = x.row /\ w.ids = v.ids /\ w.sync.server = doc.rev /\ w.sync.acked = w.row.rev /\ w.sync.pending = None
        /\ w.sync.deleted = v.sync.deleted /\ w.sync.asked = v.sync.asked
    BY <1>2, <1>3, <1>4 DEF Rests, SameJournal
  <1>. QED  BY <1>2, <1>4, <1>5, <1>6, <1>7 DEF Caches, w, x

\* A local draft that wins is based on the revision the cloud has, to be put anew.
LEMMA RebasedRebases ==
  ASSUME NEW v \in Views, v.tab.job.doc # None, ~RemoteWins(v.tab.job.doc, v.row), ~v.sync.deleted,
         Dirty(v) \/ v.sync.pending # None
  PROVE  LET w == Rebased(v, v.tab.job.doc.rev) IN w \in Views /\ Rebases(v, w)
  <1>. DEFINE rev == v.tab.job.doc.rev
              x == [v EXCEPT !.sync.server = rev, !.sync.pending = None]
              w == GoTo(x, "read")
  <1>1. rev \in Nat
    BY DEF Views, Editor, Job, Doc
  <1>2. /\ x \in Views /\ x.row = v.row /\ x.tab = v.tab /\ x.ids = v.ids /\ x.events = v.events
        /\ x.sync = [v.sync EXCEPT !.server = rev, !.pending = None]
    BY <1>1 DEF Views, State
  <1>. HIDE DEF x
  <1>3. w \in Views /\ Turns(x, w) /\ At(w.tab.job, "read", None, None, None)
    BY <1>2, GoToTurns DEF Stages
  <1>. HIDE DEF w
  <1>4. Rebases(v, w)
    BY <1>2, <1>3 DEF Rebases, Turns, Still, At, Quiet
  <1>. QED  BY <1>3, <1>4 DEF Rebased, w, x

LEMMA SendingSends ==
  ASSUME NEW v \in Views, v.sync.pending # None
  PROVE  /\ Sending(v) \in Views /\ Turns(v, Sending(v))
         /\ At(Sending(v).tab.job, "send", v.sync.pending, None, None)
  <1>. DEFINE g == GoTo(v, "send")
              w == [g EXCEPT !.tab.job.pend = v.sync.pending]
  <1>1. g \in Views /\ Turns(v, g) /\ At(g.tab.job, "send", None, None, None)
    BY GoToTurns DEF Stages
  <1>2. Sending(v) = w
    BY DEF Sending
  <1>3. v.sync.pending \in Request
    BY DEF Views, State
  <1>. HIDE DEF g
  <1>4. /\ w \in Views /\ w.row = g.row /\ w.sync = g.sync /\ w.ids = g.ids /\ w.events = g.events
        /\ w.tab.home = g.tab.home /\ w.tab.cur = g.tab.cur /\ w.tab.known = g.tab.known
        /\ w.tab.dirty = g.tab.dirty /\ w.tab.op = g.tab.op
    BY <1>1, <1>3 DEF Views, Editor, Job
  <1>5. w.tab.job.why = g.tab.job.why /\ At(w.tab.job, "send", v.sync.pending, None, None)
    BY <1>1 DEF At, Views, Editor, Job
  <1>. HIDE DEF w
  <1>6. Turns(v, w)
    BY <1>1, <1>4, <1>5 DEF Turns, Still
  <1>. QED  BY <1>2, <1>4, <1>5, <1>6

LEMMA AnsweredTurns ==
  ASSUME NEW v \in Views, NEW pc \in Stages, Current \in Doc \cup {None}
  PROVE  /\ Answered(v, pc) \in Views /\ Turns(v, Answered(v, pc))
         /\ At(Answered(v, pc).tab.job, pc, None, Current, None)
  <1>. DEFINE g == GoTo(v, pc)
              w == [g EXCEPT !.tab.job.doc = Current]
  <1>1. g \in Views /\ Turns(v, g) /\ At(g.tab.job, pc, None, None, None)
    BY GoToTurns
  <1>2. Answered(v, pc) = w
    BY DEF Answered
  <1>. HIDE DEF g
  <1>4. /\ w \in Views /\ w.row = g.row /\ w.sync = g.sync /\ w.ids = g.ids /\ w.events = g.events
        /\ w.tab.home = g.tab.home /\ w.tab.cur = g.tab.cur /\ w.tab.known = g.tab.known
        /\ w.tab.dirty = g.tab.dirty /\ w.tab.op = g.tab.op
    BY <1>1 DEF Views, Editor, Job
  <1>5. w.tab.job.why = g.tab.job.why /\ At(w.tab.job, pc, None, Current, None)
    BY <1>1 DEF At, Views, Editor, Job
  <1>. HIDE DEF w
  <1>6. Turns(v, w)
    BY <1>1, <1>4, <1>5 DEF Turns, Still
  <1>. QED  BY <1>2, <1>4, <1>5, <1>6

LEMMA ReadForms ==
  ASSUME NEW v \in Views, Current \in Doc \cup {None}
  PROVE  LET w == CASE v.sync.pending # None -> Sending(v)
                    [] v.sync.pending = None /\ v.sync.deleted -> Returned(v, None)
                    [] OTHER -> Answered(v, "got")
         IN w \in Views /\ Syncs(v, w)
  <1>1. CASE v.sync.pending # None
    BY <1>1, SendingSends DEF Syncs, Sends
  <1>2. CASE v.sync.pending = None /\ v.sync.deleted
    <2>1. Resting(v, Returned(v, None)) /\ Returned(v, None) \in Views
      BY <1>2, ReturnedRests DEF Resting, Synced
    <2>. QED  BY <1>2, <2>1 DEF Syncs
  <1>3. CASE v.sync.pending = None /\ ~v.sync.deleted
    <2>1. Asks(v, Answered(v, "got")) /\ Answered(v, "got") \in Views
      BY <1>3, AnsweredTurns DEF Asks, Stages
    <2>. QED  BY <1>3, <2>1 DEF Syncs
  <1>. QED  BY <1>1, <1>2, <1>3

\* A put of the row is composed on the state that was read, with the server's revision.
LEMMA ComposedForms ==
  ASSUME NEW v \in Views, NEW x, v.sync.pending = None, ~v.sync.deleted,
         \/ x = v
         \/ /\ x = [v EXCEPT !.sync.server = v.tab.job.doc.rev]
            /\ v.tab.job.doc # None /\ v.tab.job.doc.rev >= v.sync.server
            /\ ~RemoteWins(v.tab.job.doc, v.row) /\ ~Clean(v)
  PROVE  Composed(x) \in Views /\ Syncs(v, Composed(x))
  <1>. DEFINE doc == v.tab.job.doc
  <1>1. /\ x \in Views /\ x.row = v.row /\ x.tab = v.tab /\ x.ids = v.ids /\ x.events = v.events
        /\ x.sync.acked = v.sync.acked /\ x.sync.pending = None
        /\ x.sync = v.sync \/ (doc # None /\ doc.rev >= v.sync.server /\ ~RemoteWins(doc, v.row) /\ ~Clean(v)
                                 /\ x.sync = [v.sync EXCEPT !.server = doc.rev])
    <2>1. doc # None => doc.rev \in Nat
      BY DEF Views, Editor, Job, Doc
    <2>. QED  BY <2>1 DEF Views, State
  <1>2. Clean(x) <=> Clean(v)
    BY <1>1 DEF Clean
  <1>3. CASE x = v /\ (v.row = None \/ (v.sync.server # 0 /\ Clean(v)))
    <2>1. \A s \in {None, v.row} : Returned(v, s) \in Views /\ Rests(v, Returned(v, s))
      BY ReturnedRests
    <2>2. Composed(x) = Returned(v, IF v.row = None THEN None ELSE v.row)
      BY <1>3 DEF Composed
    <2>. DEFINE w == Composed(x)
    <2>3. w \in Views /\ Rests(v, w)
      BY <2>1, <2>2
    <2>. HIDE DEF w
    <2>4. Synced(v, w)
      BY <1>3, <2>3 DEF Synced, Rests, SameJournal, Clean
    <2>. QED  BY <2>3, <2>4 DEF Resting, Syncs, w
  <1>4. CASE ~(x = v /\ (v.row = None \/ (v.sync.server # 0 /\ Clean(v))))
    <2>1. v.row # None /\ (x.sync.server = 0 \/ ~Clean(v))
      BY <1>1, <1>4 DEF RemoteWins
    <2>. DEFINE put == [id |-> 0, expected |-> x.sync.server, draft |-> v.row.draft, local |-> v.row.rev]
                base == x.sync
                g == GoTo(x, "journal")
                w == [g EXCEPT !.tab.job.base = base, !.tab.job.pend = put]
    <2>2. put \in Request /\ base \in State
      BY <1>1, <2>1, BoundsAssumption DEF Views, State, Row, Request
    <2>3. g \in Views /\ Turns(x, g) /\ At(g.tab.job, "journal", None, None, None)
      BY <1>1, GoToTurns DEF Stages
    <2>4. Composed(x) = w
      BY <1>1, <1>2, <2>1 DEF Composed
    <2>. HIDE DEF g, put, base
    <2>5. /\ w \in Views /\ w.row = g.row /\ w.sync = g.sync /\ w.ids = g.ids /\ w.events = g.events
          /\ w.tab.home = g.tab.home /\ w.tab.cur = g.tab.cur /\ w.tab.known = g.tab.known
          /\ w.tab.dirty = g.tab.dirty /\ w.tab.op = g.tab.op
      <3>1. w.tab.job = [g.tab.job EXCEPT !.base = base, !.pend = put]
        BY <2>3 DEF Views, Editor
      <3>2. w.tab.job \in Job
        <4>1. g.tab.job \in Job
          BY <2>3 DEF Views, Editor
        <4>2. \A j \in Job, b \in State : [j EXCEPT !.base = b] \in Job
          BY DEF Job
        <4>3. \A j \in Job, p \in Request : [j EXCEPT !.pend = p] \in Job
          BY DEF Job
        <4>. DEFINE based == [g.tab.job EXCEPT !.base = base]
        <4>4. w.tab.job = [based EXCEPT !.pend = put]
          BY <3>1, <4>1 DEF Job
        <4>5. based \in Job
          BY <2>2, <4>1, <4>2
        <4>. HIDE DEF based
        <4>. QED  BY <2>2, <4>3, <4>4, <4>5
      <3>. QED  BY <2>3, <3>2 DEF Views, Editor
    <2>6. w.tab.job.why = g.tab.job.why /\ At(w.tab.job, "journal", put, None, base)
      BY <2>3 DEF At, Views, Editor, Job
    <2>. HIDE DEF w
    <2>7. Still(v, w) /\ w.row = v.row /\ w.ids = v.ids /\ w.sync = x.sync
      BY <1>1, <2>3, <2>5, <2>6 DEF Turns, Still
    <2>8. Composes(v, w)
      BY <1>1, <2>1, <2>6, <2>7 DEF Composes, put, base
    <2>. QED  BY <2>4, <2>5, <2>8 DEF Syncs
  <1>. QED  BY <1>3, <1>4

LEMMA ComparedForms ==
  ASSUME NEW v \in Views
  PROVE  LET w == Compared(v, v.tab.job.doc) IN w \in Views /\ Syncs(v, w)
  <1>. DEFINE doc == v.tab.job.doc
              x == [v EXCEPT !.sync.server = doc.rev]
  <1>1. v.sync.server \in Nat /\ (doc # None => doc.rev \in Nat)
    BY DEF Views, Editor, Job, Doc, State
  <1>2. GoTo(v, "read") \in Views /\ Syncs(v, GoTo(v, "read"))
    BY ReadRests DEF Syncs
  <1>3. Ended(v, FALSE) \in Views /\ Syncs(v, Ended(v, FALSE))
    BY FailedRests DEF Syncs
  <1>4. doc # None => Adopting(v, doc) \in Views /\ Syncs(v, Adopting(v, doc))
    BY AdoptingForms
  <1>5. (v.sync.pending = None /\ ~v.sync.deleted) => Composed(v) \in Views /\ Syncs(v, Composed(v))
    BY ComposedForms
  <1>6. (v.sync.pending = None /\ ~v.sync.deleted /\ doc # None /\ doc.rev >= v.sync.server
          /\ ~RemoteWins(doc, v.row) /\ ~Clean(v)) => Composed(x) \in Views /\ Syncs(v, Composed(x))
    BY ComposedForms
  <1>7. (doc # None /\ ~(doc.rev < v.sync.server)) => doc.rev >= v.sync.server
    BY <1>1
  <1>. HIDE DEF x
  <1>8. Compared(v, doc) \in {GoTo(v, "read"), Ended(v, FALSE)}
        \/ (v.sync.pending = None /\ ~v.sync.deleted /\ Compared(v, doc) = Composed(v))
        \/ (doc # None /\ Compared(v, doc) = Adopting(v, doc))
        \/ (/\ v.sync.pending = None /\ ~v.sync.deleted /\ doc # None /\ doc.rev >= v.sync.server
            /\ ~RemoteWins(doc, v.row) /\ ~Clean(v) /\ Compared(v, doc) = Composed(x))
    BY <1>7 DEF Compared, x
  <1>. QED  BY <1>2, <1>3, <1>4, <1>5, <1>6, <1>8

LEMMA AdoptedForms ==
  ASSUME NEW v \in Views, v.tab.job.doc # None, v.tab.job.doc.draft # None
  PROVE  LET w == Adopted(v, v.tab.job.doc) IN w \in Views /\ Syncs(v, w)
  <1>. DEFINE doc == v.tab.job.doc
  <1>1. doc.rev \in Nat /\ v.sync.server \in Nat
    BY DEF Views, Editor, Job, Doc, State
  <1>2. CASE v.sync.deleted
    <2>1. Resting(v, Returned(v, None)) /\ Returned(v, None) \in Views
      BY <1>2, ReturnedRests DEF Resting, Synced
    <2>. QED  BY <1>2, <2>1 DEF Adopted, Syncs
  <1>3. CASE ~v.sync.deleted /\ v.sync.server > doc.rev
    <2>1. Resting(v, Returned(v, v.row)) /\ Returned(v, v.row) \in Views
      BY <1>3, ReturnedRests DEF Resting, Synced
    <2>2. Adopted(v, doc) = Returned(v, v.row)
      BY <1>1, <1>3 DEF Adopted
    <2>. QED  BY <2>1, <2>2 DEF Syncs
  <1>4. CASE ~v.sync.deleted /\ v.sync.server <= doc.rev
    <2>1. GoTo(v, "read") \in Views /\ Syncs(v, GoTo(v, "read"))
      BY ReadRests DEF Syncs
    <2>2. (Dirty(v) /\ ~RemoteWins(doc, v.row)) => Rebased(v, doc.rev) \in Views /\ Syncs(v, Rebased(v, doc.rev))
      BY <1>4, RebasedRebases DEF Syncs
    <2>. DEFINE w == Returned(Cached(v, doc), Cached(v, doc).row)
    <2>3. w \in Views /\ Syncs(v, w)
      BY <1>4, CachedCaches DEF Syncs
    <2>. HIDE DEF w
    <2>4. \/ Adopted(v, doc) = GoTo(v, "read")
          \/ Dirty(v) /\ ~RemoteWins(doc, v.row) /\ Adopted(v, doc) = Rebased(v, doc.rev)
          \/ Adopted(v, doc) = w
      BY <1>1, <1>4 DEF Adopted, w
    <2>. QED  BY <2>1, <2>2, <2>3, <2>4
  <1>. QED  BY <1>1, <1>2, <1>3, <1>4

\* None of it hands out an identifier.
LEMMA SameIds ==
  ASSUME NEW x, "ids" \in DOMAIN x
  PROVE  /\ \A pc : GoTo(x, pc).ids = x.ids
         /\ \A saved : Returned(x, saved).ids = x.ids
         /\ Sending(x).ids = x.ids
  <1>1. \A pc : GoTo(x, pc).ids = x.ids /\ "ids" \in DOMAIN GoTo(x, pc)
    BY DEF GoTo
  <1>2. \A y, ok : "ids" \in DOMAIN y => Ended(y, ok).ids = y.ids
    BY DEF Ended
  <1>3. \A saved : Installed(x, saved).ids = x.ids /\ "ids" \in DOMAIN Installed(x, saved)
    BY DEF Installed
  <1>4. Sending(x).ids = x.ids
    BY <1>1 DEF Sending
  <1>5. [GoTo(x, "read") EXCEPT !.tab.job.why = "last"].ids = x.ids
    BY <1>1
  <1>6. \A saved : Returned(x, saved).ids = x.ids
    <2>. TAKE saved
    <2>1. /\ Ended(Installed(x, saved), TRUE).ids = x.ids /\ Ended(x, TRUE).ids = x.ids
          /\ Ended(Installed(x, x.row), TRUE).ids = x.ids
      BY <1>2, <1>3
    <2>. QED  BY <1>5, <2>1 DEF Returned
  <1>. QED  BY <1>1, <1>4, <1>6

\* The put that was composed before the hashing goes into the journal as it was composed.
LEMMA JournalledForms ==
  ASSUME NEW v \in Views, v.tab.job.pc = "journal", v.tab.job.base # None, v.tab.job.pend # None,
         Journalled(v).ids <= MaxIds
  PROVE  Journalled(v) \in Views /\ Syncs(v, Journalled(v))
  <1>1. CASE v.sync.pending # None
    <2>1. Journalled(v) = Sending(v)
      BY <1>1 DEF Journalled
    <2>. QED  BY <1>1, <2>1, SendingSends DEF Syncs, Sends
  <1>2. CASE v.sync.pending = None /\ v.sync.deleted
    <2>1. Journalled(v) = GoTo(v, "read")
      BY <1>2 DEF Journalled
    <2>. QED  BY <2>1, ReadRests DEF Syncs
  <1>3. CASE v.sync.pending = None /\ ~v.sync.deleted /\ v.sync.server # v.tab.job.base.server
    <2>1. Journalled(v) = Ended(v, FALSE)
      BY <1>3 DEF Journalled
    <2>. QED  BY <2>1, FailedRests DEF Syncs
  <1>4. CASE v.sync.pending = None /\ ~v.sync.deleted /\ v.sync.server = v.tab.job.base.server
    <2>. DEFINE base == v.tab.job.base
                put == [v.tab.job.pend EXCEPT !.id = v.ids + 1]
                journal == [base EXCEPT !.pending = put]
                x == [v EXCEPT !.sync = journal, !.ids = @ + 1]
    <2>1. Journalled(v) = Sending(x)
      BY <1>4 DEF Journalled
    <2>2. x.ids = v.ids + 1 /\ x.row = v.row /\ x.tab = v.tab /\ x.events = v.events /\ x.sync = journal
      BY DEF Views
    <2>3. base \in State /\ v.tab.job.pend \in Request /\ v.ids \in Nat
      BY DEF Views, Editor, Job
    <2>4. Sending(x).ids = x.ids
      BY SameIds DEF Views
    <2>5. put \in Request
      BY <2>1, <2>2, <2>3, <2>4, BoundsAssumption DEF Request
    <2>. HIDE DEF put
    <2>6. journal \in State /\ journal.pending = put
      BY <2>3, <2>5 DEF State
    <2>. HIDE DEF journal
    <2>7. x \in Views
      <3>1. v.ids + 1 \in Nat
        BY <2>3
      <3>. QED  BY <2>6, <3>1 DEF Views
    <2>8. put # None
      BY <2>5, NoneAssumption
    <2>. HIDE DEF x
    <2>9. Sending(x) \in Views /\ Turns(x, Sending(x)) /\ At(Sending(x).tab.job, "send", put, None, None)
      BY <2>2, <2>6, <2>7, <2>8, SendingSends
    <2>10. Puts(v, Sending(x))
      BY <1>4, <2>2, <2>9 DEF Puts, Turns, Still, put, journal
    <2>. QED  BY <2>1, <2>9, <2>10 DEF Syncs
  <1>. QED  BY <1>1, <1>2, <1>3, <1>4

\* The answer to a request acknowledges it, if the journal still has it; then the sync goes on or ends.
LEMMA SettledForms ==
  ASSUME NEW v \in Views, v.tab.job.pc = "answered", v.tab.job.pend # None, v.tab.job.doc # None,
         v.tab.job.doc.draft = v.tab.job.pend.draft,
         Settled(v, v.tab.job.pend, v.tab.job.doc).ids <= MaxIds
  PROVE  LET w == Settled(v, v.tab.job.pend, v.tab.job.doc) IN w \in Views /\ Syncs(v, w)
  <1>. DEFINE doc == v.tab.job.doc
              put == v.tab.job.pend
              x == Acknowledged(v, put, doc)
              w == Settled(v, put, doc)
  <1>1. doc \in Doc /\ doc.rev \in Nat /\ put \in Request /\ put.local \in Nat /\ v.ids \in Nat /\ v.sync \in State
    BY DEF Views, Editor, Job, Doc, Request
  <1>2. CASE PendingId(v) # put.id
    <2>1. x = v
      BY <1>2 DEF Acknowledged
    <2>2. \A s \in {None, v.row} : Returned(v, s) \in Views /\ Resting(v, Returned(v, s))
      BY <1>2, ReturnedRests DEF Resting, Synced
    <2>3. CASE doc.draft = None
      <3>1. w = Returned(Erased(v, doc.rev), None)
        BY <2>1, <2>3 DEF Settled
      <3>. QED  BY <2>3, <3>1, ErasedErases DEF Syncs
    <2>4. CASE doc.draft # None
      <3>1. w = Returned(v, v.row) \/ w = GoTo(v, "read")
        BY <2>1, <2>4 DEF Settled
      <3>. QED  BY <2>2, <3>1, ReadRests DEF Syncs
    <2>. QED  BY <2>3, <2>4
  <1>3. CASE PendingId(v) = put.id /\ doc.draft = None
    <2>. DEFINE journal == [v.sync EXCEPT !.server = doc.rev, !.pending = None, !.deleted = TRUE]
    <2>1. x = [v EXCEPT !.ids = v.ids, !.sync = journal]
      BY <1>3 DEF Acknowledged
    <2>2. journal \in State /\ journal.asked = v.sync.asked /\ journal.acked = v.sync.acked
      BY <1>1 DEF State
    <2>. HIDE DEF journal
    <2>3. /\ x \in Views /\ x.row = v.row /\ x.tab = v.tab /\ x.ids = v.ids /\ x.events = v.events /\ x.sync = journal
      BY <2>1, <2>2 DEF Views
    <2>. HIDE DEF x
    <2>4. w = Returned(Erased(x, doc.rev), None)
      BY <1>3 DEF Settled, x
    <2>. QED  BY <1>3, <2>2, <2>3, <2>4, ErasedErases DEF Syncs
  <1>4. CASE PendingId(v) = put.id /\ doc.draft # None
    <2>. DEFINE pending == IF v.sync.deleted THEN Deletion(v, doc.rev) ELSE None
                ids == IF v.sync.deleted THEN v.ids + 1 ELSE v.ids
                journal == [v.sync EXCEPT !.server = doc.rev, !.acked = put.local, !.pending = pending, !.deleted = v.sync.deleted]
    <2>1. x = [v EXCEPT !.sync = journal, !.ids = ids]
      BY <1>1, <1>4 DEF Acknowledged, State
    <2>2. ids \in Nat /\ (w.ids <= MaxIds => pending \in Request \cup {None})
      <3>1. ids \in Nat
        BY <1>1
      <3>2. x.ids = ids
        BY <2>1 DEF Views
      <3>3. "ids" \in DOMAIN x
        BY <2>1 DEF Views
      <3>. HIDE DEF x
      <3>4. w.ids = ids
        BY <1>4, <3>2, <3>3, SameIds DEF Settled, x
      <3>. QED  BY <1>1, <3>1, <3>4, BoundsAssumption DEF Request, Deletion
    <2>3. journal \in State
      BY <1>1, <2>2 DEF State
    <2>4. /\ journal.server = doc.rev /\ journal.acked = put.local /\ journal.pending = pending
          /\ journal.deleted = v.sync.deleted /\ journal.asked = v.sync.asked
      BY <1>1 DEF State
    <2>. HIDE DEF journal, ids
    <2>5. /\ x \in Views /\ x.row = v.row /\ x.tab = v.tab /\ x.ids = ids /\ x.events = v.events /\ x.sync = journal
      <3>. DEFINE y == [v EXCEPT !.sync = journal, !.ids = ids]
      <3>1. /\ y \in Views /\ y.row = v.row /\ y.tab = v.tab /\ y.ids = ids /\ y.events = v.events /\ y.sync = journal
        BY <2>2, <2>3 DEF Views
      <3>2. x = y
        BY <2>1
      <3>. QED  BY <3>1, <3>2
    <2>. HIDE DEF x
    <2>6. /\ w \in Views /\ Rests(x, w)
          /\ w = GoTo(x, "read") \/ (v.row # None /\ v.row.rev = put.local)
          /\ w = GoTo(x, "read") => ~Finished(x, w)
      <3>1. w = GoTo(x, "read") \/ (w = Returned(x, x.row) /\ v.row # None /\ v.row.rev = put.local)
        BY <1>4, <2>5 DEF Settled, x
      <3>. HIDE DEF w
      <3>. QED  BY <2>5, <3>1, ReadRests, ReturnedRests DEF Resting
    <2>. HIDE DEF w
    <2>7. Closes(v, w) /\ (Finished(v, w) => v.row # None /\ v.row.rev = put.local)
      BY <2>5, <2>6, ClosesFrom DEF Rests
    <2>8. Acks(v, w)
      BY <1>4, <2>4, <2>5, <2>6, <2>7 DEF Acks, Rests, SameJournal, ids
    <2>. QED  BY <2>6, <2>8 DEF Syncs, w
  <1>. QED  BY <1>2, <1>3, <1>4

\* A refused request: compared with the revision the cloud has now.
LEMMA ResolvedForms ==
  ASSUME NEW v \in Views, v.tab.job.pc = "resolve", v.tab.job.pend # None, v.tab.job.doc # None,
         Resolved(v, v.tab.job.pend, v.tab.job.doc).ids <= MaxIds
  PROVE  LET w == Resolved(v, v.tab.job.pend, v.tab.job.doc) IN w \in Views /\ Syncs(v, w)
  <1>. DEFINE doc == v.tab.job.doc
              req == v.tab.job.pend
              own == PendingId(v) = req.id
              w == Resolved(v, req, doc)
              again == doc.draft # None /\ (req.draft = None \/ v.sync.deleted)
  <1>1. doc \in Doc /\ doc.rev \in Nat /\ req \in Request /\ req.id \in 0..MaxIds /\ v.ids \in Nat /\ v.sync \in State
    BY DEF Views, Editor, Job, Doc, Request
  <1>2. GoTo(v, "read") \in Views /\ Syncs(v, GoTo(v, "read"))
    BY ReadRests DEF Syncs
  <1>3. Adopting(v, doc) \in Views /\ Syncs(v, Adopting(v, doc))
    BY AdoptingForms
  <1>4. own => v.sync.pending # None
    BY <1>1, NoneAssumption DEF PendingId
  <1>5. CASE again /\ own
    <2>. DEFINE pending == Deletion(v, doc.rev)
                journal == [v.sync EXCEPT !.server = doc.rev, !.pending = pending]
                ids == v.ids + 1
                y == [v EXCEPT !.sync = journal, !.ids = ids]
                x == [v EXCEPT !.sync.server = doc.rev, !.sync.pending = pending, !.ids = @ + 1]
    <2>1. w = GoTo(x, "read")
      BY <1>5 DEF Resolved
    <2>2. ids \in Nat
      BY <1>1
    <2>3. x = y
      BY <1>1 DEF Views, State
    <2>4. y.ids = ids /\ "ids" \in DOMAIN y
      BY DEF Views
    <2>. HIDE DEF y, x
    <2>5. w.ids = ids
      BY <2>1, <2>3, <2>4, SameIds
    <2>6. pending \in Request
      BY <1>1, <2>5, BoundsAssumption DEF Request, Deletion
    <2>. HIDE DEF pending
    <2>7. journal \in State
      BY <1>1, <2>6 DEF State
    <2>. HIDE DEF journal, ids
    <2>8. /\ y \in Views /\ y.row = v.row /\ y.tab = v.tab /\ y.ids = ids /\ y.events = v.events /\ y.sync = journal
      BY <2>2, <2>7 DEF Views, y
    <2>9. GoTo(y, "read") \in Views /\ Turns(y, GoTo(y, "read")) /\ At(GoTo(y, "read").tab.job, "read", None, None, None)
      BY <2>8, GoToTurns DEF Stages
    <2>. DEFINE g == GoTo(y, "read")
    <2>. HIDE DEF g
    <2>10. AsksAgain(v, g)
      BY <1>5, <2>8, <2>9 DEF AsksAgain, Turns, Still, At, Quiet, ids, journal, pending, g
    <2>. QED  BY <2>1, <2>3, <2>9, <2>10 DEF Syncs, g
  <1>6. CASE again /\ ~own
    <2>1. w = GoTo(v, "read")
      BY <1>6 DEF Resolved
    <2>. QED  BY <1>2, <2>1
  <1>7. CASE ~again /\ (RemoteWins(doc, v.row) \/ (req.draft = None /\ doc.draft = None))
    <2>1. w = Adopting(v, doc)
      BY <1>7 DEF Resolved
    <2>. QED  BY <1>3, <2>1
  <1>8. CASE ~again /\ ~RemoteWins(doc, v.row)
    <2>1. doc.draft # None /\ ~v.sync.deleted
      BY <1>8 DEF RemoteWins
    <2>2. w = IF own THEN Rebased(v, doc.rev) ELSE GoTo(v, "read")
      BY <1>8, <2>1 DEF Resolved
    <2>3. own => Rebased(v, doc.rev) \in Views /\ Syncs(v, Rebased(v, doc.rev))
      BY <1>4, <1>8, <2>1, RebasedRebases DEF Syncs
    <2>. QED  BY <1>2, <2>2, <2>3
  <1>. QED  BY <1>5, <1>6, <1>7, <1>8

LEMMA ListedForms ==
  ASSUME NEW v \in Views, v.tab.job.pc = "listed"
  PROVE  LET w == Listed(v, v.tab.job.doc) IN w \in Views /\ Syncs(v, w)
  <1>. DEFINE doc == v.tab.job.doc
  <1>1. GoTo(v, "read") \in Views /\ Syncs(v, GoTo(v, "read"))
    BY ReadRests DEF Syncs
  <1>2. doc # None => Adopting(v, doc) \in Views /\ Syncs(v, Adopting(v, doc))
    BY AdoptingForms
  <1>3. Returned(v, None) \in Views /\ Syncs(v, Returned(v, None))
    BY ReturnedRests DEF Syncs, Resting, Synced
  <1>4. \/ Listed(v, doc) \in {GoTo(v, "read"), Returned(v, None)}
        \/ doc # None /\ Listed(v, doc) = Adopting(v, doc)
    BY DEF Listed
  <1>. QED  BY <1>1, <1>2, <1>3, <1>4

-----------------------------------------------------------------------------
(* A step of a tab, seen as what it works on.                              *)

\* The tab turns its view of the state into w.
Turned(t, w) ==
  /\ w \in Views /\ w.ids <= MaxIds /\ w.events <= MaxEvents
  /\ row'  = [row EXCEPT ![tab[t].home] = w.row]
  /\ sync' = [sync EXCEPT ![tab[t].home] = w.sync]
  /\ tab'  = [tab EXCEPT ![t] = w.tab]
  /\ used' = [used EXCEPT !.ids = w.ids, !.events = w.events]

SyncStage(t) == Read(t) \/ Compare(t) \/ Journal(t) \/ Settle(t) \/ Resolve(t) \/ Adopt(t) \/ List(t)

\* What a tab works on has its type.
LEMMA ViewTyped ==
  ASSUME Types, NEW t \in Tab
  PROVE  /\ View(t) \in Views /\ tab[t] \in Editor /\ tab[t].home \in Browser /\ tab[t].job \in Job /\ tab[t].op \in Op
         /\ View(t).ids <= MaxIds /\ View(t).events <= MaxEvents
  BY DEF Types, View, Views, Editor

\* What the AppView answers to a read.
LEMMA CurrentTyped ==
  ASSUME Types
  PROVE  /\ Current \in Doc \cup {None} /\ Len(cloud) \in Nat
         /\ cloud = <<>> <=> Current = None
         /\ cloud # <<>> => /\ Latest \in Entry /\ Len(cloud) \in DOMAIN cloud /\ Current.rev = Len(cloud)
                            /\ Current.rev \in 1..Len(cloud)
                            /\ cloud[Current.rev].id = Current.id /\ cloud[Current.rev].draft = Current.draft
  <1>1. Len(cloud) \in Nat /\ DOMAIN cloud = 1..Len(cloud) /\ (cloud # <<>> => Len(cloud) # 0)
    BY DEF Types
  <1>2. cloud # <<>> => Len(cloud) \in DOMAIN cloud /\ Latest \in Entry
    BY <1>1 DEF Types, Latest
  <1>3. cloud # <<>> => Current = [id |-> Latest.id, rev |-> Len(cloud), draft |-> Latest.draft] /\ Current \in Doc
    BY <1>1, <1>2 DEF Current, Doc, Entry
  <1>4. cloud = <<>> => Current = None
    BY DEF Current
  <1>5. Current \in Doc => Current # None
    BY NoneAssumption
  <1>. QED  BY <1>1, <1>2, <1>3, <1>4, <1>5 DEF Latest

LEMMA SyncStageForms ==
  ASSUME Types, NEW t \in Tab, SyncStage(t)
  PROVE  /\ UNCHANGED <<cloud, late, posted>>
         /\ \E w : Turned(t, w) /\ Syncs(View(t), w)
         /\ tab[t].job.pc \in {"read", "got", "journal", "answered", "resolve", "adopt", "listed"}
  <1>. DEFINE v == View(t)
  <1>1. v \in Views /\ v.tab = tab[t] /\ JobOK(tab[t].job) /\ tab[t].job \in Job
    BY ViewTyped DEF View, Types
  <1>2. \A w : Local(t, w) => w.ids <= MaxIds /\ (w \in Views => Turned(t, w)) /\ UNCHANGED <<cloud, late, posted>>
    BY DEF Local, Become, Turned
  <1>3. CASE Read(t)
    BY <1>1, <1>2, <1>3, ReadForms, CurrentTyped DEF Read
  <1>4. CASE Compare(t)
    BY <1>1, <1>2, <1>4, ComparedForms DEF Compare
  <1>5. CASE Journal(t)
    <2>1. tab[t].job.pc = "journal" /\ Local(t, Journalled(v))
      BY <1>5 DEF Journal
    <2>. QED  BY <1>1, <1>2, <2>1, JournalledForms DEF JobOK
  <1>6. CASE Settle(t)
    <2>1. tab[t].job.pc = "answered" /\ Local(t, Settled(v, v.tab.job.pend, v.tab.job.doc))
      BY <1>1, <1>6 DEF Settle
    <2>2. v.tab.job.pend # None /\ v.tab.job.doc # None /\ v.tab.job.doc.draft = v.tab.job.pend.draft
      BY <1>1, <2>1 DEF JobOK, Carrying
    <2>. QED  BY <1>1, <1>2, <2>1, <2>2, SettledForms
  <1>7. CASE Resolve(t)
    <2>1. tab[t].job.pc = "resolve" /\ Local(t, Resolved(v, v.tab.job.pend, v.tab.job.doc))
      BY <1>1, <1>7 DEF Resolve
    <2>2. v.tab.job.pend # None /\ v.tab.job.doc # None
      BY <1>1, <2>1 DEF JobOK, Carrying
    <2>. QED  BY <1>1, <1>2, <2>1, <2>2, ResolvedForms
  <1>8. CASE Adopt(t)
    <2>1. tab[t].job.pc = "adopt" /\ Local(t, Adopted(v, v.tab.job.doc))
      BY <1>1, <1>8 DEF Adopt
    <2>2. v.tab.job.doc # None /\ v.tab.job.doc.draft # None
      BY <1>1, <2>1 DEF JobOK
    <2>. QED  BY <1>1, <1>2, <2>1, <2>2, AdoptedForms
  <1>9. CASE List(t)
    <2>1. tab[t].job.pc = "listed" /\ Local(t, Listed(v, v.tab.job.doc))
      BY <1>1, <1>9 DEF List
    <2>. QED  BY <1>1, <1>2, <2>1, ListedForms
  <1>. QED  BY <1>3, <1>4, <1>5, <1>6, <1>7, <1>8, <1>9 DEF SyncStage

-----------------------------------------------------------------------------
(* The forms of the other steps: the editor and publication.               *)

SameJob(j, k) == k.pc = j.pc /\ k.why = j.why /\ k.pend = j.pend /\ k.doc = j.doc /\ k.base = j.base

\* The journal and the sync are not touched.
Works(v, w) ==
  /\ w.row = v.row /\ w.sync = v.sync /\ w.ids = v.ids
  /\ w.tab.home = v.tab.home /\ w.tab.known = v.tab.known /\ SameJob(v.tab.job, w.tab.job)

Keeps(v, w) == Works(v, w) /\ w.tab.cur = v.tab.cur /\ w.tab.dirty = v.tab.dirty

\* The open draft gets another lock and claim.
Relocks(v, w, lock, claim) ==
  /\ Works(v, w) /\ w.events = v.events /\ v.tab.cur # None /\ w.tab.cur # None /\ w.tab.dirty
  /\ w.tab.cur.lock = lock /\ w.tab.cur.claim = claim /\ w.tab.cur.text = v.tab.cur.text

Writes(v, w) ==
  /\ Works(v, w) /\ w.events = v.events + 1 /\ w.tab.op = v.tab.op /\ v.tab.op.stage = "none"
  /\ v.tab.cur # None /\ ~Locked(v.tab.cur) /\ w.tab.cur # None /\ w.tab.dirty
  /\ w.tab.cur.lock = v.tab.cur.lock /\ w.tab.cur.claim = v.tab.cur.claim

Reviews(v, w) ==
  /\ Keeps(v, w) /\ w.events = v.events + 1 /\ v.tab.op.stage = "none" /\ v.tab.cur # None
  /\ w.tab.op = [stage |-> "review", wait |-> "save", claim |-> v.events + 1, active |-> v.tab.cur]

EndsOp(v, w) == Keeps(v, w) /\ w.events \in {v.events, v.events + 1} /\ w.tab.op = NoOp

Claims(v, w) ==
  /\ Relocks(v, w, "claimed", v.tab.op.claim) /\ v.tab.op.stage = "review" /\ Reviewed(v)
  /\ w.tab.op = [v.tab.op EXCEPT !.stage = "claim", !.wait = "save"]

MaySend(v, w) ==
  /\ Keeps(v, w) /\ w.events = v.events /\ v.tab.op.stage = "claim" /\ Claimed(v)
  /\ w.tab.op = [v.tab.op EXCEPT !.stage = "send", !.wait = "no"]

Releases(v, w) ==
  /\ Relocks(v, w, "open", 0) /\ v.tab.op.stage \in {"claim", "send"} /\ w.tab.op = NoOp
  /\ v.row # None /\ v.row.draft.claim = v.tab.op.claim /\ v.row.draft.lock # "published"

Records(v, w) ==
  /\ Relocks(v, w, "published", v.tab.cur.claim)
  /\ w.tab.op = [v.tab.op EXCEPT !.stage = "record", !.wait = "save"]
  /\ \/ v.tab.op.stage = "send"
     \/ v.tab.op.stage = "none" /\ v.tab.cur.lock = "claimed"

EditorForm(v, w) ==
  Writes(v, w) \/ Reviews(v, w) \/ EndsOp(v, w) \/ Claims(v, w) \/ MaySend(v, w) \/ Releases(v, w) \/ Records(v, w)

\* The article comes to be.
Posts(t, w) ==
  /\ posted = None /\ tab[t].op.stage = "send" /\ posted' = tab[t].op.active.text
  /\ Records(View(t), w) \/ EndsOp(View(t), w)

Working(t) ==
  Edit(t) \/ PublishStarts(t) \/ Claim(t) \/ CheckClaim(t) \/ Publish(t) \/ CheckPublication(t) \/ Recorded(t)

\* updateDraft changes the editor only, to a draft with a time of its own.
LEMMA UpdatedWorks ==
  ASSUME NEW v \in Views, NEW d \in Draft, v.tab.cur # None, NEW n \in Later(v)
  PROVE  LET w == Updated(v, d, n)
         IN /\ w \in Views /\ Works(v, w) /\ w.events = v.events /\ w.tab.op = v.tab.op
            /\ w.tab.cur = [d EXCEPT !.time = n] /\ w.tab.cur \in Draft /\ w.tab.dirty
  <1>. DEFINE new == [d EXCEPT !.time = n]
              w == Updated(v, d, n)
  <1>1. n \in 0..MaxTime /\ new \in Draft
    BY DEF Later, Draft
  <1>. HIDE DEF new
  <1>2. /\ w.row = v.row /\ w.sync = v.sync /\ w.ids = v.ids /\ w.events = v.events
        /\ w.tab = [v.tab EXCEPT !.cur = new, !.dirty = TRUE, !.job.fresh = FALSE]
    BY DEF Updated, Views, Editor, new
  <1>3. /\ w.tab.home = v.tab.home /\ w.tab.known = v.tab.known /\ w.tab.op = v.tab.op /\ w.tab.cur = new /\ w.tab.dirty
        /\ w.tab.job = [v.tab.job EXCEPT !.fresh = FALSE]
    BY <1>2 DEF Views, Editor
  <1>4. SameJob(v.tab.job, w.tab.job) /\ w.tab.job \in Job
    BY <1>3 DEF SameJob, Views, Editor, Job
  <1>5. w.tab \in Editor
    BY <1>1, <1>2, <1>3, <1>4 DEF Views, Editor
  <1>6. w \in Views
    BY <1>5 DEF Updated, Views
  <1>. HIDE DEF w
  <1>. QED  BY <1>1, <1>2, <1>3, <1>4, <1>6 DEF Works, new, w

\* What may follow an update: another operation, another count.
WithOp(v, op, n) == [v EXCEPT !.tab.op = op, !.events = n]

LEMMA OpSet ==
  ASSUME NEW v \in Views, NEW op \in Op, NEW n \in Nat, NEW w, w = WithOp(v, op, n)
  PROVE  w \in Views /\ Keeps(v, w) /\ w.events = n /\ w.tab.op = op
  <1>1. /\ w.row = v.row /\ w.sync = v.sync /\ w.ids = v.ids /\ w.events = n
        /\ w.tab = [v.tab EXCEPT !.op = op]
    BY DEF Views, Editor, WithOp
  <1>2. w.tab \in Editor /\ w.tab.home = v.tab.home /\ w.tab.known = v.tab.known /\ w.tab.op = op
        /\ w.tab.cur = v.tab.cur /\ w.tab.dirty = v.tab.dirty /\ w.tab.job = v.tab.job
    BY <1>1 DEF Views, Editor
  <1>3. w \in Views
    BY <1>2 DEF Views, WithOp
  <1>. QED  BY <1>1, <1>2, <1>3 DEF Keeps, Works, SameJob

Waiting(v, stage) == [v.tab.op EXCEPT !.stage = stage, !.wait = "save"]

LEMMA OpSteps ==
  ASSUME NEW v \in Views
  PROVE  /\ OpEnds(v) \in Views /\ Keeps(v, OpEnds(v)) /\ OpEnds(v).events = v.events /\ OpEnds(v).tab.op = NoOp
         /\ \A stage \in {"review", "claim", "record"} :
              /\ Waits(v, stage) \in Views /\ Keeps(v, Waits(v, stage)) /\ Waits(v, stage).events = v.events
              /\ Waits(v, stage).tab.op = Waiting(v, stage)
  <1>1. v.events \in Nat /\ v.tab.op \in Op
    BY DEF Views, Editor
  <1>2. NoOp \in Op
    BY NoneAssumption, BoundsAssumption DEF NoOp, Op
  <1>3. OpEnds(v) = WithOp(v, NoOp, v.events)
    BY DEF OpEnds, WithOp, Views
  <1>4. ASSUME NEW stage \in {"review", "claim", "record"}
        PROVE  Waits(v, stage) = WithOp(v, Waiting(v, stage), v.events) /\ Waiting(v, stage) \in Op
    <2>1. Waiting(v, stage) \in Op
      BY <1>1 DEF Waiting, Op
    <2>2. [v EXCEPT !.tab.op.stage = stage, !.tab.op.wait = "save"] = WithOp(v, Waiting(v, stage), v.events)
      BY DEF WithOp, Waiting, Views, Editor, Op
    <2>. QED  BY <2>1, <2>2 DEF Waits
  <1>5. ASSUME NEW op \in Op, NEW w, w = WithOp(v, op, v.events)
        PROVE  w \in Views /\ Keeps(v, w) /\ w.events = v.events /\ w.tab.op = op
    BY <1>1, <1>5, OpSet
  <1>. QED  BY <1>2, <1>3, <1>4, <1>5

LEMMA LocalTurned ==
  ASSUME NEW t, NEW w \in Views, Become(t, w)
  PROVE  Turned(t, w)
  BY DEF Become, Turned

Relocked(v, lock, claim, n) == Updated(v, [v.tab.cur EXCEPT !.lock = lock, !.claim = claim], n)

LEMMA RelocksSteps ==
  ASSUME NEW v \in Views, v.tab.cur # None, NEW n \in Later(v), NEW lock \in {"open", "claimed", "published"},
         NEW claim \in 0..MaxEvents, NEW u, u = Relocked(v, lock, claim, n)
  PROVE  /\ Relocks(v, OpEnds(u), lock, claim) /\ OpEnds(u) \in Views /\ OpEnds(u).tab.op = NoOp
         /\ \A stage \in {"claim", "record"} :
              /\ Relocks(v, Waits(u, stage), lock, claim) /\ Waits(u, stage) \in Views
              /\ Waits(u, stage).tab.op = Waiting(v, stage)
  <1>. DEFINE d == [v.tab.cur EXCEPT !.lock = lock, !.claim = claim]
  <1>1. d \in Draft /\ d.lock = lock /\ d.claim = claim /\ d.text = v.tab.cur.text
    BY DEF Views, Editor, Draft
  <1>. HIDE DEF d
  <1>2. /\ u \in Views /\ Works(v, u) /\ u.events = v.events /\ u.tab.op = v.tab.op
        /\ u.tab.cur = [d EXCEPT !.time = n] /\ u.tab.cur \in Draft /\ u.tab.dirty
    <2>1. u = Updated(v, d, n)
      BY DEF Relocked, d
    <2>. QED  BY <1>1, <2>1, UpdatedWorks
  <1>3. u.tab.cur.lock = lock /\ u.tab.cur.claim = claim /\ u.tab.cur.text = v.tab.cur.text /\ u.tab.cur # None
    BY <1>1, <1>2, NoneAssumption DEF Draft
  <1>4. \A w : Keeps(u, w) /\ w.events = u.events => Relocks(v, w, lock, claim)
    BY <1>2, <1>3 DEF Relocks, Keeps, Works, SameJob
  <1>5. \A stage : Waiting(u, stage) = Waiting(v, stage)
    BY <1>2 DEF Waiting
  <1>. QED  BY <1>2, <1>4, <1>5, OpSteps

\* A claim that came to nothing is released in the editor, or the tab only stops waiting.
LEMMA ReleaseForms ==
  ASSUME Types, NEW t \in Tab, tab[t].op.stage \in {"claim", "send"}, Release(t, View(t))
  PROVE  UNCHANGED <<cloud, late, posted>> /\ \E w : Turned(t, w) /\ EditorForm(View(t), w)
  <1>. DEFINE v == View(t)
              ours == v.tab.cur # None /\ v.row # None /\ v.row.draft.claim = v.tab.op.claim /\ v.row.draft.lock # "published"
  <1>1. v \in Views /\ v.tab = tab[t]
    BY ViewTyped DEF View
  <1>. HIDE DEF v
  <1>2. CASE Local(t, OpEnds(v))
    <2>1. EndsOp(v, OpEnds(v)) /\ OpEnds(v) \in Views
      BY <1>1, OpSteps DEF EndsOp
    <2>. QED  BY <1>2, <2>1, LocalTurned DEF Local, EditorForm, v
  <1>3. ASSUME ours, NEW n \in Later(v), Local(t, OpEnds(Updated(v, [v.tab.cur EXCEPT !.lock = "open", !.claim = 0], n)))
        PROVE  UNCHANGED <<cloud, late, posted>> /\ \E w : Turned(t, w) /\ EditorForm(v, w)
    <2>. DEFINE u == Relocked(v, "open", 0, n)
                w == OpEnds(u)
    <2>1. 0 \in 0..MaxEvents
      BY BoundsAssumption
    <2>2. Relocks(v, w, "open", 0) /\ w \in Views /\ w.tab.op = NoOp
      BY <1>1, <1>3, <2>1, RelocksSteps
    <2>3. Become(t, w) /\ UNCHANGED <<cloud, late, posted>>
      BY <1>3 DEF Local, Relocked
    <2>. HIDE DEF w
    <2>4. Releases(v, w)
      BY <1>1, <1>3, <2>2 DEF Releases
    <2>. QED  BY <2>2, <2>3, <2>4, LocalTurned DEF EditorForm
  <1>. QED  BY <1>2, <1>3 DEF Release, v

\* The editor records the article by locking its draft under the claim it has.
LEMMA RecordForms ==
  ASSUME Types, NEW t \in Tab, RecordResult(t), tab[t].cur # None,
         tab[t].op.stage = "send" \/ (tab[t].op.stage = "none" /\ tab[t].cur.lock = "claimed")
  PROVE  \E w : Turned(t, w) /\ Records(View(t), w)
  <1>. DEFINE v == View(t)
  <1>1. v \in Views /\ v.tab = tab[t]
    BY ViewTyped DEF View
  <1>2. PICK n \in Later(v) : Become(t, Waits(Updated(v, [tab[t].cur EXCEPT !.lock = "published"], n), "record"))
    BY DEF RecordResult
  <1>. HIDE DEF v
  <1>. DEFINE claim == v.tab.cur.claim
              u == Relocked(v, "published", claim, n)
              w == Waits(u, "record")
  <1>3. /\ [v.tab.cur EXCEPT !.lock = "published"] = [v.tab.cur EXCEPT !.lock = "published", !.claim = claim]
        /\ claim \in 0..MaxEvents
    BY <1>1 DEF Views, Editor, Draft
  <1>4. Relocks(v, w, "published", claim) /\ w \in Views /\ w.tab.op = Waiting(v, "record")
    BY <1>1, <1>3, RelocksSteps
  <1>5. Become(t, w)
    BY <1>1, <1>2, <1>3 DEF Relocked
  <1>. HIDE DEF w
  <1>6. Records(v, w)
    BY <1>1, <1>4 DEF Records, Waiting
  <1>. QED  BY <1>4, <1>5, <1>6, LocalTurned DEF v

\* A step that leaves the rows and the journals alone.
LEMMA AloneTurned ==
  ASSUME Types, NEW t \in Tab, NEW w \in Views, Happens, row' = row, sync' = sync, tab' = [tab EXCEPT ![t] = w.tab],
         w.row = View(t).row, w.sync = View(t).sync, w.ids = View(t).ids, w.events = View(t).events + 1
  PROVE  Turned(t, w)
  <1>1. used \in [events : 0..MaxEvents, ids : 0..MaxIds] /\ tab[t].home \in Browser
    BY ViewTyped DEF Types
  <1>4. w.ids = used.ids /\ w.events = used.events + 1 /\ used' = [used EXCEPT !.events = used.events + 1]
        /\ used.events < MaxEvents
    BY DEF Happens, View
  <1>2. used' = [used EXCEPT !.ids = w.ids, !.events = w.events] /\ w.ids <= MaxIds /\ w.events <= MaxEvents
    <2>1. [used EXCEPT !.events = used.events + 1] = [used EXCEPT !.ids = used.ids, !.events = used.events + 1]
      BY <1>1
    <2>2. used.ids <= MaxIds /\ used.events + 1 <= MaxEvents
      BY <1>1, <1>4, BoundsAssumption
    <2>. QED  BY <1>4, <2>1, <2>2
  <1>3. row' = [row EXCEPT ![tab[t].home] = w.row] /\ sync' = [sync EXCEPT ![tab[t].home] = w.sync]
    BY <1>1 DEF Types, View
  <1>. QED  BY <1>2, <1>3 DEF Turned

Reviewing(u, active, n) == [u EXCEPT !.tab.op.active = active, !.tab.op.claim = n, !.events = n]

LEMMA ReviewSet ==
  ASSUME NEW u \in Views, NEW active \in Draft, NEW n \in 0..MaxEvents, NEW x, x = Reviewing(u, active, n)
  PROVE  /\ x \in Views /\ Keeps(u, x) /\ x.events = n
         /\ x.tab.op \in Op /\ x.tab.op.stage = u.tab.op.stage /\ x.tab.op.wait = u.tab.op.wait
         /\ x.tab.op.active = active /\ x.tab.op.claim = n
  <1>. DEFINE op == [u.tab.op EXCEPT !.active = active, !.claim = n]
  <1>0. u.tab.op \in Op
    BY DEF Views, Editor
  <1>1. n \in Nat /\ op \in Op
    <2>. DEFINE first == [u.tab.op EXCEPT !.active = active]
    <2>1. first \in Op
      BY <1>0 DEF Op
    <2>2. op = [first EXCEPT !.claim = n]
      OBVIOUS
    <2>. HIDE DEF first, op
    <2>. QED  BY <2>1, <2>2, BoundsAssumption DEF Op
  <1>6. op.stage = u.tab.op.stage /\ op.wait = u.tab.op.wait /\ op.active = active /\ op.claim = n
    BY <1>0 DEF Op
  <1>. HIDE DEF op
  <1>2. x.row = u.row /\ x.sync = u.sync /\ x.ids = u.ids /\ x.events = n
    BY DEF Views, Editor, Reviewing
  <1>3. x.tab = [u.tab EXCEPT !.op = op]
    BY DEF Views, Editor, Reviewing, op
  <1>4. x.tab \in Editor /\ x.tab.home = u.tab.home /\ x.tab.known = u.tab.known /\ x.tab.op = op
        /\ x.tab.cur = u.tab.cur /\ x.tab.dirty = u.tab.dirty /\ x.tab.job = u.tab.job
    BY <1>1, <1>3 DEF Views, Editor
  <1>5. x \in Views
    BY <1>1, <1>4 DEF Views, Reviewing
  <1>. QED  BY <1>1, <1>2, <1>4, <1>5, <1>6 DEF Keeps, Works, SameJob

LEMMA WorkingForms ==
  ASSUME Types, NEW t \in Tab, Working(t)
  PROVE  /\ UNCHANGED <<cloud, late>>
         /\ \E w : Turned(t, w) /\ EditorForm(View(t), w) /\ (posted' = posted \/ Posts(t, w))
  <1>. DEFINE v == View(t)
              Goal == /\ UNCHANGED <<cloud, late>>
                      /\ \E w : Turned(t, w) /\ EditorForm(v, w) /\ (posted' = posted \/ Posts(t, w))
  <1>1. v \in Views /\ v.tab = tab[t] /\ v.events \in Nat /\ v.events <= MaxEvents /\ v.tab.op \in Op
    BY ViewTyped DEF View, Views
  <1>. SUFFICES Goal
    OBVIOUS
  <1>. HIDE DEF v
  <1>2. ASSUME NEW w \in Views, Local(t, w), EditorForm(v, w)
        PROVE  Goal
    BY <1>2, LocalTurned DEF Local
  <1>3. EndsOp(v, OpEnds(v)) /\ OpEnds(v) \in Views
    BY <1>1, OpSteps DEF EndsOp
  <1>4. (tab[t].op.stage \in {"claim", "send"} /\ Release(t, v)) => Goal
    BY ReleaseForms DEF v
  <1>. HIDE DEF Goal
  <1>5. CASE Edit(t)
    <2>. DEFINE d == [v.tab.cur EXCEPT !.text = v.events + 1]
    <2>1. PICK n \in Later(v) : Local(t, [Updated(v, d, n) EXCEPT !.events = @ + 1])
      BY <1>5 DEF Edit, v
    <2>2. v.tab.cur # None /\ ~Locked(v.tab.cur) /\ v.tab.op.stage = "none"
      BY <1>1, <1>5 DEF Edit, v
    <2>. DEFINE u == Updated(v, d, n)
                w == [u EXCEPT !.events = @ + 1]
    <2>3. v.events + 1 <= MaxEvents
      <3>1. u.events = v.events /\ "events" \in DOMAIN u
        BY <1>1 DEF Updated, Views
      <3>. HIDE DEF u
      <3>2. w.events = v.events + 1
        BY <3>1
      <3>. QED  BY <2>1, <3>2 DEF Local, Become, u
    <2>4. d \in Draft /\ d.lock = v.tab.cur.lock /\ d.claim = v.tab.cur.claim
      <3>1. v.events + 1 \in Texts
        BY <1>1, <2>3, BoundsAssumption DEF Texts
      <3>. QED  BY <1>1, <2>2, <3>1 DEF Views, Editor, Draft
    <2>. HIDE DEF d
    <2>5. /\ u \in Views /\ Works(v, u) /\ u.events = v.events /\ u.tab.op = v.tab.op
          /\ u.tab.cur = [d EXCEPT !.time = n] /\ u.tab.cur \in Draft /\ u.tab.dirty
      BY <1>1, <2>2, <2>4, UpdatedWorks
    <2>6. u.tab.cur.lock = v.tab.cur.lock /\ u.tab.cur.claim = v.tab.cur.claim /\ u.tab.cur # None
      BY <2>4, <2>5, NoneAssumption DEF Draft
    <2>. HIDE DEF u
    <2>7. /\ w \in Views /\ w.row = u.row /\ w.sync = u.sync /\ w.ids = u.ids /\ w.tab = u.tab /\ w.events = v.events + 1
      BY <2>5 DEF Views
    <2>8. Local(t, w)
      BY <2>1 DEF u
    <2>. HIDE DEF w
    <2>9. Writes(v, w)
      BY <2>2, <2>5, <2>6, <2>7 DEF Writes, Works
    <2>. QED  BY <1>2, <2>7, <2>8, <2>9 DEF EditorForm
  <1>6. CASE PublishStarts(t)
    <2>. DEFINE op == [stage |-> "review", wait |-> "save", claim |-> v.events + 1, active |-> v.tab.cur]
                x == [Waits(v, "review") EXCEPT !.tab.op.active = tab[t].cur, !.tab.op.claim = used.events + 1, !.events = @ + 1]
    <2>1. /\ v.tab.cur # None /\ ~Locked(v.tab.cur) /\ v.tab.op.stage = "none" /\ Local(t, x)
          /\ used.events = v.events /\ tab[t].cur = v.tab.cur
      BY <1>1, <1>6 DEF PublishStarts, v, View
    <2>2. PICK n : n = v.events + 1
      OBVIOUS
    <2>3. Waits(v, "review") \in Views /\ Keeps(v, Waits(v, "review")) /\ Waits(v, "review").events = v.events
          /\ Waits(v, "review").tab.op = Waiting(v, "review")
      BY <1>1, OpSteps
    <2>4. x = Reviewing(Waits(v, "review"), v.tab.cur, n)
      BY <2>1, <2>2, <2>3 DEF Reviewing
    <2>5. n \in 0..MaxEvents /\ v.tab.cur \in Draft
      <3>1. x.events = n
        BY <1>1, <2>2 DEF Waits, Views
      <3>2. n <= MaxEvents
        BY <2>1, <3>1 DEF Local, Become
      <3>. QED  BY <1>1, <2>1, <2>2, <3>2, BoundsAssumption DEF Views, Editor
    <2>. HIDE DEF x
    <2>6. x \in Views /\ Keeps(v, x) /\ x.events = n /\ x.tab.op = op
      <3>1. ASSUME NEW u \in Views, Keeps(v, u), u.tab.op = Waiting(v, "review"), x = Reviewing(u, v.tab.cur, n)
            PROVE  x \in Views /\ Keeps(v, x) /\ x.events = n /\ x.tab.op = op
        <4>1. /\ x \in Views /\ Keeps(u, x) /\ x.events = n
              /\ x.tab.op \in Op /\ x.tab.op.stage = u.tab.op.stage /\ x.tab.op.wait = u.tab.op.wait
              /\ x.tab.op.active = v.tab.cur /\ x.tab.op.claim = n
          BY <2>5, <3>1, ReviewSet
        <4>2. x.tab.op = op
          BY <1>1, <2>2, <3>1, <4>1 DEF Waiting, Op
        <4>. QED  BY <3>1, <4>1, <4>2 DEF Keeps, Works, SameJob
      <3>. QED  BY <2>3, <2>4, <3>1
    <2>. HIDE DEF op
    <2>7. Reviews(v, x)
      BY <2>1, <2>2, <2>6 DEF Reviews, op
    <2>. QED  BY <1>2, <2>1, <2>6, <2>7 DEF EditorForm
  <1>7. CASE Claim(t)
    <2>1. CASE Local(t, OpEnds(v))
      BY <1>2, <1>3, <2>1 DEF EditorForm
    <2>2. CASE /\ Reviewed(v) /\ v.tab.cur # None /\ v.tab.op.stage = "review"
               /\ \E n \in Later(v) :
                    Local(t, Waits(Updated(v, [v.tab.cur EXCEPT !.lock = "claimed", !.claim = v.tab.op.claim], n), "claim"))
      <3>1. PICK n \in Later(v) :
              Local(t, Waits(Updated(v, [v.tab.cur EXCEPT !.lock = "claimed", !.claim = v.tab.op.claim], n), "claim"))
        BY <2>2
      <3>. DEFINE u == Relocked(v, "claimed", v.tab.op.claim, n)
                  w == Waits(u, "claim")
      <3>2. v.tab.op.claim \in 0..MaxEvents
        BY <1>1 DEF Op
      <3>3. Relocks(v, w, "claimed", v.tab.op.claim) /\ w \in Views /\ w.tab.op = Waiting(v, "claim")
        BY <1>1, <2>2, <3>2, RelocksSteps
      <3>4. Local(t, w)
        BY <3>1 DEF Relocked
      <3>. HIDE DEF w
      <3>5. Claims(v, w)
        BY <2>2, <3>3 DEF Claims, Waiting
      <3>. QED  BY <1>2, <3>3, <3>4, <3>5 DEF EditorForm
    <2>. QED  BY <1>1, <1>7, <2>1, <2>2 DEF Claim, OpAt, v
  <1>8. CASE CheckClaim(t)
    <2>1. v.tab.op.stage = "claim"
      BY <1>1, <1>8 DEF CheckClaim, OpAt
    <2>2. CASE Release(t, v)
      BY <1>1, <1>4, <2>1, <2>2
    <2>3. CASE Claimed(v) /\ Local(t, [v EXCEPT !.tab.op.stage = "send", !.tab.op.wait = "no"])
      <3>. DEFINE op == [v.tab.op EXCEPT !.stage = "send", !.wait = "no"]
                  x == [v EXCEPT !.tab.op.stage = "send", !.tab.op.wait = "no"]
      <3>1. op \in Op
        BY <1>1 DEF Op
      <3>2. x = WithOp(v, op, v.events)
        BY <1>1 DEF WithOp, Views, Editor, Op
      <3>3. Local(t, x)
        BY <2>3
      <3>. HIDE DEF x, op
      <3>4. x \in Views /\ Keeps(v, x) /\ x.events = v.events /\ x.tab.op = op
        BY <1>1, <3>1, <3>2, OpSet
      <3>5. MaySend(v, x)
        BY <2>1, <2>3, <3>4 DEF MaySend, op
      <3>. QED  BY <1>2, <3>3, <3>4, <3>5 DEF EditorForm
    <2>. QED  BY <1>8, <2>2, <2>3 DEF CheckClaim, v
  <1>9. CASE Publish(t)
    <2>1. v.tab.op.stage = "send"
      BY <1>1, <1>9 DEF Publish, OpAt
    <2>2. CASE posted = None /\ posted' = tab[t].op.active.text /\ tab[t].cur = None /\ Become(t, OpEnds(v))
               /\ UNCHANGED <<cloud, late>>
      BY <1>1, <1>3, <2>1, <2>2, LocalTurned DEF Posts, EditorForm, v, Goal
    <2>3. CASE posted = None /\ posted' = tab[t].op.active.text /\ tab[t].cur # None /\ RecordResult(t)
               /\ UNCHANGED <<cloud, late>>
      BY <1>1, <2>1, <2>3, RecordForms DEF Posts, EditorForm, v, Goal
    <2>4. CASE Release(t, v)
      BY <1>1, <1>4, <2>1, <2>4
    <2>5. CASE /\ posted' \in {posted, IF posted = None THEN tab[t].op.active.text ELSE posted}
               /\ tab' = [tab EXCEPT ![t].op = NoOp] /\ Happens /\ UNCHANGED <<cloud, late, row, sync>>
      <3>. PICK n : n = v.events + 1
        OBVIOUS
      <3>. DEFINE w == WithOp(v, NoOp, n)
      <3>1. NoOp \in Op /\ n \in Nat
        BY <1>1, NoneAssumption, BoundsAssumption DEF NoOp, Op
      <3>2. w.tab = [v.tab EXCEPT !.op = NoOp] /\ w = WithOp(v, NoOp, n)
        BY <1>1 DEF WithOp, Views, Editor
      <3>3. tab' = [tab EXCEPT ![t] = w.tab]
        BY <1>1, <2>5, <3>2 DEF Types
      <3>. HIDE DEF w
      <3>4. w \in Views /\ Keeps(v, w) /\ w.events = n /\ w.tab.op = NoOp
        BY <1>1, <3>1, <3>2, OpSet
      <3>5. Turned(t, w)
        BY <2>5, <3>3, <3>4, AloneTurned DEF Keeps, Works, v
      <3>6. EndsOp(v, w)
        BY <3>4 DEF EndsOp
      <3>7. posted' = posted \/ Posts(t, w)
        BY <1>1, <2>1, <2>5, <3>6 DEF Posts, v
      <3>. QED  BY <2>5, <3>5, <3>6, <3>7 DEF EditorForm, Goal
    <2>. QED  BY <1>9, <2>2, <2>3, <2>4, <2>5 DEF Publish, v
  <1>10. CASE CheckPublication(t)
    <2>1. tab[t].op.stage = "none" /\ tab[t].cur # None /\ tab[t].cur.lock = "claimed" /\ RecordResult(t)
          /\ UNCHANGED <<cloud, late, posted>>
      BY <1>1, <1>10 DEF CheckPublication, v
    <2>. QED  BY <2>1, RecordForms DEF EditorForm, v, Goal
  <1>11. CASE Recorded(t)
    BY <1>2, <1>3, <1>11 DEF Recorded, EditorForm, v
  <1>. QED  BY <1>5, <1>6, <1>7, <1>8, <1>9, <1>10, <1>11 DEF Working, v

-----------------------------------------------------------------------------
(* The forms of the remaining steps: saves, the beginnings of a sync, the  *)
(* selection and the deletion of a draft, and what cuts a sync short.      *)

\* The journal stays as it is, and so does the publication, or it is told that a save failed.
Fails(v, w) ==
  /\ w.row = v.row /\ SameJournal(v.sync, w.sync) /\ w.ids = v.ids /\ w.events = v.events
  /\ w.tab.home = v.tab.home /\ w.tab.cur = v.tab.cur /\ w.tab.known = v.tab.known /\ w.tab.dirty = v.tab.dirty
  /\ w.tab.job = v.tab.job
  /\ w.tab.op.stage = v.tab.op.stage /\ w.tab.op.claim = v.tab.op.claim /\ w.tab.op.active = v.tab.op.active
  /\ w.tab.op.wait = v.tab.op.wait \/ (v.tab.op.wait = "save" /\ w.tab.op.wait = "failed")

Stores(v, w) ==
  /\ v.tab.cur # None /\ v.tab.dirty /\ ~v.sync.deleted /\ v.tab.known = IF v.row = None THEN 0 ELSE v.row.rev
  /\ w.row = [rev |-> v.tab.known + 1, draft |-> v.tab.cur]
  /\ w.sync = v.sync /\ w.ids = v.ids /\ w.events = v.events
  /\ w.tab.home = v.tab.home /\ w.tab.cur = v.tab.cur /\ w.tab.known = v.tab.known + 1 /\ ~w.tab.dirty
  /\ w.tab.job = v.tab.job /\ w.tab.op = v.tab.op

\* The editor, the row and the journal stay, while a sync begins.
Begins(v, w, pc, why, doc) ==
  /\ w.row = v.row /\ w.sync = v.sync /\ w.ids = v.ids /\ w.events = v.events
  /\ w.tab.home = v.tab.home /\ w.tab.cur = v.tab.cur /\ w.tab.known = v.tab.known /\ w.tab.dirty = v.tab.dirty
  /\ v.tab.job.pc = "idle" /\ At(w.tab.job, pc, None, doc, None) /\ w.tab.job.why = why

BeginsSync(v, w) ==
  /\ Begins(v, w, "read", "sync", None)
  /\ \/ v.tab.op.stage = "none" /\ w.tab.op = v.tab.op
     \/ /\ v.tab.op.wait = "save" /\ ~v.tab.dirty /\ w.tab.op.wait = "sync"
        /\ w.tab.op.stage = v.tab.op.stage /\ w.tab.op.claim = v.tab.op.claim /\ w.tab.op.active = v.tab.op.active

BeginsRefresh(v, w) == ~v.tab.dirty /\ Begins(v, w, "listed", "refresh", Current) /\ w.tab.op = v.tab.op

Selects(v, w) ==
  /\ w.row = v.row /\ w.sync = v.sync /\ w.ids = v.ids /\ w.events = v.events
  /\ v.row # None /\ ~v.tab.dirty /\ v.tab.op.stage = "none"
  /\ w.tab.home = v.tab.home /\ w.tab.cur = v.row.draft /\ w.tab.known = Greater(v.tab.known, v.row.rev)
  /\ w.tab.dirty = v.tab.dirty /\ w.tab.job = v.tab.job /\ w.tab.op = v.tab.op

Removes(v, w) ==
  /\ v.tab.job.pc = "idle" /\ v.tab.cur # None /\ v.tab.cur.lock # "claimed" /\ ~v.tab.dirty /\ v.tab.op.stage = "none"
  /\ w.row = None /\ w.events = v.events + 1
  /\ w.sync.server = v.sync.server /\ w.sync.acked = v.sync.acked /\ w.sync.deleted /\ w.sync.asked
  /\ \/ v.sync.pending # None /\ w.sync.pending = v.sync.pending /\ w.ids = v.ids
     \/ v.sync.pending = None /\ w.sync.pending = Deletion(v, v.sync.server) /\ w.ids = v.ids + 1
  /\ w.tab.home = v.tab.home /\ w.tab.cur = None /\ w.tab.known = v.tab.known /\ ~w.tab.dirty
  /\ At(w.tab.job, "read", None, None, None) /\ w.tab.job.why = "remove" /\ w.tab.op = v.tab.op

\* The row, the journal and the editor stay, while the request under way goes on.
Carries(v, w) ==
  /\ w.row = v.row /\ w.sync = v.sync /\ w.ids = v.ids /\ w.events = v.events
  /\ w.tab.home = v.tab.home /\ w.tab.cur = v.tab.cur /\ w.tab.known = v.tab.known /\ w.tab.dirty = v.tab.dirty
  /\ w.tab.op = v.tab.op /\ w.tab.job.pend = v.tab.job.pend /\ w.tab.job.base = v.tab.job.base
  /\ w.tab.job.why = v.tab.job.why

Retries(v, w) ==
  Carries(v, w) /\ v.tab.job.pc = "refused" /\ w.tab.job.pc = "resolve" /\ w.tab.job.doc = Current

\* A tab gives its sync up, or is closed.
Quits(v, w) ==
  /\ w.row = v.row /\ w.sync = v.sync /\ w.ids = v.ids /\ w.events = v.events + 1
  /\ w.tab.home = v.tab.home /\ w.tab.job = NoJob
  /\ \/ /\ w.tab.cur = v.tab.cur /\ w.tab.known = v.tab.known /\ w.tab.dirty = v.tab.dirty
        /\ w.tab.op.stage = v.tab.op.stage /\ w.tab.op.claim = v.tab.op.claim /\ w.tab.op.active = v.tab.op.active
        /\ w.tab.op.wait = IF v.tab.op.wait # "sync" THEN v.tab.op.wait ELSE "failed"
     \/ w.tab.cur = None /\ w.tab.known = 0 /\ ~w.tab.dirty /\ w.tab.op = NoOp

Plain(v, w) ==
  Fails(v, w) \/ Stores(v, w) \/ BeginsSync(v, w) \/ BeginsRefresh(v, w) \/ Selects(v, w) \/ Removes(v, w) \/ Retries(v, w)

PlainStep(t) ==
  Save(t) \/ SyncStarts(t) \/ RefreshStarts(t) \/ Opens(t) \/ RemoveStarts(t) \/ GetRefused(t)

\* Another editor, with the row and the journal as they are.
InTab(v, e) == [v EXCEPT !.tab = e]

LEMMA TabSet ==
  ASSUME NEW v \in Views, NEW e \in Editor, NEW w, w = InTab(v, e)
  PROVE  w \in Views /\ w.row = v.row /\ w.sync = v.sync /\ w.ids = v.ids /\ w.events = v.events /\ w.tab = e
  BY DEF Views, InTab

\* A save stores what the editor has, unless the row is not the one it knew, or is deleted.
LEMMA SavedForms ==
  ASSUME NEW v \in Views, v.tab.cur # None, v.tab.dirty
  PROVE  Saved(v) \in Views /\ (Fails(v, Saved(v)) \/ Stores(v, Saved(v)))
  <1>. DEFINE rev == IF v.row = None THEN 0 ELSE v.row.rev
              wait == IF v.tab.op.wait = "save" THEN "failed" ELSE v.tab.op.wait
              e == [v.tab EXCEPT !.op.wait = wait]
              failed == InTab(v, e)
              kept == IF v.sync.asked THEN v.sync.recovery ELSE v.tab.cur
              moved == [failed EXCEPT !.sync.recovery = kept]
              next == rev + 1
              stored == [v EXCEPT !.row = [rev |-> next, draft |-> v.tab.cur], !.tab.known = next, !.tab.dirty = FALSE]
  <1>1. v.tab \in Editor /\ v.tab.op \in Op /\ v.sync \in State /\ v.tab.cur \in Draft
    BY DEF Views, Editor
  <1>2. rev \in Nat /\ next \in Nat
    BY DEF Views, Row
  <1>3. e \in Editor /\ e.home = v.tab.home /\ e.cur = v.tab.cur /\ e.known = v.tab.known /\ e.dirty = v.tab.dirty
        /\ e.job = v.tab.job /\ e.op = [v.tab.op EXCEPT !.wait = wait]
    BY <1>1 DEF Editor, Op
  <1>4. e.op.stage = v.tab.op.stage /\ e.op.claim = v.tab.op.claim /\ e.op.active = v.tab.op.active /\ e.op.wait = wait
    BY <1>1, <1>3 DEF Op
  <1>5. Saved(v) = IF v.sync.deleted THEN moved ELSE IF v.tab.known # rev THEN failed ELSE stored
    BY <1>1, <1>2 DEF Saved, InTab, Views, Editor, State, Op
  <1>. HIDE DEF e
  <1>6. failed \in Views /\ failed.row = v.row /\ failed.sync = v.sync /\ failed.ids = v.ids /\ failed.events = v.events
        /\ failed.tab = e
    <2>1. ASSUME NEW w, w = InTab(v, e)
          PROVE  w \in Views /\ w.row = v.row /\ w.sync = v.sync /\ w.ids = v.ids /\ w.events = v.events /\ w.tab = e
      BY <1>3, <2>1, TabSet
    <2>. QED  BY <2>1
  <1>. HIDE DEF failed
  <1>7. /\ moved \in Views /\ moved.row = v.row /\ moved.ids = v.ids /\ moved.events = v.events
        /\ moved.tab = e /\ SameJournal(v.sync, moved.sync)
    BY <1>1, <1>6 DEF Views, State, SameJournal
  <1>8. /\ stored \in Views /\ stored.row = [rev |-> next, draft |-> v.tab.cur] /\ stored.sync = v.sync
        /\ stored.ids = v.ids /\ stored.events = v.events
        /\ stored.tab = [v.tab EXCEPT !.known = next, !.dirty = FALSE]
    BY <1>1, <1>2 DEF Views, Editor, Row
  <1>. HIDE DEF moved, stored
  <1>9. /\ stored.tab.home = v.tab.home /\ stored.tab.cur = v.tab.cur /\ stored.tab.known = next /\ ~stored.tab.dirty
        /\ stored.tab.job = v.tab.job /\ stored.tab.op = v.tab.op
    BY <1>1, <1>8 DEF Editor
  <1>10. Fails(v, failed) /\ Fails(v, moved)
    BY <1>3, <1>4, <1>6, <1>7 DEF Fails, SameJournal
  <1>11. v.tab.known = rev /\ ~v.sync.deleted => Stores(v, stored)
    BY <1>8, <1>9 DEF Stores
  <1>. QED  BY <1>5, <1>6, <1>7, <1>8, <1>10, <1>11

LEMMA JobStarts ==
  ASSUME NEW v \in Views, NEW pc \in {"read", "listed"}, NEW why \in {"sync", "refresh", "remove"},
         NEW w, w = Start(v, pc, why)
  PROVE  /\ w \in Views /\ w.row = v.row /\ w.sync = v.sync /\ w.ids = v.ids /\ w.events = v.events
         /\ w.tab.home = v.tab.home /\ w.tab.cur = v.tab.cur /\ w.tab.known = v.tab.known /\ w.tab.dirty = v.tab.dirty
         /\ w.tab.op = v.tab.op /\ w.tab.job \in Job
         /\ At(w.tab.job, pc, None, None, None) /\ w.tab.job.why = why
  <1>. DEFINE fresh == ~v.tab.dirty
              j == [NoJob EXCEPT !.pc = pc, !.why = why, !.fresh = fresh]
              e == [v.tab EXCEPT !.job = j]
  <1>1. v.tab \in Editor /\ fresh \in BOOLEAN
    BY DEF Views, Editor
  <1>. HIDE DEF fresh
  <1>2. j \in Job /\ At(j, pc, None, None, None) /\ j.why = why
    BY <1>1 DEF Job, NoJob, At
  <1>. HIDE DEF j
  <1>3. e \in Editor /\ e.home = v.tab.home /\ e.cur = v.tab.cur /\ e.known = v.tab.known /\ e.dirty = v.tab.dirty
        /\ e.op = v.tab.op /\ e.job = j
    BY <1>1, <1>2 DEF Editor
  <1>4. w = InTab(v, e)
    BY DEF Start, InTab, j, fresh, Views
  <1>. HIDE DEF e
  <1>5. w \in Views /\ w.row = v.row /\ w.sync = v.sync /\ w.ids = v.ids /\ w.events = v.events /\ w.tab = e
    BY <1>3, <1>4, TabSet
  <1>. QED  BY <1>2, <1>3, <1>5

LEMMA PlainForms ==
  ASSUME Types, NEW t \in Tab, PlainStep(t)
  PROVE  UNCHANGED <<cloud, late, posted>> /\ \E w : Turned(t, w) /\ Plain(View(t), w)
  <1>. DEFINE v == View(t)
              Goal == UNCHANGED <<cloud, late, posted>> /\ \E w : Turned(t, w) /\ Plain(v, w)
  <1>1. v \in Views /\ v.tab = tab[t] /\ v.tab \in Editor /\ v.tab.op \in Op /\ v.tab.job \in Job /\ v.sync \in State
    BY ViewTyped DEF View, Views
  <1>2. Current \in Doc \cup {None}
    BY CurrentTyped
  <1>. SUFFICES Goal
    OBVIOUS
  <1>. HIDE DEF v
  <1>3. ASSUME NEW w \in Views, Local(t, w), Plain(v, w)
        PROVE  Goal
    BY <1>3, LocalTurned DEF Local
  <1>. HIDE DEF Goal
  <1>4. CASE Save(t)
    BY <1>1, <1>3, <1>4, SavedForms DEF Save, v, Plain
  <1>5. CASE SyncStarts(t)
    <2>1. v.tab.job.pc = "idle" /\ v.tab.cur # None
      BY <1>1, <1>5 DEF SyncStarts, Idle
    <2>. DEFINE x == Start(v, "read", "sync")
    <2>2. /\ x \in Views /\ x.row = v.row /\ x.sync = v.sync /\ x.ids = v.ids /\ x.events = v.events
          /\ x.tab.home = v.tab.home /\ x.tab.cur = v.tab.cur /\ x.tab.known = v.tab.known /\ x.tab.dirty = v.tab.dirty
          /\ x.tab.op = v.tab.op /\ x.tab.job \in Job
          /\ At(x.tab.job, "read", None, None, None) /\ x.tab.job.why = "sync"
      <3>1. ASSUME NEW w, w = Start(v, "read", "sync")
            PROVE  /\ w \in Views /\ w.row = v.row /\ w.sync = v.sync /\ w.ids = v.ids /\ w.events = v.events
                   /\ w.tab.home = v.tab.home /\ w.tab.cur = v.tab.cur /\ w.tab.known = v.tab.known /\ w.tab.dirty = v.tab.dirty
                   /\ w.tab.op = v.tab.op /\ w.tab.job \in Job
                   /\ At(w.tab.job, "read", None, None, None) /\ w.tab.job.why = "sync"
        BY <1>1, <3>1, JobStarts
      <3>. QED  BY <3>1
    <2>. HIDE DEF x
    <2>3. CASE v.tab.op.stage = "none" /\ Local(t, x)
      BY <1>3, <2>1, <2>2, <2>3 DEF Plain, BeginsSync, Begins
    <2>4. CASE v.tab.op.wait = "save" /\ ~v.tab.dirty /\ Local(t, [x EXCEPT !.tab.op.wait = "sync"])
      <3>. DEFINE op == [v.tab.op EXCEPT !.wait = "sync"]
                  w == [x EXCEPT !.tab.op.wait = "sync"]
      <3>1. op \in Op /\ op.wait = "sync" /\ op.stage = v.tab.op.stage /\ op.claim = v.tab.op.claim /\ op.active = v.tab.op.active
        BY <1>1 DEF Op
      <3>2. w = WithOp(x, op, x.events)
        BY <2>2 DEF WithOp, Views, Editor
      <3>3. Local(t, w)
        BY <2>4
      <3>. HIDE DEF w, op
      <3>4. w \in Views /\ Keeps(x, w) /\ w.events = x.events /\ w.tab.op = op
        <4>1. x.events \in Nat
          BY <2>2 DEF Views
        <4>. QED  BY <2>2, <3>1, <3>2, <4>1, OpSet
      <3>5. BeginsSync(v, w)
        BY <2>1, <2>2, <2>4, <3>1, <3>4 DEF BeginsSync, Begins, Keeps, Works, SameJob, At
      <3>. QED  BY <1>3, <3>3, <3>4, <3>5 DEF Plain
    <2>. QED  BY <1>1, <1>5, <2>3, <2>4 DEF SyncStarts, v, x
  <1>6. CASE RefreshStarts(t)
    <2>. DEFINE x == Start(v, "listed", "refresh")
                w == Answered(x, "listed")
    <2>1. v.tab.job.pc = "idle" /\ ~v.tab.dirty /\ Local(t, w)
      BY <1>1, <1>6 DEF RefreshStarts, Idle, v
    <2>2. /\ x \in Views /\ x.row = v.row /\ x.sync = v.sync /\ x.ids = v.ids /\ x.events = v.events
          /\ x.tab.home = v.tab.home /\ x.tab.cur = v.tab.cur /\ x.tab.known = v.tab.known /\ x.tab.dirty = v.tab.dirty
          /\ x.tab.op = v.tab.op /\ x.tab.job \in Job
          /\ At(x.tab.job, "listed", None, None, None) /\ x.tab.job.why = "refresh"
      <3>1. ASSUME NEW y, y = Start(v, "listed", "refresh")
            PROVE  /\ y \in Views /\ y.row = v.row /\ y.sync = v.sync /\ y.ids = v.ids /\ y.events = v.events
                   /\ y.tab.home = v.tab.home /\ y.tab.cur = v.tab.cur /\ y.tab.known = v.tab.known /\ y.tab.dirty = v.tab.dirty
                   /\ y.tab.op = v.tab.op /\ y.tab.job \in Job
                   /\ At(y.tab.job, "listed", None, None, None) /\ y.tab.job.why = "refresh"
        BY <1>1, <3>1, JobStarts
      <3>. QED  BY <3>1
    <2>. HIDE DEF x
    <2>3. w \in Views /\ Turns(x, w) /\ At(w.tab.job, "listed", None, Current, None)
      BY <1>2, <2>2, AnsweredTurns DEF Stages
    <2>. HIDE DEF w
    <2>4. BeginsRefresh(v, w)
      BY <2>1, <2>2, <2>3 DEF BeginsRefresh, Begins, Turns, Still
    <2>. QED  BY <1>3, <2>1, <2>3, <2>4 DEF Plain
  <1>7. CASE Opens(t)
    <2>. DEFINE known == Greater(v.tab.known, v.row.rev)
                d == v.row.draft
                e == [v.tab EXCEPT !.cur = d, !.known = known]
    <2>1. /\ v.row # None /\ ~v.tab.dirty /\ v.tab.op.stage = "none"
          /\ Local(t, [v EXCEPT !.tab.cur = d, !.tab.known = known])
      BY <1>1, <1>7 DEF Opens, v
    <2>2. known \in Nat /\ d \in Draft
      BY <1>1, <2>1 DEF Views, Editor, Row, Greater
    <2>3. [v EXCEPT !.tab.cur = d, !.tab.known = known] = InTab(v, e)
      BY <1>1 DEF InTab, Views, Editor
    <2>. DEFINE w == InTab(v, e)
    <2>. HIDE DEF d, known
    <2>4. e \in Editor /\ e.home = v.tab.home /\ e.cur = d /\ e.known = known /\ e.dirty = v.tab.dirty
          /\ e.job = v.tab.job /\ e.op = v.tab.op
      BY <1>1, <2>2 DEF Editor
    <2>. HIDE DEF e
    <2>5. w \in Views /\ w.row = v.row /\ w.sync = v.sync /\ w.ids = v.ids /\ w.events = v.events /\ w.tab = e
      BY <1>1, <2>4, TabSet
    <2>6. Local(t, w)
      BY <2>1, <2>3
    <2>. HIDE DEF w
    <2>7. Selects(v, w)
      BY <2>1, <2>4, <2>5 DEF Selects, d, known
    <2>. QED  BY <1>3, <2>5, <2>6, <2>7 DEF Plain
  <1>8. CASE RemoveStarts(t)
    <2>. DEFINE put == v.sync.pending # None
                ids == IF put THEN v.ids ELSE v.ids + 1
                pending == IF put THEN v.sync.pending ELSE Deletion(v, v.sync.server)
                journal == [v.sync EXCEPT !.deleted = TRUE, !.asked = TRUE, !.recovery = None, !.pending = pending]
                y == [Tombstoned(v) EXCEPT !.tab.cur = None, !.events = @ + 1]
                x == Start(y, "read", "remove")
    <2>1. /\ v.tab.job.pc = "idle" /\ v.tab.cur # None /\ v.tab.cur.lock # "claimed" /\ ~v.tab.dirty
          /\ v.tab.op.stage = "none" /\ Local(t, x)
      BY <1>1, <1>8 DEF RemoveStarts, Idle, v
    <2>2. ids \in Nat
      BY <1>1 DEF Views
    <2>3. y.ids = ids
      BY <1>1 DEF Tombstoned, Views
    <2>4. x.ids = y.ids
      BY <1>1 DEF Start, Tombstoned, Views
    <2>5. pending \in Request
      BY <1>1, <2>1, <2>2, <2>3, <2>4, BoundsAssumption DEF Request, Deletion, Local, Become, State, Views
    <2>. HIDE DEF x
    <2>6. journal \in State /\ journal.server = v.sync.server /\ journal.acked = v.sync.acked /\ journal.deleted
          /\ journal.asked /\ journal.pending = pending
      <3>. HIDE DEF pending
      <3>. QED  BY <1>1, <2>5 DEF State
    <2>. DEFINE e == [v.tab EXCEPT !.cur = None]
    <2>7. e \in Editor /\ e.home = v.tab.home /\ e.cur = None /\ e.known = v.tab.known /\ e.dirty = v.tab.dirty
          /\ e.job = v.tab.job /\ e.op = v.tab.op
      BY <1>1 DEF Editor
    <2>8. y = [row |-> None, sync |-> journal, tab |-> e, ids |-> ids, events |-> v.events + 1]
      <3>. DEFINE z == Tombstoned(v)
      <3>1. z = [v EXCEPT !.row = None, !.ids = ids, !.sync = journal]
        BY <1>1 DEF Tombstoned, Views, State
      <3>. HIDE DEF z, journal, ids
      <3>2. z = [row |-> None, sync |-> journal, tab |-> v.tab, ids |-> ids, events |-> v.events]
        BY <1>1, <3>1 DEF Views
      <3>3. y = [z EXCEPT !.tab = e, !.events = v.events + 1]
        BY <3>2 DEF z
      <3>. HIDE DEF y, e
      <3>. QED  BY <3>2, <3>3
    <2>. HIDE DEF e, journal, ids, y
    <2>9. y \in Views /\ y.row = None /\ y.ids = ids /\ y.sync = journal /\ y.tab = e /\ y.events = v.events + 1
      BY <1>1, <2>2, <2>6, <2>7, <2>8 DEF Views
    <2>10. /\ x \in Views /\ x.row = y.row /\ x.sync = y.sync /\ x.ids = y.ids /\ x.events = y.events
           /\ x.tab.home = y.tab.home /\ x.tab.cur = y.tab.cur /\ x.tab.known = y.tab.known /\ x.tab.dirty = y.tab.dirty
           /\ x.tab.op = y.tab.op /\ x.tab.job \in Job
           /\ At(x.tab.job, "read", None, None, None) /\ x.tab.job.why = "remove"
      <3>1. ASSUME NEW w, w = Start(y, "read", "remove")
            PROVE  /\ w \in Views /\ w.row = y.row /\ w.sync = y.sync /\ w.ids = y.ids /\ w.events = y.events
                   /\ w.tab.home = y.tab.home /\ w.tab.cur = y.tab.cur /\ w.tab.known = y.tab.known /\ w.tab.dirty = y.tab.dirty
                   /\ w.tab.op = y.tab.op /\ w.tab.job \in Job
                   /\ At(w.tab.job, "read", None, None, None) /\ w.tab.job.why = "remove"
        BY <2>9, <3>1, JobStarts
      <3>. QED  BY <3>1 DEF x
    <2>. HIDE DEF pending
    <2>11. \/ v.sync.pending # None /\ pending = v.sync.pending /\ ids = v.ids
           \/ v.sync.pending = None /\ pending = Deletion(v, v.sync.server) /\ ids = v.ids + 1
      BY DEF pending, ids
    <2>12. Removes(v, x)
      BY <2>1, <2>6, <2>7, <2>9, <2>10, <2>11 DEF Removes
    <2>. QED  BY <1>3, <2>1, <2>10, <2>12 DEF Plain
  <1>9. CASE GetRefused(t)
    <2>. DEFINE j == [v.tab.job EXCEPT !.pc = "resolve", !.doc = Current]
                e == [v.tab EXCEPT !.job = j]
                w == InTab(v, e)
    <2>1. v.tab.job.pc = "refused" /\ Local(t, [v EXCEPT !.tab.job.pc = "resolve", !.tab.job.doc = Current])
      BY <1>1, <1>9 DEF GetRefused, v
    <2>2. [v EXCEPT !.tab.job.pc = "resolve", !.tab.job.doc = Current] = w
      BY <1>1 DEF InTab, Views, Editor, Job
    <2>3. j \in Job /\ j.pc = "resolve" /\ j.doc = Current /\ j.pend = v.tab.job.pend /\ j.base = v.tab.job.base
          /\ j.why = v.tab.job.why
      BY <1>1, <1>2 DEF Job
    <2>. HIDE DEF j
    <2>4. e \in Editor /\ e.home = v.tab.home /\ e.cur = v.tab.cur /\ e.known = v.tab.known /\ e.dirty = v.tab.dirty
          /\ e.job = j /\ e.op = v.tab.op
      BY <1>1, <2>3 DEF Editor
    <2>. HIDE DEF e
    <2>5. w \in Views /\ w.row = v.row /\ w.sync = v.sync /\ w.ids = v.ids /\ w.events = v.events /\ w.tab = e
      BY <1>1, <2>4, TabSet
    <2>6. Local(t, w)
      BY <2>1, <2>2
    <2>. HIDE DEF w
    <2>7. Retries(v, w)
      BY <2>1, <2>3, <2>4, <2>5 DEF Retries, Carries
    <2>. QED  BY <1>3, <2>5, <2>6, <2>7 DEF Plain
  <1>. QED  BY <1>4, <1>5, <1>6, <1>7, <1>8, <1>9 DEF PlainStep

\* What the request under way leaves behind.
Leftover(t) == IF tab[t].job.pc = "send" THEN {tab[t].job.pend} ELSE {}

\* Another editor, and one more of the events.
Happened(v, e) == [v EXCEPT !.tab = e, !.events = v.events + 1]

LEMMA EventSet ==
  ASSUME NEW v \in Views, NEW e \in Editor, NEW w, w = Happened(v, e)
  PROVE  w \in Views /\ w.row = v.row /\ w.sync = v.sync /\ w.ids = v.ids /\ w.events = v.events + 1 /\ w.tab = e
  <1>1. v.events + 1 \in Nat
    BY DEF Views
  <1>2. w.row = v.row /\ w.sync = v.sync /\ w.ids = v.ids /\ w.events = v.events + 1 /\ w.tab = e
    BY DEF Views, Happened
  <1>3. w \in Views
    <2>. DEFINE n == v.events + 1
    <2>1. w = [v EXCEPT !.tab = e, !.events = n] /\ n \in Nat
      BY <1>1 DEF Happened
    <2>. HIDE DEF n
    <2>. QED  BY <2>1 DEF Views
  <1>. QED  BY <1>2, <1>3

\* A request without an answer, or a closed tab: the request may take effect later.
LEMMA QuitForms ==
  ASSUME Types, NEW t \in Tab, Timeout(t) \/ Crash(t)
  PROVE  /\ UNCHANGED <<cloud, posted>> /\ late' \subseteq late \cup Leftover(t)
         /\ \E w : Turned(t, w) /\ Quits(View(t), w)
  <1>. DEFINE v == View(t)
  <1>1. v \in Views /\ v.tab = tab[t] /\ v.tab \in Editor /\ v.tab.op \in Op /\ v.tab.job \in Job
    BY ViewTyped DEF View, Views
  <1>2. UNCHANGED <<cloud, row, sync, posted>> /\ LeavesBehind(t)
    BY DEF Timeout, Crash
  <1>3. late' \subseteq late \cup Leftover(t)
    BY <1>2 DEF LeavesBehind, Alive, Leftover
  <1>. HIDE DEF v
  <1>4. ASSUME NEW e \in Editor, tab' = [tab EXCEPT ![t] = e], Quits(v, Happened(v, e))
        PROVE  \E w : Turned(t, w) /\ Quits(v, w)
    <2>. DEFINE w == Happened(v, e)
    <2>1. w \in Views /\ w.row = v.row /\ w.sync = v.sync /\ w.ids = v.ids /\ w.events = v.events + 1 /\ w.tab = e
      <3>1. ASSUME NEW x, x = Happened(v, e)
            PROVE  x \in Views /\ x.row = v.row /\ x.sync = v.sync /\ x.ids = v.ids /\ x.events = v.events + 1 /\ x.tab = e
        BY <1>1, <3>1, EventSet
      <3>. QED  BY <3>1
    <2>2. Quits(v, w)
      BY <1>4
    <2>. HIDE DEF w
    <2>3. Turned(t, w)
      BY <1>2, <1>4, <2>1, AloneTurned DEF LeavesBehind, v
    <2>. QED  BY <2>2, <2>3
  <1>5. ASSUME NEW e \in Editor, e.home = v.tab.home, e.job = NoJob,
               \/ /\ e.cur = v.tab.cur /\ e.known = v.tab.known /\ e.dirty = v.tab.dirty
                  /\ e.op.stage = v.tab.op.stage /\ e.op.claim = v.tab.op.claim /\ e.op.active = v.tab.op.active
                  /\ e.op.wait = IF v.tab.op.wait # "sync" THEN v.tab.op.wait ELSE "failed"
               \/ e.cur = None /\ e.known = 0 /\ ~e.dirty /\ e.op = NoOp
        PROVE  Quits(v, Happened(v, e))
    <2>1. ASSUME NEW w, w = Happened(v, e)
          PROVE  Quits(v, w)
      <3>1. w \in Views /\ w.row = v.row /\ w.sync = v.sync /\ w.ids = v.ids /\ w.events = v.events + 1 /\ w.tab = e
        BY <1>1, <2>1, EventSet
      <3>. QED  BY <1>5, <3>1 DEF Quits
    <2>. QED  BY <2>1
  <1>6. CASE Timeout(t)
    <2>. DEFINE x == Ended(v, FALSE)
                e == x.tab
    <2>1. Ends(v, x, "failed")
      BY <1>1, EndedEnds
    <2>2. tab' = [tab EXCEPT ![t] = e]
      BY <1>6 DEF Timeout, v
    <2>. HIDE DEF x
    <2>3. e \in Editor
      BY <2>1 DEF Ends, Views
    <2>4. Quits(v, Happened(v, e))
      BY <1>5, <2>1, <2>3 DEF Ends
    <2>. QED  BY <1>2, <1>3, <1>4, <2>2, <2>3, <2>4 DEF v
  <1>7. CASE Crash(t)
    <2>. DEFINE e == [tab[t] EXCEPT !.cur = None, !.known = 0, !.dirty = FALSE, !.job = NoJob, !.op = NoOp]
                first == [tab[t] EXCEPT !.cur = None, !.known = 0]
                second == [first EXCEPT !.dirty = FALSE, !.job = NoJob]
    <2>1. tab' = [tab EXCEPT ![t] = e]
      BY <1>7 DEF Crash, Types
    <2>2. e = [second EXCEPT !.op = NoOp]
      OBVIOUS
    <2>3. NoJob \in Job /\ NoOp \in Op
      BY NoneAssumption, BoundsAssumption DEF NoOp, Op, NoJob, Job
    <2>4. e \in Editor
      <3>1. first \in Editor
        BY <1>1 DEF Editor
      <3>. HIDE DEF first
      <3>2. second \in Editor
        BY <2>3, <3>1 DEF Editor
      <3>. HIDE DEF second, e
      <3>. QED  BY <2>2, <2>3, <3>2 DEF Editor
    <2>5. e.home = v.tab.home /\ e.job = NoJob /\ e.cur = None /\ e.known = 0 /\ ~e.dirty /\ e.op = NoOp
      BY <1>1 DEF Editor
    <2>. HIDE DEF e
    <2>6. Quits(v, Happened(v, e))
      BY <1>5, <2>4, <2>5
    <2>. QED  BY <1>2, <1>3, <1>4, <2>1, <2>4, <2>6 DEF v
  <1>. QED  BY <1>6, <1>7

\* The AppView takes a request, or does not.
Takes(req) == Accepted(req) /\ ~Repeated(req) /\ cloud' = Append(cloud, [id |-> req.id, draft |-> req.draft])

\* The AppView takes a mutation or leaves its draft alone.
LEMMA MutateTakes ==
  ASSUME NEW req, Mutate(req)
  PROVE  Takes(req) \/ (cloud' = cloud /\ ~(Accepted(req) /\ ~Repeated(req)))
  BY DEF Mutate, Takes

Sent(v, w) ==
  LET req == v.tab.job.pend
  IN /\ Carries(v, w) /\ v.tab.job.pc = "send"
     /\ \/ /\ w.tab.job.pc = "answered" /\ w.tab.job.doc = [id |-> req.id, rev |-> Len(cloud'), draft |-> req.draft]
           /\ Takes(req) \/ (cloud' = cloud /\ Repeated(req))
        \/ w.tab.job.pc = "refused" /\ w.tab.job.doc = None /\ cloud' = cloud /\ ~Repeated(req) /\ ~Accepted(req)

\* A request goes out: the cloud takes it or not, and the tab has an answer or a refusal.
LEMMA SendForms ==
  ASSUME Types, NEW t \in Tab, Send(t)
  PROVE  /\ UNCHANGED posted /\ late' \subseteq late /\ Len(cloud') \in Nat
         /\ \E w : Turned(t, w) /\ Sent(View(t), w)
  <1>. DEFINE v == View(t)
              req == tab[t].job.pend
              ok == Repeated(req) \/ Accepted(req)
              pc == IF ok THEN "answered" ELSE "refused"
              doc == IF ok THEN [id |-> req.id, rev |-> Len(cloud'), draft |-> req.draft] ELSE None
              x == [v EXCEPT !.tab.job.pc = pc, !.tab.job.doc = doc]
              j == [v.tab.job EXCEPT !.pc = pc, !.doc = doc]
              e == [v.tab EXCEPT !.job = j]
              w == InTab(v, e)
  <1>1. v \in Views /\ v.tab = tab[t] /\ v.tab \in Editor /\ v.tab.op \in Op /\ v.tab.job \in Job
    BY ViewTyped DEF View, Views
  <1>2. tab[t].job.pc = "send" /\ Mutate(req) /\ Become(t, x) /\ late' = Alive(late, Len(cloud')) /\ UNCHANGED posted
    BY DEF Send
  <1>3. req \in Request
    BY <1>1, <1>2 DEF Types, JobOK, Carrying, Job
  <1>4. Len(cloud') \in Nat
    BY <1>2, <1>3 DEF Types, Mutate, Request, Entry
  <1>. HIDE DEF v, req
  <1>5. pc \in {"answered", "refused"} /\ doc \in Doc \cup {None}
    BY <1>3, <1>4 DEF Doc, Request
  <1>6. x = w
    BY <1>1 DEF InTab, Views, Editor, Job
  <1>7. \/ pc = "answered" /\ doc = [id |-> req.id, rev |-> Len(cloud'), draft |-> req.draft] /\ ok
        \/ pc = "refused" /\ doc = None /\ ~ok
    OBVIOUS
  <1>. HIDE DEF pc, doc
  <1>8. j \in Job /\ j.pc = pc /\ j.doc = doc /\ j.pend = v.tab.job.pend /\ j.base = v.tab.job.base /\ j.why = v.tab.job.why
    BY <1>1, <1>5 DEF Job
  <1>. HIDE DEF j
  <1>9. e \in Editor /\ e.home = v.tab.home /\ e.cur = v.tab.cur /\ e.known = v.tab.known /\ e.dirty = v.tab.dirty
        /\ e.job = j /\ e.op = v.tab.op
    BY <1>1, <1>8 DEF Editor
  <1>. HIDE DEF e
  <1>10. w \in Views /\ w.row = v.row /\ w.sync = v.sync /\ w.ids = v.ids /\ w.events = v.events /\ w.tab = e
    BY <1>1, <1>9, TabSet
  <1>. HIDE DEF w, x
  <1>11. Carries(v, w) /\ req = v.tab.job.pend /\ w.tab.job = j
    BY <1>1, <1>8, <1>9, <1>10 DEF Carries, req
  <1>12. Sent(v, w)
    <2>1. Takes(req) \/ (cloud' = cloud /\ ~(Accepted(req) /\ ~Repeated(req)))
      BY <1>2, MutateTakes
    <2>2. CASE ok
      <3>1. Takes(req) \/ (cloud' = cloud /\ Repeated(req))
        BY <2>1, <2>2
      <3>. QED  BY <1>1, <1>2, <1>7, <1>8, <1>11, <2>2, <3>1 DEF Sent
    <2>3. CASE ~ok
      <3>1. cloud' = cloud /\ ~Repeated(req) /\ ~Accepted(req)
        BY <2>1, <2>3 DEF Takes
      <3>. QED  BY <1>1, <1>2, <1>7, <1>8, <1>11, <2>3, <3>1 DEF Sent
    <2>. QED  BY <2>2, <2>3
  <1>13. Turned(t, w)
    BY <1>2, <1>6, <1>10, LocalTurned
  <1>. QED  BY <1>2, <1>4, <1>12, <1>13 DEF Alive, v

-----------------------------------------------------------------------------
(* A step of a tab keeps SInv, when what it leaves is sound by itself and  *)
(* for the other tabs of the browser.                                      *)

\* The requests a tab and its browser have under way.
Requesting(v) == ({v.sync.pending} \ {None}) \cup (IF v.tab.job.pc \in Carrying THEN {v.tab.job.pend} ELSE {})

Committed(o) == o.stage \in {"review", "claim", "send"} => o.active # None

\* What SInv says of what a tab works on.
Sound(v) ==
  /\ SyncOK(v.sync) /\ JobOK(v.tab.job) /\ Committed(v.tab.op)
  /\ BrowserOK(v.row, v.sync) /\ TabOK(v.tab, v.row, v.sync)

\* Nothing another tab of the browser relies on is taken back.
Passes(v, w) ==
  /\ v.sync.deleted => w.sync.deleted
  /\ \/ w.row = v.row
     \/ w.row = None /\ w.sync.deleted
     \/ w.row # None /\ ~v.sync.deleted /\ (v.row # None => w.row.rev > v.row.rev)

\* At most one request is new, and has a new identifier.
Fresh(v, w) ==
  \E q : /\ q.id = v.ids + 1 /\ w.ids \in {v.ids, v.ids + 1}
         /\ \A r \in Requesting(w) : r \in Requesting(v) \/ (r = q /\ w.ids = v.ids + 1)

Kept(v, w) == w.tab.home = v.tab.home /\ Sound(w) /\ Passes(v, w) /\ Fresh(v, w)

\* What a tab works on is sound where SInv holds.
LEMMA ViewSound ==
  ASSUME SInv, NEW t \in Tab
  PROVE  /\ View(t) \in Views /\ Sound(View(t)) /\ Requesting(View(t)) \subseteq Requests /\ View(t).tab = tab[t]
         /\ View(t).row = row[tab[t].home] /\ View(t).sync = sync[tab[t].home]
         /\ View(t).ids = used.ids /\ View(t).events = used.events
  <1>1. View(t) \in Views /\ tab[t].home \in Browser
    BY ViewTyped DEF SInv
  <1>2. Sound(View(t))
    BY <1>1 DEF SInv, Types, Sound, View, Committed, Publishing
  <1>3. Requesting(View(t)) \subseteq Requests
    BY <1>1 DEF Requesting, Requests, View
  <1>. QED  BY <1>1, <1>2, <1>3 DEF View

\* A step of a tab is one of its browser: all other browsers and tabs stay as they are.
LEMMA Steps ==
  ASSUME Types, NEW t \in Tab, NEW w, Turned(t, w), w.tab.home = tab[t].home
  PROVE  /\ \A b \in Browser : /\ row'[b] = IF b = tab[t].home THEN w.row ELSE row[b]
                               /\ sync'[b] = IF b = tab[t].home THEN w.sync ELSE sync[b]
         /\ \A u \in Tab : tab'[u] = (IF u = t THEN w.tab ELSE tab[u]) /\ tab'[u].home = tab[u].home
         /\ row' \in [Browser -> Row \cup {None}] /\ sync' \in [Browser -> State] /\ tab' \in [Tab -> Editor]
         /\ used' \in [events : 0..MaxEvents, ids : 0..MaxIds] /\ used'.ids = w.ids /\ used'.events = w.events
         /\ row'[tab[t].home] = w.row /\ sync'[tab[t].home] = w.sync /\ tab'[t] = w.tab
  <1>1. /\ row \in [Browser -> Row \cup {None}] /\ sync \in [Browser -> State] /\ tab \in [Tab -> Editor]
        /\ used \in [events : 0..MaxEvents, ids : 0..MaxIds] /\ tab[t].home \in Browser
    BY ViewTyped DEF Types
  <1>2. w.row \in Row \cup {None} /\ w.sync \in State /\ w.tab \in Editor /\ w.ids \in 0..MaxIds /\ w.events \in 0..MaxEvents
    BY BoundsAssumption DEF Turned, Views
  <1>3. row' \in [Browser -> Row \cup {None}] /\ \A b \in Browser : row'[b] = IF b = tab[t].home THEN w.row ELSE row[b]
    BY <1>1, <1>2 DEF Turned
  <1>4. sync' \in [Browser -> State] /\ \A b \in Browser : sync'[b] = IF b = tab[t].home THEN w.sync ELSE sync[b]
    BY <1>1, <1>2 DEF Turned
  <1>5. tab' \in [Tab -> Editor] /\ \A u \in Tab : tab'[u] = IF u = t THEN w.tab ELSE tab[u]
    BY <1>1, <1>2 DEF Turned
  <1>6. used' \in [events : 0..MaxEvents, ids : 0..MaxIds] /\ used'.ids = w.ids /\ used'.events = w.events
    BY <1>1, <1>2 DEF Turned
  <1>. QED  BY <1>1, <1>3, <1>4, <1>5, <1>6

\* The other tabs of the browser go on with what they read before the step.
LEMMA OtherTabs ==
  ASSUME NEW v, NEW w, NEW e, Passes(v, w), BrowserOK(v.row, v.sync), BrowserOK(w.row, w.sync),
         v \in Views, w \in Views, e \in Editor, JobOK(e.job), TabOK(e, v.row, v.sync)
  PROVE  TabOK(e, w.row, w.sync)
  <1>1. /\ v.row \in Row \cup {None} /\ w.row \in Row \cup {None} /\ (v.row # None => v.row.rev \in Nat)
        /\ (w.row # None => w.row.rev \in Nat) /\ e.known \in Nat
        /\ e.job.pc = "journal" => e.job.pend # None /\ e.job.pend.local \in Nat
    BY DEF Views, Editor, Row, Job, Request, JobOK
  <1>2. /\ w.row # None => e.known <= w.row.rev
        /\ w.row = None /\ ~w.sync.deleted => e.known = 0
    BY <1>1 DEF Passes, BrowserOK, TabOK
  <1>3. e.job.pc = "journal" => JournalOK(e.job, w.row, w.sync)
    <2>1. e.job.pc = "journal" => JournalOK(e.job, v.row, v.sync)
      BY DEF TabOK
    <2>2. ~w.sync.deleted /\ e.job.pc = "journal" => w.row # None
      BY <2>1 DEF Passes, JournalOK
    <2>3. w.row # None /\ e.job.pc = "journal"
            => e.job.pend.local <= w.row.rev /\ (e.job.pend.local = w.row.rev => w.row.draft = e.job.pend.draft)
      BY <1>1, <2>1 DEF Passes, JournalOK, BrowserOK
    <2>. QED  BY <2>1, <2>2, <2>3 DEF JournalOK
  <1>. QED  BY <1>2, <1>3 DEF TabOK

\* The requests after a step are older ones and those of the tab.
LEMMA RequestsMove ==
  ASSUME Types, NEW t \in Tab, NEW w, Turned(t, w), w.tab.home = tab[t].home, late' \subseteq late \cup Leftover(t)
  PROVE  Requests' \subseteq Requests \cup Requesting(w)
  <1>1. /\ \A b \in Browser : sync'[b] = IF b = tab[t].home THEN w.sync ELSE sync[b]
        /\ \A u \in Tab : tab'[u] = (IF u = t THEN w.tab ELSE tab[u])
    BY Steps
  <1>2. Leftover(t) \subseteq Requests
    BY DEF Leftover, Requests, Carrying
  <1>3. ASSUME NEW b \in Browser, sync'[b].pending # None
        PROVE  sync'[b].pending \in Requests \cup Requesting(w)
    BY <1>1, <1>3 DEF Requests, Requesting
  <1>4. ASSUME NEW u \in Tab, tab'[u].job.pc \in Carrying
        PROVE  tab'[u].job.pend \in Requests \cup Requesting(w)
    BY <1>1, <1>4 DEF Requests, Requesting
  <1>. QED  BY <1>2, <1>3, <1>4 DEF Requests

\* A step that leaves the cloud as it is.
LEMMA KeptSound ==
  ASSUME SInv, NEW t \in Tab, NEW w, Turned(t, w), Kept(View(t), w),
         UNCHANGED cloud, late' \subseteq late \cup Leftover(t), posted' \in Texts \cup {None}
  PROVE  SInv'
  <1>. DEFINE v == View(t)
              home == tab[t].home
  <1>1. /\ v \in Views /\ Sound(v) /\ Requesting(v) \subseteq Requests /\ v.tab = tab[t] /\ v.row = row[home]
        /\ v.sync = sync[home] /\ v.ids = used.ids
    BY ViewSound
  <1>2. Types /\ home \in Browser
    BY ViewTyped DEF SInv
  <1>3. /\ \A b \in Browser : /\ row'[b] = IF b = home THEN w.row ELSE row[b]
                              /\ sync'[b] = IF b = home THEN w.sync ELSE sync[b]
        /\ \A u \in Tab : tab'[u] = (IF u = t THEN w.tab ELSE tab[u]) /\ tab'[u].home = tab[u].home
        /\ row' \in [Browser -> Row \cup {None}] /\ sync' \in [Browser -> State] /\ tab' \in [Tab -> Editor]
        /\ used' \in [events : 0..MaxEvents, ids : 0..MaxIds] /\ used'.ids = w.ids
    BY <1>1, <1>2, Steps DEF Kept
  <1>4. w \in Views /\ Sound(w) /\ Passes(v, w) /\ Fresh(v, w)
    BY DEF Turned, Kept
  <1>. HIDE DEF v, home
  <1>5. \A b \in Browser : SyncOK(sync'[b]) /\ BrowserOK(row'[b], sync'[b])
    BY <1>1, <1>3, <1>4 DEF SInv, Types, Sound
  <1>6. \A u \in Tab : JobOK(tab'[u].job) /\ Committed(tab'[u].op) /\ TabOK(tab'[u], row'[tab'[u].home], sync'[tab'[u].home])
    <2>1. JobOK(w.tab.job) /\ Committed(w.tab.op) /\ TabOK(w.tab, w.row, w.sync)
      BY <1>4 DEF Sound
    <2>2. ASSUME NEW u \in Tab
          PROVE  /\ tab[u] \in Editor /\ tab[u].home \in Browser /\ JobOK(tab[u].job) /\ Committed(tab[u].op)
                 /\ TabOK(tab[u], row[tab[u].home], sync[tab[u].home])
      BY <1>2, ViewTyped DEF SInv, Types, Publishing, Committed
    <2>3. \A u \in Tab : tab[u].home = home => TabOK(tab[u], w.row, w.sync)
      BY <1>1, <1>4, <2>2, OtherTabs DEF Sound
    <2>4. w.tab.home = home
      BY <1>1 DEF Kept, v, home
    <2>. QED  BY <1>2, <1>3, <2>1, <2>2, <2>3, <2>4
  <1>7. Types'
    <2>1. \A b \in Browser : SyncOK(sync[b])'
      BY <1>5 DEF SyncOK
    <2>2. \A u \in Tab : JobOK(tab[u].job)'
      BY <1>6 DEF JobOK
    <2>3. \A u \in Tab : (Publishing(u) => tab[u].op.active # None)'
      BY <1>6 DEF Publishing, Committed
    <2>4. \A r \in late' : r \in Request /\ r.expected <= Len(cloud)
      BY <1>1, <1>2, ViewTyped DEF Types, Leftover, JobOK, Carrying, Job
    <2>. QED  BY <1>2, <1>3, <2>1, <2>2, <2>3, <2>4 DEF Types
  <1>8. \A b \in Browser : BrowserOK(row[b], sync[b])'
    BY <1>5 DEF BrowserOK, Latest
  <1>9. \A u \in Tab : TabOK(tab[u], row[tab[u].home], sync[tab[u].home])'
    BY <1>6 DEF TabOK
  <1>10. Requests' \subseteq Requests \cup Requesting(w)
    BY <1>1, <1>2, RequestsMove DEF Kept, v, home
  <1>11. PICK q : /\ q.id = used.ids + 1 /\ used'.ids \in {used.ids, used.ids + 1}
                  /\ \A r \in Requests' : r \in Requests \/ (r = q /\ used'.ids = used.ids + 1)
    BY <1>1, <1>3, <1>4, <1>10 DEF Fresh
  <1>12. used.ids \in Nat /\ DOMAIN cloud = 1..Len(cloud) /\ (\A i \in DOMAIN cloud : cloud[i].id \in Nat)
         /\ \A r \in Requests : r.id \in Nat
    <2>1. \A r \in Requests : r.id \in 0..MaxIds
      BY <1>2, ViewTyped DEF Requests, Types, JobOK, State, Job, Request, Carrying
    <2>2. \A i \in DOMAIN cloud : cloud[i] \in Entry
      BY <1>2 DEF Types
    <2>3. \A i \in DOMAIN cloud : cloud[i].id \in 0..MaxIds
      BY <2>2 DEF Entry
    <2>4. DOMAIN cloud = 1..Len(cloud) /\ used.ids \in 0..MaxIds
      BY <1>2 DEF Types
    <2>. QED  BY <2>1, <2>3, <2>4, BoundsAssumption
  <1>13. RequestsOK'
    BY <1>11, <1>12 DEF SInv, RequestsOK, CloudOK
  <1>14. CloudOK'
    BY <1>11, <1>12 DEF SInv, CloudOK
  <1>. QED  BY <1>7, <1>8, <1>9, <1>13, <1>14 DEF SInv

-----------------------------------------------------------------------------
(* Every form of a step keeps what a tab works on sound.                   *)

\* What is known of the parts of a view, for the leaves of the proofs below.
Parts(v) ==
  /\ v.row \in Row \cup {None} /\ (v.row # None => v.row.rev \in Nat /\ v.row.draft \in Draft /\ v.row.draft # None)
  /\ v.sync \in State /\ v.sync # None /\ v.sync.server \in Nat /\ v.sync.acked \in Nat
  /\ v.sync.deleted \in BOOLEAN /\ v.sync.asked \in BOOLEAN /\ v.tab.known \in Nat /\ v.ids \in Nat
  /\ v.sync.pending # None => v.sync.pending.local \in Nat /\ v.sync.pending.expected \in Nat /\ v.sync.pending.draft \in Draft \cup {None}
  /\ v.tab.job.pend # None => v.tab.job.pend.local \in Nat /\ v.tab.job.pend.expected \in Nat /\ v.tab.job.pend.draft \in Draft \cup {None}
  /\ v.tab.job.doc # None => v.tab.job.doc.rev \in Nat
  /\ v.tab.job.base # None => /\ v.tab.job.base \in State /\ v.tab.job.base.server \in Nat /\ v.tab.job.base.acked \in Nat

LEMMA PartsTyped ==
  ASSUME NEW v \in Views
  PROVE  Parts(v)
  <1>1. v.tab \in Editor /\ v.sync \in State /\ v.row \in Row \cup {None} /\ v.ids \in Nat
    BY DEF Views
  <1>2. v.tab.job \in Job /\ v.tab.known \in Nat
    BY <1>1 DEF Editor
  <1>3. v.row # None => v.row.rev \in Nat /\ v.row.draft \in Draft /\ v.row.draft # None
    BY <1>1, NoneAssumption DEF Row
  <1>4. /\ v.sync # None /\ v.sync.server \in Nat /\ v.sync.acked \in Nat
        /\ v.sync.deleted \in BOOLEAN /\ v.sync.asked \in BOOLEAN /\ v.sync.pending \in Request \cup {None}
    BY <1>1, NoneAssumption DEF State
  <1>5. v.tab.job.pend \in Request \cup {None} /\ v.tab.job.doc \in Doc \cup {None} /\ v.tab.job.base \in State \cup {None}
    BY <1>2 DEF Job
  <1>6. \A r \in Request : r.local \in Nat /\ r.expected \in Nat /\ r.draft \in Draft \cup {None}
    BY DEF Request
  <1>7. v.tab.job.doc # None => v.tab.job.doc.rev \in Nat
    BY <1>5 DEF Doc
  <1>8. v.tab.job.base # None => v.tab.job.base.server \in Nat /\ v.tab.job.base.acked \in Nat
    BY <1>5 DEF State
  <1>. QED  BY <1>1, <1>2, <1>3, <1>4, <1>5, <1>6, <1>7, <1>8 DEF Parts

\* A sync at rest carries nothing.
LEMMA QuietJobs ==
  ASSUME NEW v, Quiet(v.tab.job)
  PROVE  /\ JobOK(v.tab.job) /\ Requesting(v) = {v.sync.pending} \ {None}
         /\ \A r, s : TabOK(v.tab, r, s) <=> /\ r # None => v.tab.known <= r.rev
                                             /\ r = None /\ ~s.deleted => v.tab.known = 0
  BY DEF Quiet, JobOK, Requesting, TabOK, Carrying

\* The journal is what it was: so are the requests, and what the cloud has of the row.
LEMMA RestedSound ==
  ASSUME NEW v, NEW w, Sound(v), w.row = v.row, SameJournal(v.sync, w.sync)
  PROVE  SyncOK(w.sync) /\ BrowserOK(w.row, w.sync) /\ Passes(v, w)
  BY DEF Sound, SameJournal, SyncOK, BrowserOK, Passes

\* Without a request of its own, a step has none that is new.
LEMMA NothingNew ==
  ASSUME NEW v \in Views, NEW w, w.ids = v.ids, Requesting(w) \subseteq Requesting(v)
  PROVE  Fresh(v, w)
  <1>. DEFINE q == [id |-> v.ids + 1]
  <1>1. q.id = v.ids + 1
    OBVIOUS
  <1>. QED  BY <1>1 DEF Fresh

LEMMA ClosesEditor ==
  ASSUME NEW v \in Views, NEW w \in Views, Closes(v, w), Sound(v)
  PROVE  Committed(w.tab.op) /\ Quiet(w.tab.job) /\ w.tab.home = v.tab.home
         /\ (w.tab.known = v.tab.known \/ (w.row # None /\ w.tab.known = w.row.rev))
  BY DEF Closes, Edits, Sound, Committed

\* What only ends a sync keeps the browser sound.
LEMMA RestsKept ==
  ASSUME NEW v \in Views, NEW w \in Views, Sound(v), Rests(v, w)
  PROVE  Kept(v, w)
  <1>1. Parts(v) /\ Parts(w)
    BY PartsTyped
  <1>2. SyncOK(w.sync) /\ BrowserOK(w.row, w.sync) /\ Passes(v, w)
    BY RestedSound DEF Rests
  <1>3. Committed(w.tab.op) /\ Quiet(w.tab.job) /\ w.tab.home = v.tab.home
        /\ (w.tab.known = v.tab.known \/ (w.row # None /\ w.tab.known = w.row.rev))
    BY ClosesEditor DEF Rests
  <1>4. /\ v.row # None => v.tab.known <= v.row.rev
        /\ v.row = None /\ ~v.sync.deleted => v.tab.known = 0
    BY DEF Sound, TabOK
  <1>5. TabOK(w.tab, w.row, w.sync) /\ JobOK(w.tab.job)
    BY <1>1, <1>3, <1>4, QuietJobs DEF Rests, SameJournal, Parts
  <1>6. Requesting(w) \subseteq Requesting(v)
    BY <1>3, QuietJobs DEF Rests, SameJournal, Requesting
  <1>. QED  BY <1>2, <1>3, <1>5, <1>6, NothingNew DEF Kept, Sound, Rests

LEMMA TurnsKept ==
  ASSUME NEW v \in Views, NEW w \in Views, Sound(v), Turns(v, w), JobOK(w.tab.job), w.tab.job.pc # "journal",
         w.tab.job.doc # None => /\ cloud[w.tab.job.doc.rev].id = w.tab.job.doc.id
                                 /\ cloud[w.tab.job.doc.rev].draft = w.tab.job.doc.draft,
         w.tab.job.pc \in Carrying => w.tab.job.pend \in Requesting(v)
  PROVE  Kept(v, w)
  <1>1. SyncOK(w.sync) /\ BrowserOK(w.row, w.sync) /\ Passes(v, w)
    BY RestedSound DEF Turns, SameJournal
  <1>2. Committed(w.tab.op) /\ w.tab.home = v.tab.home
    BY DEF Turns, Still, Sound
  <1>3. TabOK(w.tab, w.row, w.sync)
    BY DEF Turns, Still, Sound, TabOK
  <1>4. Requesting(w) \subseteq Requesting(v)
    BY DEF Turns, Requesting
  <1>. QED  BY <1>1, <1>2, <1>3, <1>4, NothingNew DEF Kept, Sound, Turns

LEMMA TurningKept ==
  ASSUME Types, NEW v \in Views, NEW w \in Views, Sound(v), Sends(v, w) \/ Asks(v, w) \/ Adopts(v, w)
  PROVE  Kept(v, w)
  <1>1. CASE Sends(v, w)
    <2>1. JobOK(w.tab.job) /\ w.tab.job.pend \in Requesting(v) /\ w.tab.job.pc = "send" /\ w.tab.job.doc = None
      BY <1>1 DEF Sends, At, JobOK, Requesting, Carrying, Sound, SyncOK
    <2>. QED  BY <1>1, <2>1, TurnsKept DEF Sends
  <1>2. CASE Asks(v, w)
    <2>1. JobOK(w.tab.job) /\ w.tab.job.pc = "got" /\ w.tab.job.doc = Current
      BY <1>2, CurrentTyped DEF Asks, At, JobOK, Carrying
    <2>2. Current # None => cloud[Current.rev].id = Current.id /\ cloud[Current.rev].draft = Current.draft
      BY CurrentTyped
    <2>. QED  BY <1>2, <2>1, <2>2, TurnsKept DEF Asks, Carrying
  <1>3. CASE Adopts(v, w)
    <2>1. JobOK(w.tab.job) /\ w.tab.job.pc = "adopt" /\ w.tab.job.doc = v.tab.job.doc
      BY <1>3 DEF Adopts, At, JobOK, Carrying, Sound
    <2>2. v.tab.job.doc # None => /\ cloud[v.tab.job.doc.rev].id = v.tab.job.doc.id
                                  /\ cloud[v.tab.job.doc.rev].draft = v.tab.job.doc.draft
      BY DEF Sound, TabOK
    <2>. QED  BY <1>3, <2>1, <2>2, TurnsKept DEF Adopts, Carrying
  <1>. QED  BY <1>1, <1>2, <1>3

\* The composed put is above what the cloud acknowledged, on the revision that was read.
LEMMA ComposesKept ==
  ASSUME Types, NEW v \in Views, NEW w \in Views, Sound(v), Composes(v, w)
  PROVE  Kept(v, w)
  <1>. DEFINE s == v.sync
              j == w.tab.job
              doc == v.tab.job.doc
  <1>1. Parts(v) /\ Parts(w)
    BY PartsTyped
  <1>2. /\ Still(v, w) /\ w.row = v.row /\ w.ids = v.ids /\ v.row # None /\ s.pending = None /\ ~s.deleted
        /\ j.pc = "journal" /\ j.doc = None /\ j.base = w.sync
        /\ j.pend.expected = w.sync.server /\ j.pend.draft = v.row.draft /\ j.pend.local = v.row.rev
        /\ w.sync.server = 0 \/ ~Clean(v)
    BY DEF Composes, At
  <1>3. /\ w.sync.acked = s.acked /\ w.sync.pending = None /\ ~w.sync.deleted /\ w.sync.asked = s.asked
        /\ \/ w.sync.server = s.server
           \/ doc # None /\ w.sync.server = doc.rev
    BY <1>1, <1>2 DEF Composes, State, Parts
  <1>4. doc # None => doc.rev \in 1..Len(cloud)
    BY DEF Sound, JobOK
  <1>5. SyncOK(w.sync)
    BY <1>3, <1>4 DEF Sound, SyncOK
  <1>6. v.row # None /\ v.row.rev >= 1 /\ s.acked <= v.row.rev /\ ~s.asked /\ (s.server = 0 => s.acked = 0)
        /\ (s.acked = v.row.rev => v.row.draft = cloud[s.server].draft)
    BY <1>2 DEF Sound, BrowserOK
  <1>7. w.sync.server = 0 => w.sync.acked = 0
    BY <1>3, <1>4, <1>6
  <1>8. w.sync.acked < v.row.rev
    BY <1>1, <1>2, <1>3, <1>6, <1>7 DEF Clean, Parts
  <1>9. BrowserOK(w.row, w.sync)
    BY <1>1, <1>2, <1>3, <1>6, <1>7, <1>8 DEF BrowserOK, Parts
  <1>10. j.pend # None
    <2>1. j.pend = [id |-> 0, expected |-> w.sync.server, draft |-> v.row.draft, local |-> v.row.rev]
      BY DEF Composes, At
    <2>2. 0 \in 0..MaxIds
      BY BoundsAssumption
    <2>3. j.pend \in Request
      BY <1>1, <1>2, <2>1, <2>2 DEF Request, Parts
    <2>. QED  BY <2>3, NoneAssumption
  <1>11. JobOK(j)
    BY <1>1, <1>2, <1>3, <1>5, <1>10 DEF JobOK, Carrying, SyncOK, Parts
  <1>12. JournalOK(j, w.row, w.sync)
    BY <1>1, <1>2, <1>3, <1>6, <1>7, <1>8 DEF JournalOK, Parts
  <1>13. TabOK(w.tab, w.row, w.sync)
    BY <1>2, <1>12 DEF TabOK, Sound, Still
  <1>14. Committed(w.tab.op) /\ w.tab.home = v.tab.home
    BY <1>2 DEF Still, Sound
  <1>15. Passes(v, w) /\ Requesting(w) \subseteq Requesting(v)
    BY <1>2, <1>3 DEF Passes, Requesting, Carrying
  <1>. QED  BY <1>2, <1>5, <1>9, <1>11, <1>13, <1>14, <1>15, NothingNew DEF Kept, Sound

\* The put goes into the journal under an identifier of its own.
LEMMA PutsKept ==
  ASSUME Types, NEW v \in Views, NEW w \in Views, w.ids <= MaxIds, Sound(v), Puts(v, w)
  PROVE  Kept(v, w)
  <1>. DEFINE base == v.tab.job.base
              put == v.tab.job.pend
              q == w.sync.pending
              j == w.tab.job
  <1>1. Parts(v) /\ Parts(w)
    BY PartsTyped
  <1>2. /\ Still(v, w) /\ w.row = v.row /\ w.ids = v.ids + 1 /\ v.tab.job.pc = "journal" /\ v.sync.pending = None
        /\ ~v.sync.deleted /\ j.pc = "send" /\ j.doc = None /\ j.base = None /\ j.pend = [put EXCEPT !.id = v.ids + 1]
        /\ w.sync = [base EXCEPT !.pending = [put EXCEPT !.id = v.ids + 1]]
    BY DEF Puts, At
  <1>3. put # None /\ base # None /\ put.draft # None /\ put \in Request /\ base \in State
        /\ base.server <= Len(cloud) /\ put.expected <= Len(cloud) /\ JournalOK(v.tab.job, v.row, v.sync)
    <2>1. put \in Request \cup {None} /\ base \in State \cup {None}
      BY DEF Views, Editor, Job
    <2>. QED  BY <1>2, <2>1 DEF Sound, JobOK, Carrying, TabOK
  <1>4. q = j.pend /\ w.sync.server = base.server /\ w.sync.acked = base.acked /\ w.sync.deleted = base.deleted
        /\ w.sync.asked = base.asked
    BY <1>2, <1>3 DEF State
  <1>5. q.id = v.ids + 1 /\ q.expected = put.expected /\ q.draft = put.draft /\ q.local = put.local
    BY <1>2, <1>3, <1>4 DEF Request
  <1>6. q # None
    <2>. DEFINE n == v.ids + 1
    <2>1. n \in 0..MaxIds
      BY <1>1, <1>2, BoundsAssumption DEF Parts
    <2>. HIDE DEF n
    <2>2. [put EXCEPT !.id = n] \in Request
      BY <1>3, <2>1 DEF Request
    <2>3. q = [put EXCEPT !.id = n]
      BY <1>2, <1>4 DEF n
    <2>. QED  BY <2>2, <2>3, NoneAssumption
  <1>7. base.pending = None /\ ~base.deleted /\ ~base.asked /\ (base.server = 0 => base.acked = 0)
        /\ put.expected = base.server /\ base.acked < put.local /\ v.row # None
        /\ put.local <= v.row.rev /\ (put.local = v.row.rev => v.row.draft = put.draft)
    BY <1>2, <1>3 DEF Sound, JobOK, JournalOK
  <1>8. SyncOK(w.sync)
    BY <1>3, <1>4, <1>5 DEF SyncOK
  <1>. HIDE DEF q, base, put
  <1>9. base.acked \in Nat /\ put.local \in Nat /\ v.row.rev \in Nat /\ w.sync.pending = q
    BY <1>1, <1>3, <1>7 DEF Parts, base, put, q
  <1>10. BrowserOK(w.row, w.sync)
    <2>1. w.row = v.row
      BY <1>2
    <2>2. put.draft # None
      BY <1>3
    <2>3. v.row.rev >= 1 /\ base.acked < v.row.rev
      BY <1>7, <1>9
    <2>. QED  BY <1>4, <1>5, <1>6, <1>7, <1>9, <2>1, <2>2, <2>3 DEF BrowserOK
  <1>11. JobOK(j) /\ Requesting(w) = {q}
    BY <1>2, <1>3, <1>4, <1>5, <1>6, <1>9 DEF JobOK, Carrying, Requesting
  <1>12. TabOK(w.tab, w.row, w.sync) /\ Committed(w.tab.op) /\ w.tab.home = v.tab.home
    BY <1>2, <1>7 DEF TabOK, Sound, Still
  <1>13. Passes(v, w) /\ Fresh(v, w)
    BY <1>2, <1>5, <1>11 DEF Passes, Fresh
  <1>. QED  BY <1>8, <1>10, <1>11, <1>12, <1>13 DEF Kept, Sound

\* A deletion that the cloud answered is its last mutation, so nothing is owed.
LEMMA ErasesKept ==
  ASSUME Types, CloudOK, NEW v \in Views, NEW w \in Views, Sound(v), Erases(v, w)
  PROVE  Kept(v, w)
  <1>. DEFINE doc == v.tab.job.doc
  <1>1. Parts(v) /\ Parts(w)
    BY PartsTyped
  <1>2. /\ w.row = None /\ w.ids = v.ids /\ doc # None /\ doc.draft = None /\ w.sync.server = doc.rev
        /\ w.sync.acked = 0 /\ w.sync.pending = None /\ w.sync.deleted
    BY DEF Erases
  <1>3. doc.rev \in 1..Len(cloud) /\ cloud[doc.rev].draft = None
    BY <1>2 DEF Sound, JobOK, TabOK
  <1>4. cloud # <<>> /\ Latest.draft = None
    BY <1>3 DEF CloudOK, Types, Latest
  <1>5. SyncOK(w.sync) /\ BrowserOK(w.row, w.sync)
    BY <1>2, <1>3, <1>4 DEF SyncOK, BrowserOK
  <1>6. Committed(w.tab.op) /\ Quiet(w.tab.job) /\ w.tab.home = v.tab.home
    BY ClosesEditor DEF Erases
  <1>7. JobOK(w.tab.job) /\ Requesting(w) = {} /\ TabOK(w.tab, w.row, w.sync)
    BY <1>2, <1>6, QuietJobs
  <1>8. Passes(v, w) /\ Fresh(v, w)
    BY <1>2, <1>7, NothingNew DEF Passes
  <1>. QED  BY <1>5, <1>6, <1>7, <1>8 DEF Kept, Sound

\* The row that was taken from the cloud is acknowledged at that revision.
LEMMA CachesKept ==
  ASSUME Types, NEW v \in Views, NEW w \in Views, Sound(v), Caches(v, w)
  PROVE  Kept(v, w)
  <1>. DEFINE doc == v.tab.job.doc
              rev == IF v.row = None THEN 1 ELSE v.row.rev + 1
  <1>1. Parts(v) /\ Parts(w)
    BY PartsTyped
  <1>2. /\ w.row.rev = rev /\ w.row.draft = doc.draft /\ w.ids = v.ids /\ doc # None /\ doc.draft # None
        /\ ~v.sync.deleted /\ w.sync.server = doc.rev /\ w.sync.acked = rev /\ w.sync.pending = None
        /\ w.sync.deleted = v.sync.deleted /\ w.sync.asked = v.sync.asked
    BY DEF Caches
  <1>3. doc.rev \in 1..Len(cloud) /\ cloud[doc.rev].draft = doc.draft
    BY <1>2 DEF Sound, JobOK, TabOK
  <1>4. w.row # None
    <2>1. rev \in Nat /\ doc.draft \in Draft
      BY <1>1, <1>2 DEF Parts, Views, Editor, Job, Doc
    <2>2. w.row = [rev |-> rev, draft |-> doc.draft]
      BY DEF Caches
    <2>. HIDE DEF rev, doc
    <2>3. w.row \in Row
      BY <2>1, <2>2 DEF Row
    <2>. QED  BY <2>3, NoneAssumption
  <1>5. v.sync.asked => v.sync.deleted
    BY DEF Sound, BrowserOK
  <1>6. SyncOK(w.sync) /\ BrowserOK(w.row, w.sync)
    BY SMTT(30), <1>1, <1>2, <1>3, <1>4, <1>5 DEF SyncOK, BrowserOK, Parts
  <1>7. Committed(w.tab.op) /\ Quiet(w.tab.job) /\ w.tab.home = v.tab.home
        /\ (w.tab.known = v.tab.known \/ (w.row # None /\ w.tab.known = w.row.rev))
    BY ClosesEditor DEF Caches
  <1>8. w.tab.known <= w.row.rev
    BY <1>1, <1>2, <1>7 DEF Sound, TabOK, Parts
  <1>9. JobOK(w.tab.job) /\ Requesting(w) = {} /\ TabOK(w.tab, w.row, w.sync)
    BY <1>2, <1>4, <1>7, <1>8, QuietJobs
  <1>10. Passes(v, w) /\ Fresh(v, w)
    BY <1>1, <1>2, <1>4, <1>9, NothingNew DEF Passes, Parts
  <1>. QED  BY <1>6, <1>7, <1>9, <1>10 DEF Kept, Sound

\* Taking the refused put out of the journal leaves the row unacknowledged.
LEMMA RebasesKept ==
  ASSUME Types, NEW v \in Views, NEW w \in Views, Sound(v), Rebases(v, w)
  PROVE  Kept(v, w)
  <1>. DEFINE doc == v.tab.job.doc
  <1>1. Parts(v) /\ Parts(w)
    BY PartsTyped
  <1>2. /\ Still(v, w) /\ w.row = v.row /\ w.ids = v.ids /\ Quiet(w.tab.job) /\ doc # None /\ v.row # None
        /\ ~v.sync.deleted /\ (Dirty(v) \/ v.sync.pending # None)
    BY DEF Rebases, RemoteWins
  <1>3. w.sync.server = doc.rev /\ w.sync.pending = None /\ w.sync.acked = v.sync.acked
        /\ w.sync.deleted = v.sync.deleted /\ w.sync.asked = v.sync.asked
    BY <1>1 DEF Rebases, State, Parts
  <1>4. doc.rev \in 1..Len(cloud)
    BY <1>2 DEF Sound, JobOK
  <1>5. ~v.sync.asked /\ v.row.rev >= 1 /\ v.sync.acked < v.row.rev
    <2>1. v.row.rev \in Nat /\ v.sync.acked \in Nat /\ (v.sync.pending # None => v.sync.pending.local \in Nat)
      BY <1>1, <1>2 DEF Parts
    <2>2. ~v.sync.asked /\ v.row.rev >= 1 /\ v.sync.acked <= v.row.rev
          /\ (v.sync.pending # None => v.sync.acked < v.sync.pending.local /\ v.sync.pending.local <= v.row.rev)
      BY <1>2 DEF Sound, BrowserOK
    <2>3. Dirty(v) => v.sync.acked # v.row.rev
      BY DEF Dirty
    <2>. QED  BY <1>2, <2>1, <2>2, <2>3
  <1>6. SyncOK(w.sync) /\ BrowserOK(w.row, w.sync)
    BY <1>1, <1>2, <1>3, <1>4, <1>5 DEF SyncOK, BrowserOK, Parts
  <1>7. Committed(w.tab.op) /\ w.tab.home = v.tab.home /\ w.tab.known = v.tab.known
    BY <1>2 DEF Still, Sound
  <1>8. JobOK(w.tab.job) /\ Requesting(w) = {} /\ TabOK(w.tab, w.row, w.sync)
    BY <1>2, <1>3, <1>7, QuietJobs DEF Sound, TabOK
  <1>9. Passes(v, w) /\ Fresh(v, w)
    BY <1>2, <1>3, <1>8, NothingNew DEF Passes
  <1>. QED  BY <1>6, <1>7, <1>8, <1>9 DEF Kept, Sound

\* The answers and the refusals a tab holds are to the request its browser has journalled.
SameRequests(v) == \A r, q \in Requesting(v) : r.id = q.id => r = q

\* A journal entry with the identifier of the tab's request is that request.
LEMMA OwnPending ==
  ASSUME NEW v \in Views, SameRequests(v), v.tab.job.pc \in Carrying, v.tab.job.pend # None,
         PendingId(v) = v.tab.job.pend.id
  PROVE  v.sync.pending = v.tab.job.pend
  <1>1. v.sync.pending # None
    <2>1. v.tab.job.pend \in Request
      BY DEF Views, Editor, Job
    <2>2. v.tab.job.pend.id \in Nat
      BY <2>1, BoundsAssumption DEF Request
    <2>. QED  BY <2>2, NoneAssumption DEF PendingId
  <1>2. v.sync.pending \in Requesting(v) /\ v.tab.job.pend \in Requesting(v) /\ v.sync.pending.id = v.tab.job.pend.id
    BY <1>1 DEF Requesting, PendingId
  <1>. QED  BY <1>2 DEF SameRequests

\* A deletion under a new identifier.
LEMMA DeletionNew ==
  ASSUME NEW v \in Views, NEW rev \in Nat, v.ids + 1 <= MaxIds
  PROVE  /\ Deletion(v, rev) # None /\ Deletion(v, rev).id = v.ids + 1 /\ Deletion(v, rev).expected = rev
         /\ Deletion(v, rev).draft = None
  <1>1. v.ids + 1 \in 0..MaxIds
    BY BoundsAssumption DEF Views
  <1>2. Deletion(v, rev) \in Request
    BY <1>1 DEF Deletion, Request
  <1>. QED  BY <1>2, NoneAssumption DEF Deletion

\* An acknowledgement is of the text that was sent, so a row edited since is not acknowledged.
LEMMA AcksKept ==
  ASSUME Types, NEW v \in Views, NEW w \in Views, w.ids <= MaxIds, Sound(v), SameRequests(v), Acks(v, w)
  PROVE  Kept(v, w)
  <1>. DEFINE doc == v.tab.job.doc
              put == v.tab.job.pend
  <1>1. Parts(v) /\ Parts(w)
    BY PartsTyped
  <1>2. /\ w.row = v.row /\ v.tab.job.pc = "answered" /\ PendingId(v) = put.id /\ put.draft # None
        /\ w.sync.server = doc.rev /\ w.sync.acked = put.local
        /\ w.sync.deleted = v.sync.deleted /\ w.sync.asked = v.sync.asked
        /\ \/ ~v.sync.deleted /\ w.ids = v.ids /\ w.sync.pending = None
           \/ v.sync.deleted /\ w.ids = v.ids + 1 /\ w.sync.pending = Deletion(v, doc.rev)
    BY DEF Acks
  <1>3. put # None /\ doc # None /\ doc.draft = put.draft /\ doc.rev \in 1..Len(cloud) /\ cloud[doc.rev].draft = put.draft
    BY <1>2 DEF Sound, JobOK, TabOK, Carrying
  <1>4. v.sync.pending = put
    BY <1>2, <1>3, OwnPending DEF Carrying
  <1>5. Committed(w.tab.op) /\ Quiet(w.tab.job) /\ w.tab.home = v.tab.home
        /\ (w.tab.known = v.tab.known \/ (w.row # None /\ w.tab.known = w.row.rev))
    BY ClosesEditor DEF Acks
  <1>6. JobOK(w.tab.job) /\ Requesting(w) = {w.sync.pending} \ {None}
    BY <1>5, QuietJobs
  <1>7. TabOK(w.tab, w.row, w.sync)
    <2>1. /\ v.row # None => v.tab.known <= v.row.rev
          /\ v.row = None /\ ~v.sync.deleted => v.tab.known = 0
      BY DEF Sound, TabOK
    <2>. QED  BY <1>1, <1>2, <1>5, <2>1, QuietJobs DEF Parts
  <1>8. Passes(v, w)
    BY <1>2 DEF Passes
  <1>9. CASE ~v.sync.deleted
    <2>1. v.row # None /\ v.row.rev >= 1 /\ put.local <= v.row.rev /\ (put.local = v.row.rev => v.row.draft = put.draft)
          /\ ~v.sync.asked
      BY <1>3, <1>4, <1>9 DEF Sound, BrowserOK
    <2>2. w.ids = v.ids /\ w.sync.pending = None
      BY <1>2, <1>9
    <2>3. SyncOK(w.sync) /\ BrowserOK(w.row, w.sync)
      BY <1>2, <1>3, <1>9, <2>1, <2>2 DEF SyncOK, BrowserOK
    <2>4. Fresh(v, w)
      BY <1>6, <2>2, NothingNew
    <2>. QED  BY <1>5, <1>6, <1>7, <1>8, <2>3, <2>4 DEF Kept, Sound
  <1>10. CASE v.sync.deleted
    <2>1. v.row = None /\ w.ids = v.ids + 1 /\ w.sync.pending = Deletion(v, doc.rev)
      BY <1>2, <1>10 DEF Sound, BrowserOK
    <2>2. w.sync.pending # None /\ w.sync.pending.id = v.ids + 1 /\ w.sync.pending.expected = doc.rev
          /\ w.sync.pending.draft = None
      <3>1. doc.rev \in Nat /\ v.ids + 1 <= MaxIds
        BY <1>1, <1>3, <2>1 DEF Parts
      <3>. HIDE DEF doc
      <3>. QED  BY <2>1, <3>1, DeletionNew
    <2>3. SyncOK(w.sync) /\ BrowserOK(w.row, w.sync)
      BY <1>2, <1>3, <1>10, <2>1, <2>2 DEF SyncOK, BrowserOK
    <2>4. Fresh(v, w)
      BY <1>6, <2>1, <2>2 DEF Fresh
    <2>. QED  BY <1>5, <1>6, <1>7, <1>8, <2>3, <2>4 DEF Kept, Sound
  <1>. QED  BY <1>9, <1>10

LEMMA AsksAgainKept ==
  ASSUME Types, NEW v \in Views, NEW w \in Views, w.ids <= MaxIds, Sound(v), SameRequests(v), AsksAgain(v, w)
  PROVE  Kept(v, w)
  <1>. DEFINE doc == v.tab.job.doc
              req == v.tab.job.pend
  <1>1. Parts(v) /\ Parts(w)
    BY PartsTyped
  <1>2. /\ Still(v, w) /\ w.row = v.row /\ w.ids = v.ids + 1 /\ Quiet(w.tab.job) /\ v.tab.job.pc = "resolve"
        /\ PendingId(v) = req.id /\ (req.draft = None \/ v.sync.deleted)
    BY DEF AsksAgain
  <1>3. req # None /\ doc # None /\ doc.rev \in 1..Len(cloud)
    BY <1>2 DEF Sound, JobOK, Carrying
  <1>4. w.sync.server = doc.rev /\ w.sync.pending = Deletion(v, doc.rev) /\ w.sync.acked = v.sync.acked
        /\ w.sync.deleted = v.sync.deleted /\ w.sync.asked = v.sync.asked
    BY <1>1 DEF AsksAgain, State, Parts
  <1>5. v.sync.pending = req
    BY <1>2, <1>3, OwnPending DEF Carrying
  <1>6. v.sync.deleted /\ v.row = None
    BY <1>2, <1>3, <1>5 DEF Sound, BrowserOK
  <1>7. w.sync.pending # None /\ w.sync.pending.id = v.ids + 1 /\ w.sync.pending.expected = doc.rev
        /\ w.sync.pending.draft = None
    BY <1>1, <1>2, <1>3, <1>4, DeletionNew DEF Parts
  <1>8. SyncOK(w.sync) /\ BrowserOK(w.row, w.sync)
    BY <1>2, <1>3, <1>4, <1>6, <1>7 DEF SyncOK, BrowserOK
  <1>9. Committed(w.tab.op) /\ w.tab.home = v.tab.home /\ w.tab.known = v.tab.known
    BY <1>2 DEF Still, Sound
  <1>10. JobOK(w.tab.job) /\ Requesting(w) = {w.sync.pending} \ {None} /\ TabOK(w.tab, w.row, w.sync)
    BY <1>2, <1>4, <1>6, <1>9, QuietJobs
  <1>11. Passes(v, w) /\ Fresh(v, w)
    BY <1>2, <1>4, <1>7, <1>10 DEF Passes, Fresh
  <1>. QED  BY <1>8, <1>9, <1>10, <1>11 DEF Kept, Sound

LEMMA SyncsKept ==
  ASSUME Types, CloudOK, NEW v \in Views, NEW w \in Views, w.ids <= MaxIds, Sound(v), SameRequests(v), Syncs(v, w)
  PROVE  Kept(v, w)
  <1>1. CASE Sends(v, w) \/ Asks(v, w) \/ Adopts(v, w)
    BY <1>1, TurningKept
  <1>2. CASE Composes(v, w) \/ Puts(v, w) \/ Erases(v, w) \/ Caches(v, w)
    BY <1>2, ComposesKept, PutsKept, ErasesKept, CachesKept
  <1>. QED  BY <1>1, <1>2, RestsKept, RebasesKept, AcksKept, AsksAgainKept DEF Syncs, Resting

\* The editor's own steps leave the row and the journal alone.
LEMMA WorksKept ==
  ASSUME NEW v \in Views, NEW w \in Views, Sound(v), Works(v, w), Committed(w.tab.op)
  PROVE  Kept(v, w)
  <1>1. SyncOK(w.sync) /\ BrowserOK(w.row, w.sync) /\ Passes(v, w)
    BY RestedSound DEF Works, SameJournal
  <1>2. JobOK(w.tab.job) /\ TabOK(w.tab, w.row, w.sync)
    BY DEF Works, SameJob, Sound, JobOK, TabOK, JournalOK
  <1>3. Requesting(w) \subseteq Requesting(v)
    BY DEF Works, SameJob, Requesting
  <1>. QED  BY <1>1, <1>2, <1>3, NothingNew DEF Kept, Sound, Works

LEMMA EditorKept ==
  ASSUME NEW v \in Views, NEW w \in Views, Sound(v), EditorForm(v, w)
  PROVE  Kept(v, w)
  <1>1. Works(v, w)
    BY DEF EditorForm, Writes, Reviews, EndsOp, Claims, MaySend, Releases, Records, Relocks, Keeps
  <1>2. v.tab.op \in Op /\ Committed(v.tab.op)
    BY DEF Views, Editor, Sound
  <1>3. Committed(w.tab.op)
    <2>1. Writes(v, w) \/ EndsOp(v, w) \/ Releases(v, w) => Committed(w.tab.op)
      BY <1>2 DEF Writes, EndsOp, Releases, Committed, NoOp
    <2>2. Reviews(v, w) => Committed(w.tab.op)
      BY DEF Reviews, Committed
    <2>3. ASSUME NEW stage \in {"claim", "send", "record"}, NEW wait \in {"save", "no"},
                 w.tab.op = [v.tab.op EXCEPT !.stage = stage, !.wait = wait]
          PROVE  w.tab.op.stage = stage /\ w.tab.op.active = v.tab.op.active
      BY <1>2, <2>3 DEF Op
    <2>4. Claims(v, w) => Committed(w.tab.op)
      BY <1>2, <2>3 DEF Claims, Committed
    <2>5. MaySend(v, w) => Committed(w.tab.op)
      BY <1>2, <2>3 DEF MaySend, Committed
    <2>6. Records(v, w) => Committed(w.tab.op)
      BY <1>2, <2>3 DEF Records, Committed
    <2>. QED  BY <2>1, <2>2, <2>4, <2>5, <2>6 DEF EditorForm
  <1>. QED  BY <1>1, <1>3, WorksKept

\* A saved row has a local revision above all that were journalled or acknowledged.
LEMMA StoresKept ==
  ASSUME NEW v \in Views, NEW w \in Views, Sound(v), Stores(v, w)
  PROVE  Kept(v, w)
  <1>1. Parts(v) /\ Parts(w)
    BY PartsTyped
  <1>2. /\ v.tab.cur # None /\ ~v.sync.deleted /\ v.tab.known = (IF v.row = None THEN 0 ELSE v.row.rev)
        /\ w.row.rev = v.tab.known + 1 /\ w.sync = v.sync /\ w.ids = v.ids /\ w.tab.home = v.tab.home
        /\ w.tab.known = v.tab.known + 1 /\ w.tab.job = v.tab.job /\ w.tab.op = v.tab.op
    BY DEF Stores
  <1>3. w.row # None
    <2>. DEFINE n == v.tab.known + 1
    <2>1. n \in Nat /\ v.tab.cur \in Draft
      BY <1>1, <1>2 DEF Views, Editor, Parts
    <2>2. w.row = [rev |-> n, draft |-> v.tab.cur]
      BY DEF Stores
    <2>. HIDE DEF n
    <2>3. w.row \in Row
      BY <2>1, <2>2 DEF Row
    <2>. QED  BY <2>3, NoneAssumption
  <1>4. /\ ~v.sync.asked /\ (v.sync.server = 0 => v.sync.acked = 0) /\ v.sync.acked <= v.tab.known
        /\ v.sync.pending # None => /\ v.sync.pending.expected = v.sync.server /\ v.sync.pending.draft # None
                                    /\ v.sync.acked < v.sync.pending.local /\ v.sync.pending.local <= v.tab.known
    BY <1>2 DEF Sound, BrowserOK
  <1>5. SyncOK(w.sync) /\ BrowserOK(w.row, w.sync)
    BY <1>1, <1>2, <1>3, <1>4 DEF Sound, SyncOK, BrowserOK, Parts
  <1>6. v.tab.job.pc = "journal" => JournalOK(v.tab.job, w.row, w.sync)
    <2>1. v.tab.job.pc = "journal" => JournalOK(v.tab.job, v.row, v.sync) /\ v.tab.job.pend # None
      BY DEF Sound, TabOK, JobOK
    <2>. QED  BY <1>1, <1>2, <1>3, <2>1 DEF JournalOK, Parts
  <1>7. TabOK(w.tab, w.row, w.sync) /\ JobOK(w.tab.job) /\ Committed(w.tab.op)
    BY <1>1, <1>2, <1>3, <1>6 DEF Sound, TabOK, Parts
  <1>8. Passes(v, w)
    BY <1>1, <1>2, <1>3 DEF Passes, Parts
  <1>9. Fresh(v, w)
    BY <1>2, NothingNew DEF Requesting
  <1>. QED  BY <1>2, <1>5, <1>7, <1>8, <1>9 DEF Kept, Sound

\* Deleting the draft journals its deletion, unless the put under way comes first.
LEMMA RemovesKept ==
  ASSUME NEW v \in Views, NEW w \in Views, w.ids <= MaxIds, Sound(v), Removes(v, w)
  PROVE  Kept(v, w)
  <1>1. Parts(v) /\ Parts(w)
    BY PartsTyped
  <1>2. /\ w.row = None /\ w.sync.server = v.sync.server /\ w.sync.acked = v.sync.acked /\ w.sync.deleted /\ w.sync.asked
        /\ \/ v.sync.pending # None /\ w.sync.pending = v.sync.pending /\ w.ids = v.ids
           \/ v.sync.pending = None /\ w.sync.pending = Deletion(v, v.sync.server) /\ w.ids = v.ids + 1
        /\ w.tab.home = v.tab.home /\ w.tab.known = v.tab.known
        /\ Quiet(w.tab.job) /\ w.tab.op = v.tab.op
    BY DEF Removes, At, Quiet
  <1>3. JobOK(w.tab.job) /\ Requesting(w) = {w.sync.pending} \ {None} /\ TabOK(w.tab, w.row, w.sync)
    BY <1>2, QuietJobs
  <1>4. Committed(w.tab.op) /\ Passes(v, w)
    BY <1>2 DEF Passes, Sound
  <1>5. CASE v.sync.pending # None /\ w.sync.pending = v.sync.pending /\ w.ids = v.ids
    <2>1. SyncOK(w.sync) /\ BrowserOK(w.row, w.sync)
      BY <1>2, <1>5 DEF Sound, SyncOK, BrowserOK
    <2>2. Fresh(v, w)
      BY <1>3, <1>5, NothingNew DEF Requesting
    <2>. QED  BY <1>2, <1>3, <1>4, <2>1, <2>2 DEF Kept, Sound
  <1>6. CASE v.sync.pending = None /\ w.sync.pending = Deletion(v, v.sync.server) /\ w.ids = v.ids + 1
    <2>1. w.sync.pending # None /\ w.sync.pending.id = v.ids + 1 /\ w.sync.pending.expected = v.sync.server
          /\ w.sync.pending.draft = None
      <3>1. v.sync.server \in Nat /\ v.ids + 1 <= MaxIds
        BY <1>1, <1>6 DEF Parts
      <3>. QED  BY <1>6, <3>1, DeletionNew
    <2>2. SyncOK(w.sync) /\ BrowserOK(w.row, w.sync)
      BY <1>2, <2>1 DEF Sound, SyncOK, BrowserOK
    <2>3. Fresh(v, w)
      BY <1>3, <1>6, <2>1 DEF Fresh
    <2>. QED  BY <1>2, <1>3, <1>4, <2>2, <2>3 DEF Kept, Sound
  <1>. QED  BY <1>2, <1>5, <1>6

LEMMA PlainKept ==
  ASSUME Types, NEW v \in Views, NEW w \in Views, w.ids <= MaxIds, Sound(v), Plain(v, w)
  PROVE  Kept(v, w)
  <1>1. Parts(v) /\ Parts(w)
    BY PartsTyped
  <1>2. /\ SyncOK(v.sync) /\ BrowserOK(v.row, v.sync) /\ Passes(v, v)
        /\ v.row # None => v.tab.known <= v.row.rev
        /\ v.row = None /\ ~v.sync.deleted => v.tab.known = 0
    BY DEF Sound, TabOK, Passes
  <1>3. CASE Fails(v, w)
    <2>1. SyncOK(w.sync) /\ BrowserOK(w.row, w.sync) /\ Passes(v, w)
      BY <1>3, RestedSound DEF Fails
    <2>2. JobOK(w.tab.job) /\ TabOK(w.tab, w.row, w.sync) /\ Committed(w.tab.op)
      BY <1>3 DEF Fails, Sound, TabOK, JournalOK, SameJournal, Committed
    <2>3. Requesting(w) \subseteq Requesting(v)
      BY <1>3 DEF Fails, SameJournal, Requesting
    <2>. QED  BY <1>3, <2>1, <2>2, <2>3, NothingNew DEF Kept, Sound, Fails
  <1>4. ASSUME Begins(v, w, "read", "sync", None) \/ Begins(v, w, "listed", "refresh", Current), Committed(w.tab.op)
        PROVE  Kept(v, w)
    <2>1. w.row = v.row /\ w.sync = v.sync /\ w.ids = v.ids /\ w.tab.home = v.tab.home /\ w.tab.known = v.tab.known
          /\ w.tab.job.pc \in {"read", "listed"} /\ w.tab.job.pend = None /\ w.tab.job.base = None
          /\ w.tab.job.doc \in {None, Current}
      BY <1>4 DEF Begins, At
    <2>2. Current # None => /\ Current.rev \in 1..Len(cloud) /\ cloud[Current.rev].id = Current.id
                            /\ cloud[Current.rev].draft = Current.draft
      BY CurrentTyped
    <2>3. JobOK(w.tab.job) /\ TabOK(w.tab, w.row, w.sync) /\ Requesting(w) \subseteq Requesting(v)
      BY <1>2, <2>1, <2>2 DEF JobOK, TabOK, Carrying, Requesting
    <2>. QED  BY <1>2, <1>4, <2>1, <2>3, NothingNew DEF Kept, Sound, Passes
  <1>5. CASE BeginsSync(v, w)
    <2>1. Committed(w.tab.op)
      BY <1>5 DEF BeginsSync, Sound, Committed
    <2>. QED  BY <1>4, <1>5, <2>1 DEF BeginsSync
  <1>6. CASE BeginsRefresh(v, w)
    <2>1. Committed(w.tab.op)
      BY <1>6 DEF BeginsRefresh, Sound
    <2>. QED  BY <1>4, <1>6, <2>1 DEF BeginsRefresh
  <1>7. CASE Selects(v, w)
    <2>1. w.row = v.row /\ w.sync = v.sync /\ w.ids = v.ids /\ w.tab.home = v.tab.home /\ w.tab.known = v.row.rev
          /\ v.row # None /\ w.tab.job = v.tab.job /\ w.tab.op = v.tab.op
      BY <1>1, <1>2, <1>7 DEF Selects, Greater, Parts
    <2>2. JobOK(w.tab.job) /\ TabOK(w.tab, w.row, w.sync) /\ Requesting(w) \subseteq Requesting(v)
      BY <1>1, <2>1 DEF Sound, TabOK, Requesting, Parts
    <2>. QED  BY <1>2, <2>1, <2>2, NothingNew DEF Kept, Sound, Passes
  <1>8. CASE Retries(v, w)
    <2>1. w.row = v.row /\ w.sync = v.sync /\ w.ids = v.ids /\ w.tab.home = v.tab.home /\ w.tab.known = v.tab.known
          /\ w.tab.op = v.tab.op /\ w.tab.job.pend = v.tab.job.pend /\ w.tab.job.base = v.tab.job.base
          /\ v.tab.job.pc = "refused" /\ w.tab.job.pc = "resolve" /\ w.tab.job.doc = Current
      BY <1>8 DEF Retries, Carries
    <2>2. cloud # <<>>
      BY <2>1 DEF Sound, JobOK
    <2>3. Current # None /\ Current.rev \in 1..Len(cloud) /\ cloud[Current.rev].id = Current.id
          /\ cloud[Current.rev].draft = Current.draft
      BY <2>2, CurrentTyped
    <2>4. JobOK(w.tab.job) /\ TabOK(w.tab, w.row, w.sync) /\ Requesting(w) \subseteq Requesting(v)
      BY <1>2, <2>1, <2>3 DEF Sound, JobOK, TabOK, Carrying, Requesting
    <2>. QED  BY <1>2, <2>1, <2>4, NothingNew DEF Kept, Sound, Passes
  <1>. QED  BY <1>3, <1>5, <1>6, <1>7, <1>8, StoresKept, RemovesKept DEF Plain

LEMMA QuitsKept ==
  ASSUME NEW v \in Views, NEW w \in Views, Sound(v), Quits(v, w)
  PROVE  Kept(v, w)
  <1>1. Parts(v)
    BY PartsTyped
  <1>2. w.row = v.row /\ w.sync = v.sync /\ w.ids = v.ids /\ w.tab.home = v.tab.home /\ Quiet(w.tab.job)
        /\ w.tab.known \in {0, v.tab.known}
    BY DEF Quits, Quiet, NoJob
  <1>3. Committed(w.tab.op)
    BY DEF Quits, Sound, Committed, NoOp
  <1>4. JobOK(w.tab.job) /\ Requesting(w) \subseteq Requesting(v) /\ TabOK(w.tab, w.row, w.sync)
    <2>1. /\ v.row # None => v.tab.known <= v.row.rev
          /\ v.row = None /\ ~v.sync.deleted => v.tab.known = 0
      BY DEF Sound, TabOK
    <2>2. JobOK(w.tab.job) /\ Requesting(w) \subseteq Requesting(v)
      BY <1>2, QuietJobs DEF Requesting
    <2>3. w.row # None => w.tab.known <= w.row.rev
      BY <1>1, <1>2, <2>1 DEF Parts
    <2>. QED  BY <1>2, <2>1, <2>2, <2>3, QuietJobs
  <1>. QED  BY <1>2, <1>3, <1>4, NothingNew DEF Kept, Sound, Passes

-----------------------------------------------------------------------------
(* The cloud takes a mutation: what is known of the older ones stays.      *)

\* The cloud only grows, by mutations whose revision is the expected one.
LEMMA CloudGrows ==
  ASSUME SInv, NEW req \in Requests, Takes(req) \/ cloud' = cloud
  PROVE  /\ cloud' \in Seq(Entry) /\ Len(cloud) \in Nat /\ Len(cloud') \in Nat /\ Len(cloud') >= Len(cloud)
         /\ \A i \in 1..Len(cloud) : cloud'[i] = cloud[i]
         /\ \A i \in 1..Len(cloud') : \/ i \in 1..Len(cloud)
                                      \/ i = Len(cloud') /\ cloud'[i].id = req.id /\ cloud'[i].draft = req.draft
         /\ (cloud # <<>> /\ Latest.draft = None) => cloud' = cloud
         /\ Takes(req) => Len(cloud') = Len(cloud) + 1 /\ cloud'[Len(cloud')] = [id |-> req.id, draft |-> req.draft]
         /\ req \in Request /\ req.expected <= Len(cloud)
  <1>1. Types
    BY DEF SInv
  <1>2. req \in Request /\ req.expected <= Len(cloud)
    <2>1. \A b \in Browser : sync[b].pending # None => sync[b].pending \in Request /\ sync[b].pending.expected <= Len(cloud)
      BY <1>1 DEF Types, SyncOK, State
    <2>2. \A t \in Tab : tab[t].job.pc \in Carrying => tab[t].job.pend \in Request /\ tab[t].job.pend.expected <= Len(cloud)
      BY <1>1, ViewTyped DEF Types, JobOK, Job, Carrying
    <2>. QED  BY <1>1, <2>1, <2>2 DEF Requests, Types
  <1>3. cloud \in Seq(Entry) /\ Len(cloud) \in Nat
    BY <1>1 DEF Types
  <1>4. CASE cloud' = cloud /\ ~Takes(req)
    BY <1>2, <1>3, <1>4
  <1>5. CASE Takes(req)
    <2>. DEFINE e == [id |-> req.id, draft |-> req.draft]
    <2>1. e \in Entry
      BY <1>2 DEF Entry, Request
    <2>2. cloud' = Append(cloud, e) /\ (cloud # <<>> => Latest.draft # None)
      BY <1>5 DEF Takes, Accepted
    <2>3. e.id = req.id /\ e.draft = req.draft
      OBVIOUS
    <2>. HIDE DEF e
    <2>4. cloud' \in Seq(Entry) /\ Len(cloud') = Len(cloud) + 1 /\ cloud'[Len(cloud')] = e
          /\ \A i \in 1..Len(cloud) : cloud'[i] = cloud[i]
      BY <1>3, <2>1, <2>2
    <2>5. \A i \in 1..Len(cloud') : i \in 1..Len(cloud) \/ i = Len(cloud')
      BY <1>3, <2>4
    <2>. QED  BY <1>2, <1>3, <2>2, <2>3, <2>4, <2>5 DEF e
  <1>. QED  BY <1>4, <1>5

\* The parts of SInv that a step which only moves the cloud on has to keep.
LEMMA GrowthSound ==
  ASSUME SInv, NEW req \in Requests, Takes(req) \/ cloud' = cloud, row' = row, sync' = sync, used' = used
  PROVE  /\ CloudOK'
         /\ \A b \in Browser : SyncOK(sync[b])' /\ BrowserOK(row[b], sync[b])'
         /\ \A u \in Tab : tab'[u] = tab[u] => JobOK(tab[u].job)' /\ TabOK(tab[u], row[tab[u].home], sync[tab[u].home])'
         /\ \A r \in Requests : r.id <= used.ids
         /\ \A r, q \in Requests : r.id = q.id => r = q
         /\ \A r \in Requests : \A i \in DOMAIN cloud' : cloud'[i].id = r.id => cloud'[i].draft = r.draft
  <1>1. Types
    BY DEF SInv
  <1>2. /\ Len(cloud) \in Nat /\ Len(cloud') \in Nat /\ Len(cloud') >= Len(cloud)
        /\ \A i \in 1..Len(cloud) : cloud'[i] = cloud[i]
        /\ \A i \in 1..Len(cloud') : \/ i \in 1..Len(cloud)
                                     \/ i = Len(cloud') /\ cloud'[i].id = req.id /\ cloud'[i].draft = req.draft
        /\ (cloud # <<>> /\ Latest.draft = None) => cloud' = cloud
    BY CloudGrows
  <1>3. /\ DOMAIN cloud = 1..Len(cloud) /\ DOMAIN cloud' = 1..Len(cloud')
        /\ cloud # <<>> => Len(cloud) \in 1..Len(cloud)
        /\ cloud' = <<>> => cloud = <<>>
    <2>1. cloud \in Seq(Entry)
      BY <1>1 DEF Types
    <2>2. cloud' \in Seq(Entry)
      BY CloudGrows
    <2>. QED  BY <1>2, <2>1, <2>2
  <1>8. RequestsOK /\ CloudOK
    BY DEF SInv
  <1>4. CloudOK'
    <2>1. CASE cloud' = cloud
      BY <1>8, <2>1 DEF CloudOK
    <2>2. CASE cloud' # cloud
      <3>1. \A i \in 1..Len(cloud) : cloud[i].draft # None
        BY <1>2, <1>8, <2>2 DEF CloudOK, Latest
      <3>. QED  BY <1>2, <1>8, <3>1 DEF CloudOK, RequestsOK
    <2>. QED  BY <2>1, <2>2
  <1>5. ASSUME NEW b \in Browser
        PROVE  SyncOK(sync[b])' /\ BrowserOK(row[b], sync[b])'
    <2>1. SyncOK(sync[b]) /\ BrowserOK(row[b], sync[b]) /\ sync[b].server \in Nat /\ sync[b].acked \in Nat
          /\ (sync[b].pending # None => sync[b].pending.expected \in Nat)
          /\ (row[b] # None => row[b].rev \in Nat)
      BY <1>1 DEF SInv, Types, State, Request, Row
    <2>2. SyncOK(sync[b])'
      BY <1>2, <2>1 DEF SyncOK
    <2>3. row[b] # None /\ sync[b].acked = row[b].rev => sync[b].server \in 1..Len(cloud)
      BY <1>2, <2>1 DEF SyncOK, BrowserOK
    <2>4. sync[b].asked /\ sync[b].pending = None => cloud' = cloud
      BY <1>2, <1>3, <2>1 DEF BrowserOK
    <2>5. BrowserOK(row[b], sync[b])'
      BY <1>2, <1>3, <2>1, <2>3, <2>4 DEF BrowserOK, Latest
    <2>. QED  BY <2>2, <2>5
  <1>6. ASSUME NEW u \in Tab, tab'[u] = tab[u]
        PROVE  JobOK(tab[u].job)' /\ TabOK(tab[u], row[tab[u].home], sync[tab[u].home])'
    <2>. DEFINE j == tab[u].job
    <2>1. JobOK(j) /\ TabOK(tab[u], row[tab[u].home], sync[tab[u].home]) /\ j \in Job
      BY <1>1, ViewTyped DEF SInv, Types
    <2>2. /\ j.pend # None => j.pend.expected \in Nat
          /\ j.base # None => j.base.server \in Nat
      BY <2>1 DEF Job, Request, State
    <2>3. JobOK(j)'
      <3>1. cloud # <<>> => cloud' # <<>>
        BY <1>2, <1>3
      <3>. QED  BY <1>2, <1>6, <2>1, <2>2, <3>1 DEF JobOK
    <2>4. TabOK(tab[u], row[tab[u].home], sync[tab[u].home])'
      BY <1>2, <1>3, <1>6, <2>1 DEF TabOK, JobOK, JournalOK
    <2>. QED  BY <2>3, <2>4
  <1>7. \A r \in Requests : \A i \in DOMAIN cloud' : cloud'[i].id = r.id => cloud'[i].draft = r.draft
    BY <1>2, <1>8 DEF RequestsOK
  <1>. QED  BY <1>4, <1>5, <1>6, <1>7, <1>8 DEF RequestsOK

\* A request takes effect after its caller gave up.
LEMMA ArrivesLateSound ==
  ASSUME SInv, ArrivesLate
  PROVE  SInv'
  <1>1. PICK req \in late : Mutate(req) /\ late' = Alive(late \ {req}, Len(cloud'))
    BY DEF ArrivesLate
  <1>2. row' = row /\ sync' = sync /\ tab' = tab /\ posted' = posted /\ used' = used
    BY DEF ArrivesLate
  <1>3. req \in Requests /\ (Takes(req) \/ cloud' = cloud) /\ late' \subseteq late
    BY <1>1, MutateTakes DEF Requests, Alive
  <1>4. cloud' \in Seq(Entry) /\ Len(cloud) \in Nat /\ Len(cloud') \in Nat /\ Len(cloud') >= Len(cloud)
    BY <1>3, CloudGrows
  <1>5. /\ CloudOK'
        /\ \A b \in Browser : SyncOK(sync[b])' /\ BrowserOK(row[b], sync[b])'
        /\ \A u \in Tab : JobOK(tab[u].job)' /\ TabOK(tab[u], row[tab[u].home], sync[tab[u].home])'
        /\ \A r \in Requests : r.id <= used.ids
        /\ \A r, q \in Requests : r.id = q.id => r = q
        /\ \A r \in Requests : \A i \in DOMAIN cloud' : cloud'[i].id = r.id => cloud'[i].draft = r.draft
    BY <1>2, <1>3, GrowthSound
  <1>6. Types'
    <2>1. \A r \in late' : r \in Request /\ r.expected <= Len(cloud')
      BY <1>3, <1>4 DEF SInv, Types, Request
    <2>2. \A u \in Tab : (Publishing(u) => tab[u].op.active # None)'
      BY <1>2 DEF SInv, Types, Publishing
    <2>. QED  BY <1>2, <1>4, <1>5, <2>1, <2>2 DEF SInv, Types
  <1>7. Requests' \subseteq Requests
    BY <1>2, <1>3 DEF Requests
  <1>8. RequestsOK'
    BY <1>2, <1>5, <1>7 DEF RequestsOK
  <1>. QED  BY <1>5, <1>6, <1>8 DEF SInv

\* A request takes effect and is answered, or it is refused.
LEMMA SendSound ==
  ASSUME SInv, NEW t \in Tab, Send(t)
  PROVE  SInv'
  <1>. DEFINE v == View(t)
              req == tab[t].job.pend
              home == tab[t].home
  <1>1. Types
    BY DEF SInv
  <1>2. UNCHANGED posted /\ late' \subseteq late
    BY <1>1, SendForms
  <1>3. PICK w : Turned(t, w) /\ Sent(v, w)
    BY <1>1, SendForms
  <1>4. v \in Views /\ Sound(v) /\ Requesting(v) \subseteq Requests /\ v.tab = tab[t] /\ v.row = row[home]
        /\ v.sync = sync[home] /\ v.ids = used.ids /\ v.events = used.events /\ home \in Browser
    BY <1>1, ViewSound, ViewTyped
  <1>. HIDE DEF v
  <1>5. Carries(v, w) /\ tab[t].job.pc = "send"
    BY <1>3, <1>4 DEF Sent
  <1>6. /\ \A u \in Tab : tab'[u] = (IF u = t THEN w.tab ELSE tab[u]) /\ tab'[u].home = tab[u].home
        /\ row' \in [Browser -> Row \cup {None}] /\ sync' \in [Browser -> State] /\ tab' \in [Tab -> Editor]
        /\ used' \in [events : 0..MaxEvents, ids : 0..MaxIds] /\ used'.ids = w.ids /\ used'.events = w.events
        /\ \A b \in Browser : row'[b] = row[b] /\ sync'[b] = sync[b]
    BY <1>1, <1>3, <1>4, <1>5, Steps DEF Carries
  <1>7. row' = row /\ sync' = sync /\ used' = used
    BY <1>1, <1>4, <1>5, <1>6 DEF Types, Carries
  <1>8. req \in Requesting(v) /\ req \in Requests /\ req # None
    BY <1>4, <1>5 DEF Requesting, Carrying, Sound, JobOK
  <1>9. Takes(req) \/ cloud' = cloud
    BY <1>3, <1>4 DEF Sent
  <1>10. /\ cloud' \in Seq(Entry) /\ Len(cloud) \in Nat /\ Len(cloud') \in Nat /\ Len(cloud') >= Len(cloud)
         /\ Takes(req) => Len(cloud') = Len(cloud) + 1 /\ cloud'[Len(cloud')] = [id |-> req.id, draft |-> req.draft]
         /\ req \in Request /\ req.expected <= Len(cloud)
    BY <1>8, <1>9, CloudGrows
  <1>11. /\ CloudOK'
         /\ \A b \in Browser : SyncOK(sync[b])' /\ BrowserOK(row[b], sync[b])'
         /\ \A u \in Tab \ {t} : JobOK(tab[u].job)' /\ TabOK(tab[u], row[tab[u].home], sync[tab[u].home])'
         /\ \A r \in Requests : r.id <= used.ids
         /\ \A r, q \in Requests : r.id = q.id => r = q
         /\ \A r \in Requests : \A i \in DOMAIN cloud' : cloud'[i].id = r.id => cloud'[i].draft = r.draft
    BY <1>6, <1>7, <1>8, <1>9, GrowthSound
  <1>. HIDE DEF req
  <1>12. /\ w.tab.job.pend = req /\ w.tab.job.base = tab[t].job.base /\ w.tab.job.pc \in {"answered", "refused"}
         /\ \/ /\ w.tab.job.pc = "answered"
               /\ w.tab.job.doc # None /\ w.tab.job.doc.id = req.id /\ w.tab.job.doc.draft = req.draft
               /\ w.tab.job.doc.rev = Len(cloud') /\ cloud' # <<>>
               /\ cloud'[Len(cloud')].id = req.id /\ cloud'[Len(cloud')].draft = req.draft
            \/ w.tab.job.pc = "refused" /\ w.tab.job.doc = None /\ cloud' # <<>>
    <2>1. w.tab.job.pend = req /\ w.tab.job.base = tab[t].job.base /\ v.tab.job.pend = req
      BY <1>4, <1>5 DEF Carries, req
    <2>2. CASE /\ w.tab.job.pc = "answered" /\ w.tab.job.doc = [id |-> req.id, rev |-> Len(cloud'), draft |-> req.draft]
               /\ Takes(req) \/ (cloud' = cloud /\ Repeated(req))
      <3>1. [id |-> req.id, rev |-> Len(cloud'), draft |-> req.draft] \in Doc
        BY <1>10 DEF Request, Doc
      <3>2. w.tab.job.doc # None /\ w.tab.job.doc.id = req.id /\ w.tab.job.doc.draft = req.draft
            /\ w.tab.job.doc.rev = Len(cloud')
        BY <2>2, <3>1, NoneAssumption
      <3>3. cloud' # <<>> /\ cloud'[Len(cloud')].id = req.id
        BY <1>10, <2>2 DEF Repeated, Latest
      <3>4. cloud'[Len(cloud')].draft = req.draft
        <4>1. Len(cloud') \in DOMAIN cloud'
          BY <1>10, <3>3
        <4>. QED  BY <1>8, <1>11, <3>3, <4>1
      <3>. QED  BY <2>1, <2>2, <3>2, <3>3, <3>4
    <2>3. CASE w.tab.job.pc = "refused" /\ w.tab.job.doc = None /\ cloud' = cloud /\ ~Repeated(req) /\ ~Accepted(req)
      <3>1. cloud # <<>>
        BY <1>10, <2>3 DEF Accepted, Request
      <3>. QED  BY <2>1, <2>3, <3>1
    <2>. QED  BY <1>3, <2>1, <2>2, <2>3 DEF Sent
  <1>13. JobOK(w.tab.job)' /\ TabOK(tab[t], row[tab[t].home], sync[tab[t].home])' /\ Committed(w.tab.op)
    <2>1. /\ tab[t].job.base # None => tab[t].job.base.server <= Len(cloud) /\ tab[t].job.base.pending = None
                                       /\ tab[t].job.base.server \in Nat
          /\ req.expected \in Nat /\ Len(cloud') \in 1..Len(cloud')
      BY <1>1, <1>4, <1>10, <1>12, ViewTyped DEF Sound, JobOK, Job, State, Request
    <2>2. JobOK(w.tab.job)'
      BY <1>8, <1>10, <1>12, <2>1 DEF JobOK, Carrying
    <2>3. TabOK(tab[t], row[tab[t].home], sync[tab[t].home])'
      <3>1. TabOK(v.tab, v.row, v.sync) /\ w.tab.known = v.tab.known
        BY <1>4, <1>5 DEF Sound, Carries
      <3>2. /\ row'[home] # None => w.tab.known <= row'[home].rev
            /\ row'[home] = None /\ ~sync'[home].deleted => w.tab.known = 0
        BY <1>4, <1>6, <3>1 DEF TabOK
      <3>3. tab'[t] = w.tab /\ tab'[t].home = home
        BY <1>6
      <3>4. /\ w.tab.job.pc # "journal"
            /\ w.tab.job.doc # None => /\ cloud'[w.tab.job.doc.rev].id = w.tab.job.doc.id
                                       /\ cloud'[w.tab.job.doc.rev].draft = w.tab.job.doc.draft
        BY <1>12
      <3>. QED  BY <3>2, <3>3, <3>4 DEF TabOK
    <2>. QED  BY <1>4, <1>5, <2>2, <2>3 DEF Carries, Sound
  <1>14. \A u \in Tab : JobOK(tab[u].job)' /\ TabOK(tab[u], row[tab[u].home], sync[tab[u].home])'
    BY <1>6, <1>11, <1>13 DEF JobOK, TabOK
  <1>15. Types'
    <2>1. \A r \in late' : r \in Request /\ r.expected <= Len(cloud')
      BY <1>1, <1>2, <1>10 DEF Types, Request
    <2>2. \A u \in Tab : (Publishing(u) => tab[u].op.active # None)'
      BY <1>1, <1>6, <1>13 DEF Types, Publishing, Committed
    <2>. QED  BY <1>1, <1>2, <1>6, <1>10, <1>11, <1>14, <2>1, <2>2 DEF Types
  <1>16. Requests' \subseteq Requests
    <2>1. \A u \in Tab : tab'[u].job.pc \in Carrying => tab'[u].job.pend \in Requests
      BY <1>6, <1>8, <1>12 DEF Requests
    <2>. QED  BY <1>2, <1>7, <2>1 DEF Requests
  <1>17. RequestsOK'
    BY <1>7, <1>11, <1>16 DEF RequestsOK
  <1>. QED  BY <1>11, <1>14, <1>15, <1>17 DEF SInv

-----------------------------------------------------------------------------
(* The invariant of the sync, and what it gives.                           *)

LEMMA InitSound == Init => SInv
  <1>. SUFFICES ASSUME Init PROVE SInv
    OBVIOUS
  <1>1. PICK author \in Browser : row = [b \in Browser |-> IF b = author THEN [rev |-> 1, draft |-> First] ELSE None]
    BY DEF Init
  <1>2. First \in Draft /\ First.text \in Texts /\ First # None
    BY BoundsAssumption, NoneAssumption DEF First, Draft, Texts
  <1>3. [rev |-> 1, draft |-> First] \in Row /\ [rev |-> 1, draft |-> First] # None
    BY <1>2, NoneAssumption DEF Row
  <1>4. NoSync \in State /\ NoJob \in Job /\ NoOp \in Op
    BY NoneAssumption, BoundsAssumption DEF NoSync, State, NoOp, Op, NoJob, Job
  <1>5. PICK home \in [Tab -> Browser] :
          tab = [t \in Tab |-> [home |-> home[t], dirty |-> FALSE, job |-> NoJob, op |-> NoOp,
                                cur |-> IF row[home[t]] = None THEN None ELSE First,
                                known |-> IF row[home[t]] = None THEN 0 ELSE 1]]
    BY DEF Init
  <1>6. cloud = <<>> /\ sync = [b \in Browser |-> NoSync] /\ late = {} /\ posted = None /\ used = [events |-> 0, ids |-> 0]
    BY DEF Init
  <1>7. /\ row \in [Browser -> Row \cup {None}] /\ sync \in [Browser -> State] /\ tab \in [Tab -> Editor]
        /\ \A b \in Browser : sync[b] = NoSync /\ (row[b] # None => row[b] = [rev |-> 1, draft |-> First])
        /\ \A t \in Tab : /\ tab[t].job = NoJob /\ tab[t].op = NoOp /\ tab[t].home \in Browser
                          /\ tab[t].known = IF row[tab[t].home] = None THEN 0 ELSE 1
    BY <1>1, <1>2, <1>3, <1>4, <1>5, <1>6 DEF Editor
  <1>8. cloud \in Seq(Entry) /\ Len(cloud) = 0 /\ used \in [events : 0..MaxEvents, ids : 0..MaxIds]
    BY <1>6, BoundsAssumption
  <1>9. Types
    <2>1. JobOK(NoJob) /\ SyncOK(NoSync)
      BY <1>8 DEF JobOK, SyncOK, NoJob, NoSync, Carrying
    <2>2. \A t \in Tab : ~Publishing(t)
      BY <1>7 DEF Publishing, NoOp
    <2>. QED  BY <1>6, <1>7, <1>8, <2>1, <2>2 DEF Types
  <1>10. \A b \in Browser : BrowserOK(row[b], sync[b])
    BY <1>3, <1>7 DEF BrowserOK, NoSync
  <1>11. \A t \in Tab : TabOK(tab[t], row[tab[t].home], sync[tab[t].home])
    BY <1>3, <1>7 DEF TabOK, NoJob
  <1>12. Requests = {}
    BY <1>6, <1>7 DEF Requests, NoSync, NoJob, Carrying
  <1>. QED  BY <1>6, <1>9, <1>10, <1>11, <1>12 DEF SInv, RequestsOK, CloudOK

\* Every step of a tab but a sending has one of the forms, and leaves the cloud alone.
TabStep(t) == SyncStage(t) \/ PlainStep(t) \/ Working(t) \/ Timeout(t) \/ Crash(t)

TabForm(v, w) == Syncs(v, w) \/ Plain(v, w) \/ EditorForm(v, w) \/ Quits(v, w)

LEMMA TabStepForms ==
  ASSUME Types, NEW t \in Tab, TabStep(t)
  PROVE  /\ UNCHANGED cloud /\ late' \subseteq late \cup Leftover(t)
         /\ \E w : Turned(t, w) /\ TabForm(View(t), w) /\ (posted' = posted \/ Posts(t, w))
  BY SyncStageForms, PlainForms, WorkingForms, QuitForms DEF TabStep, TabForm

LEMMA ViewRequests ==
  ASSUME SInv, NEW t \in Tab
  PROVE  SameRequests(View(t))
  BY ViewSound DEF SInv, RequestsOK, SameRequests

\* A step of any form keeps what the tab works on sound, for the other tabs, too.
LEMMA FormKept ==
  ASSUME SInv, NEW t \in Tab, NEW w, Turned(t, w), TabForm(View(t), w)
  PROVE  Kept(View(t), w)
  <1>1. Types /\ CloudOK /\ View(t) \in Views /\ Sound(View(t)) /\ SameRequests(View(t))
    BY ViewSound, ViewRequests DEF SInv
  <1>2. w \in Views /\ w.ids <= MaxIds
    BY DEF Turned
  <1>. QED  BY <1>1, <1>2, SyncsKept, PlainKept, EditorKept, QuitsKept DEF TabForm

LEMMA TabStepSound ==
  ASSUME SInv, NEW t \in Tab, TabStep(t)
  PROVE  SInv'
  <1>1. Types
    BY DEF SInv
  <1>2. UNCHANGED cloud /\ late' \subseteq late \cup Leftover(t)
    BY <1>1, TabStepForms
  <1>3. PICK w : Turned(t, w) /\ TabForm(View(t), w) /\ (posted' = posted \/ Posts(t, w))
    BY <1>1, TabStepForms
  <1>4. posted' \in Texts \cup {None}
    <2>1. tab[t].op.stage = "send" => tab[t].op.active \in Draft
      BY <1>1, ViewTyped DEF Types, Publishing, Op
    <2>2. \A d \in Draft : d.text \in Texts
      BY DEF Draft
    <2>. QED  BY <1>1, <1>3, <2>1, <2>2 DEF Types, Posts
  <1>. QED  BY <1>2, <1>3, <1>4, FormKept, KeptSound

\* Next, in the groups the proof speaks of.
LEMMA NextSteps ==
  ASSUME Next
  PROVE  ArrivesLate \/ \E t \in Tab : TabStep(t) \/ Send(t)
  BY DEF Next, TabStep, SyncStage, PlainStep, Working

LEMMA StutterSound ==
  ASSUME SInv, UNCHANGED vars
  PROVE  SInv'
  <1>1. cloud' = cloud /\ late' = late /\ row' = row /\ sync' = sync /\ tab' = tab /\ posted' = posted /\ used' = used
    BY DEF vars
  <1>. QED  BY <1>1 DEF SInv, Types, BrowserOK, TabOK, RequestsOK, CloudOK, Requests, SyncOK, JobOK, Publishing, Latest

LEMMA SyncSound == Spec => []SInv
  <1>1. SInv /\ [Next]_vars => SInv'
    BY NextSteps, ArrivesLateSound, TabStepSound, SendSound, StutterSound
  <1>. QED  BY <1>1, InitSound, PTL DEF Spec

\* No variable leaves its type: in particular no sync, request or answer is made of a
\* draft, a journal or an answer that is not there.
THEOREM TypeCorrect == Spec => []TypeOK
  <1>1. SInv => TypeOK
    <2>. SUFFICES ASSUME Types PROVE TypeOK
      BY DEF SInv
    <2>1. \A i \in DOMAIN cloud : cloud[i] \in Entry
      BY DEF Types
    <2>2. \A r \in late : r \in Request
      BY DEF Types
    <2>3. \A b \in Browser : row[b] \in Row \cup {None} /\ sync[b] \in State
      BY DEF Types
    <2>4. \A t \in Tab : tab[t] \in Editor
      BY DEF Types
    <2>. QED  BY <2>1, <2>2, <2>3, <2>4 DEF TypeOK, Types, Entry
  <1>. QED  BY <1>1, SyncSound, PTL

\* A row that counts as acknowledged is what the cloud stored at the revision the
\* browser knows (cacheRemoteArticleDraft, the acknowledgement of a put in 'reconcile').
THEOREM AcknowledgedIsStored == Spec => []AckedMeansStored
  <1>1. SInv => AckedMeansStored
    BY DEF SInv, Types, SyncOK, BrowserOK, AckedMeansStored
  <1>. QED  BY <1>1, SyncSound, PTL

\* A draft the user deleted stays hidden in that browser, and its deletion is either the
\* cloud's last word or journalled (removeSyncedArticleDraft and 'reconcile').
THEOREM DeletionsPursued == Spec => []DeletionPursued
  <1>1. SInv => DeletionPursued
    BY DEF SInv, BrowserOK, DeletionPursued
  <1>. QED  BY <1>1, SyncSound, PTL

\* A step of the tab 't' does not lose the text of the row of its browser.
Rescues(v, w) ==
  \/ w.sync.asked
  \/ v.row.draft.text \in CloudTexts
  \/ w.sync.recovery # None /\ w.sync.recovery.text = v.row.draft.text
  \/ v.tab.dirty /\ ~w.tab.dirty /\ ((w.row # None /\ w.row.draft = v.tab.cur) \/ w.sync.recovery = v.tab.cur)

\* What is not dirty is in the cloud.
LEMMA CleanStored ==
  ASSUME Types, NEW v \in Views, Sound(v), v.row # None, ~Dirty(v)
  PROVE  v.row.draft.text \in CloudTexts
  <1>1. Parts(v)
    BY PartsTyped
  <1>2. v.row.rev = v.sync.acked
    BY DEF Dirty
  <1>3. v.sync.server \in 1..Len(cloud) /\ v.row.draft = cloud[v.sync.server].draft
    BY <1>1, <1>2 DEF Sound, SyncOK, BrowserOK, Parts
  <1>4. v.sync.server \in DOMAIN cloud /\ cloud[v.sync.server].draft # None
    BY <1>1, <1>3 DEF Types, Parts
  <1>. QED  BY <1>3, <1>4 DEF CloudTexts

\* What a step may take out of a row.
LEMMA RowsRescued ==
  ASSUME SInv, NEW v \in Views, NEW w \in Views, Sound(v), TabForm(v, w), v.row # None, w.row # v.row
  PROVE  Rescues(v, w)
  <1>1. Types
    BY DEF SInv
  <1>2. Parts(v) /\ Parts(w)
    BY PartsTyped
  <1>3. ASSUME Dirty(v) => Recovers(v, w, v.row.draft)
        PROVE  Rescues(v, w)
    BY <1>1, <1>2, <1>3, CleanStored DEF Rescues, Recovers, Parts
  <1>4. CASE Syncs(v, w)
    <2>1. CASE Erases(v, w)
      <3>1. CASE v.sync.asked
        BY <2>1, <3>1 DEF Erases, Rescues
      <3>2. CASE ~v.sync.asked
        BY <1>3, <2>1, <3>2 DEF Erases
      <3>. QED  BY <3>1, <3>2
    <2>2. CASE Caches(v, w)
      BY <1>3, <2>2 DEF Caches
    <2>3. Erases(v, w) \/ Caches(v, w)
      BY <1>4 DEF Syncs, Resting, Rests, Sends, Asks, Adopts, Turns, Composes, Puts, Rebases, Acks, AsksAgain
    <2>. QED  BY <2>1, <2>2, <2>3
  <1>5. CASE Plain(v, w)
    <2>1. CASE Stores(v, w)
      <3>1. w.row.draft = v.tab.cur /\ v.tab.dirty /\ ~w.tab.dirty
        BY <2>1 DEF Stores
      <3>2. w.row # None
        <4>. DEFINE n == v.tab.known + 1
        <4>1. n \in Nat /\ v.tab.cur \in Draft
          BY <1>2, <2>1 DEF Views, Editor, Parts, Stores
        <4>2. w.row = [rev |-> n, draft |-> v.tab.cur]
          BY <2>1 DEF Stores
        <4>. HIDE DEF n
        <4>3. w.row \in Row
          BY <4>1, <4>2 DEF Row
        <4>. QED  BY <4>3, NoneAssumption
      <3>. QED  BY <3>1, <3>2 DEF Rescues
    <2>2. CASE Removes(v, w)
      BY <2>2 DEF Removes, Rescues
    <2>3. Stores(v, w) \/ Removes(v, w)
      BY <1>5 DEF Plain, Fails, BeginsSync, BeginsRefresh, Begins, Selects, Retries, Carries
    <2>. QED  BY <2>1, <2>2, <2>3
  <1>6. ~EditorForm(v, w)
    BY DEF EditorForm, Writes, Reviews, EndsOp, Claims, MaySend, Releases, Records, Relocks, Keeps, Works
  <1>7. ~Quits(v, w)
    BY DEF Quits
  <1>. QED  BY <1>4, <1>5, <1>6, <1>7 DEF TabForm

\* No step but a save takes a text out of a row before the cloud has it, unless it keeps
\* it in the recovery copy (applyRemoteArticleDraftDeletion, cacheRemoteArticleDraft), the
\* user deleted the draft there, or the one copy goes to what the tab had not even saved.
THEOREM TextsRescued == Spec => UnsyncedTextRescued
  <1>. DEFINE Safe(b) ==
         (row[b] # None /\ (row'[b] = None \/ row'[b].draft.text # row[b].draft.text)) =>
           \/ sync'[b].asked
           \/ row[b].draft.text \in CloudTexts
           \/ sync'[b].recovery # None /\ sync'[b].recovery.text = row[b].draft.text
           \/ \E t \in Tab : /\ tab[t].home = b /\ tab[t].dirty /\ ~tab'[t].dirty
                             /\ \/ row'[b] # None /\ row'[b].draft = tab[t].cur
                                \/ sync'[b].recovery = tab[t].cur
  <1>1. ASSUME SInv, Next, NEW b \in Browser
        PROVE  Safe(b)
    <2>1. CASE ArrivesLate
      BY <2>1 DEF ArrivesLate
    <2>2. ASSUME NEW t \in Tab, Send(t)
          PROVE  Safe(b)
      <3>1. PICK w : Turned(t, w) /\ Sent(View(t), w)
        BY <1>1, <2>2, SendForms DEF SInv
      <3>2. w.tab.home = tab[t].home /\ w.row = row[tab[t].home]
        BY <1>1, <3>1, ViewSound DEF Sent, Carries
      <3>3. row'[b] = row[b]
        BY <1>1, <3>1, <3>2, Steps DEF SInv
      <3>. QED  BY <3>3
    <2>3. ASSUME NEW t \in Tab, TabStep(t)
          PROVE  Safe(b)
      <3>. DEFINE v == View(t)
      <3>1. PICK w : Turned(t, w) /\ TabForm(v, w)
        BY <1>1, <2>3, TabStepForms DEF SInv
      <3>2. v \in Views /\ Sound(v) /\ v.tab = tab[t] /\ v.row = row[tab[t].home] /\ v.sync = sync[tab[t].home]
        BY <1>1, ViewSound
      <3>3. Kept(v, w)
        BY <1>1, <3>1, FormKept
      <3>. HIDE DEF v
      <3>4. /\ w.tab.home = tab[t].home /\ w \in Views
            /\ row'[b] = (IF b = tab[t].home THEN w.row ELSE row[b])
            /\ sync'[b] = (IF b = tab[t].home THEN w.sync ELSE sync[b])
            /\ tab'[t] = w.tab
        BY <1>1, <3>1, <3>2, <3>3, Steps DEF SInv, Kept, Turned
      <3>5. CASE b # tab[t].home \/ v.row = None \/ w.row = v.row
        BY <3>2, <3>4, <3>5
      <3>6. CASE b = tab[t].home /\ v.row # None /\ w.row # v.row
        <4>1. Rescues(v, w)
          BY <1>1, <3>1, <3>2, <3>4, <3>6, RowsRescued
        <4>. QED  BY <3>2, <3>4, <3>6, <4>1 DEF Rescues
      <3>. QED  BY <3>5, <3>6
    <2>. QED  BY <1>1, <2>1, <2>2, <2>3, NextSteps
  <1>. HIDE DEF Safe
  <1>2. SInv /\ [Next]_vars => [\A b \in Browser : Safe(b)]_vars
    BY <1>1
  <1>. QED  BY <1>2, SyncSound, PTL DEF Spec, UnsyncedTextRescued, Safe

-----------------------------------------------------------------------------
(* Publication, while no two tabs share a browser: its only tab syncs a    *)
(* browser alone.                                                          *)

\* What ends a sync leaves nothing of it.
LEMMA ClosesAlone ==
  ASSUME NEW v \in Views, NEW w \in Views, Alone(v.tab, v.sync), Closes(v, w)
  PROVE  Alone(w.tab, w.sync)
  <1>1. Quiet(w.tab.job) /\ (w.tab.dirty => v.tab.dirty)
    BY DEF Closes, Edits
  <1>. QED  BY <1>1 DEF Closes, Alone, Quiet, Carrying

\* What goes on with a sync: its request is the one in the journal.
LEMMA StillAlone ==
  ASSUME NEW v, NEW w, Alone(v.tab, v.sync), Still(v, w),
         w.tab.job.pc \in Carrying => w.sync.pending = w.tab.job.pend,
         w.tab.job.pc = "journal" => w.tab.job.base = w.sync,
         w.tab.job.doc # None => w.sync.server <= w.tab.job.doc.rev,
         w.tab.job.pc \notin {"idle", "listed"}
  PROVE  Alone(w.tab, w.sync)
  BY DEF Alone, Still, SameJournal

\* A sync of the only tab leaves the journal as it will find it.
LEMMA SyncsAlone ==
  ASSUME Types, NEW v \in Views, NEW w \in Views, Sound(v), Alone(v.tab, v.sync), Syncs(v, w)
  PROVE  Alone(w.tab, w.sync)
  <1>1. CASE Resting(v, w) \/ Erases(v, w) \/ Caches(v, w) \/ Acks(v, w)
    BY <1>1, ClosesAlone DEF Resting, Rests, Erases, Caches, Acks
  <1>2. CASE Sends(v, w)
    BY <1>2, StillAlone DEF Sends, Turns, At, Carrying
  <1>3. CASE Asks(v, w)
    <2>1. w.tab.job.doc # None => w.sync.server <= w.tab.job.doc.rev
      BY <1>3, CurrentTyped DEF Asks, Turns, At, Sound, SyncOK
    <2>. QED  BY <1>3, <2>1, StillAlone DEF Asks, Turns, At, Carrying
  <1>4. CASE Adopts(v, w)
    BY <1>4, StillAlone DEF Adopts, Turns, At, Carrying
  <1>5. CASE Composes(v, w)
    BY <1>5, StillAlone DEF Composes, At, Carrying
  <1>6. CASE Puts(v, w)
    <2>. DEFINE put == [v.tab.job.pend EXCEPT !.id = v.ids + 1]
    <2>1. Still(v, w) /\ w.sync = [v.tab.job.base EXCEPT !.pending = put] /\ At(w.tab.job, "send", put, None, None)
          /\ v.tab.job.pc = "journal"
      BY <1>6 DEF Puts
    <2>2. v.tab.job.base \in State
      BY <2>1, PartsTyped DEF Sound, JobOK, Parts
    <2>. HIDE DEF put
    <2>3. w.sync.pending = put
      BY <2>1, <2>2 DEF State
    <2>. QED  BY <2>1, <2>3, StillAlone DEF At, Carrying
  <1>7. CASE Rebases(v, w) \/ AsksAgain(v, w)
    BY <1>7, StillAlone DEF Rebases, AsksAgain, Quiet, Carrying
  <1>. QED  BY <1>1, <1>2, <1>3, <1>4, <1>5, <1>6, <1>7 DEF Syncs

\* So do all other steps of the tab.
LEMMA AloneKept ==
  ASSUME Types, NEW v \in Views, NEW w \in Views, Sound(v), Alone(v.tab, v.sync), TabForm(v, w)
  PROVE  Alone(w.tab, w.sync)
  <1>1. v.tab.op \in Op
    BY DEF Views, Editor
  <1>2. CASE EditorForm(v, w)
    <2>1. Works(v, w)
      BY <1>2 DEF EditorForm, Writes, Reviews, EndsOp, Claims, MaySend, Releases, Records, Relocks, Keeps
    <2>2. \/ w.tab.op = v.tab.op /\ v.tab.op.stage = "none"
          \/ w.tab.op.wait \in {"no", "save"}
      <3>1. ASSUME NEW stage \in {"claim", "send", "record"}, NEW wait \in {"no", "save"},
                   w.tab.op = [v.tab.op EXCEPT !.stage = stage, !.wait = wait]
            PROVE  w.tab.op.wait \in {"no", "save"}
        BY <1>1, <3>1 DEF Op
      <3>2. Claims(v, w) \/ MaySend(v, w) \/ Records(v, w) => w.tab.op.wait \in {"no", "save"}
        BY <3>1 DEF Claims, MaySend, Records
      <3>. QED  BY <1>2, <3>2 DEF EditorForm, Writes, Reviews, EndsOp, Releases, NoOp
    <2>. QED  BY <2>1, <2>2 DEF Works, SameJob, Alone
  <1>3. CASE Plain(v, w)
    <2>1. CASE Fails(v, w) \/ Stores(v, w) \/ Selects(v, w)
      BY <2>1 DEF Fails, Stores, Selects, Alone, SameJournal
    <2>2. Current # None => v.sync.server <= Current.rev
      BY CurrentTyped DEF Sound, SyncOK
    <2>3. CASE BeginsSync(v, w)
      BY <2>3 DEF BeginsSync, Begins, At, Alone, Carrying
    <2>4. CASE BeginsRefresh(v, w)
      BY <2>2, <2>4 DEF BeginsRefresh, Begins, At, Alone, Carrying
    <2>5. CASE Removes(v, w)
      BY <2>5 DEF Removes, At, Alone, Carrying
    <2>6. CASE Retries(v, w)
      BY <2>2, <2>6 DEF Retries, Carries, Alone, Carrying
    <2>. QED  BY <1>3, <2>1, <2>3, <2>4, <2>5, <2>6 DEF Plain
  <1>4. CASE Quits(v, w)
    BY <1>4 DEF Quits, NoJob, NoOp, Alone, Carrying
  <1>. QED  BY <1>2, <1>3, <1>4, SyncsAlone DEF TabForm

-----------------------------------------------------------------------------
(* The drafts in play: where a step of a tab takes its drafts from.        *)

CloudDrafts == {cloud[i].draft : i \in DOMAIN cloud} \ {None}

Drafts(v) ==
  ((IF v.row = None THEN {} ELSE {v.row.draft}) \cup {v.tab.cur} \cup {r.draft : r \in Requesting(v)}
    \cup (IF v.tab.job.pc = "journal" THEN {v.tab.job.pend.draft} ELSE {})) \ {None}

Known(v) == Drafts(v) \cup CloudDrafts

\* The drafts a tab can take are in play.
LEMMA KnownInPlay ==
  ASSUME SInv, NEW t \in Tab
  PROVE  Known(View(t)) \subseteq InPlay
  <1>. DEFINE v == View(t)
  <1>1. /\ Requesting(v) \subseteq Requests /\ v.tab = tab[t] /\ v.row = row[tab[t].home] /\ tab[t].home \in Browser
    BY ViewSound, ViewTyped DEF SInv
  <1>. HIDE DEF v
  <1>2. Drafts(v) \subseteq InPlay
    BY <1>1 DEF Drafts, InPlay
  <1>. QED  BY <1>2 DEF Known, CloudDrafts, InPlay, v

\* A step of a tab brings no drafts into play but those it leaves in its browser.
LEMMA InPlayMoves ==
  ASSUME Types, NEW t \in Tab, NEW w, Turned(t, w), w.tab.home = tab[t].home,
         UNCHANGED cloud, late' \subseteq late \cup Leftover(t)
  PROVE  InPlay' \subseteq InPlay \cup Drafts(w)
  <1>1. /\ \A b \in Browser : row'[b] = IF b = tab[t].home THEN w.row ELSE row[b]
        /\ \A u \in Tab : tab'[u] = (IF u = t THEN w.tab ELSE tab[u])
    BY Steps
  <1>2. Requests' \subseteq Requests \cup Requesting(w)
    BY RequestsMove
  <1>3. \A r \in Requests' : r.draft \in InPlay \cup Drafts(w) \cup {None}
    BY <1>2 DEF InPlay, Drafts
  <1>4. \A b \in Browser : row'[b] # None => row'[b].draft \in InPlay \cup Drafts(w) \cup {None}
    BY <1>1 DEF InPlay, Drafts
  <1>5. \A u \in Tab : tab'[u].cur \in InPlay \cup Drafts(w) \cup {None}
    BY <1>1 DEF InPlay, Drafts
  <1>6. \A u \in Tab : tab'[u].job.pc = "journal" => tab'[u].job.pend.draft \in InPlay \cup Drafts(w) \cup {None}
    BY <1>1 DEF InPlay, Drafts
  <1>7. \A i \in DOMAIN cloud' : cloud'[i].draft \in InPlay \cup {None}
    BY DEF InPlay
  <1>8. InPlay' = ({cloud'[i].draft : i \in DOMAIN cloud'} \cup {r.draft : r \in Requests'}
                    \cup {row'[b].draft : b \in {a \in Browser : row'[a] # None}}
                    \cup {tab'[u].cur : u \in Tab}
                    \cup {tab'[u].job.pend.draft : u \in {x \in Tab : tab'[x].job.pc = "journal"}}) \ {None}
    BY DEF InPlay
  <1>. QED  BY <1>3, <1>4, <1>5, <1>6, <1>7, <1>8

\* A draft a step leaves is one the tab knows, has no claim, has text and claim of one it
\* knows, or is the open draft under the claim the tab makes.
Derived(v, w, d) ==
  \/ d \in Known(v)
  \/ d.claim = 0
  \/ d.lock # "open" /\ \E f \in Known(v) : d.claim = f.claim /\ d.text = f.text
  \/ Claims(v, w) /\ d = w.tab.cur

\* A finished sync leaves in the editor what was there, or what is in the row.
LEMMA ClosesDerived ==
  ASSUME NEW v \in Views, NEW w \in Views, Closes(v, w), Requesting(w) \subseteq Requesting(v) \cup {r \in Requesting(w) : r.draft = None},
         w.row # None => w.row.draft \in Known(v)
  PROVE  Drafts(w) \subseteq Known(v)
  <1>1. w.tab.cur \in {None, v.tab.cur} \/ (w.row # None /\ w.tab.cur = w.row.draft)
    BY DEF Closes, Edits
  <1>2. w.tab.job.pc # "journal"
    BY DEF Closes, Quiet
  <1>3. \A r \in Requesting(w) : r.draft \in Drafts(v) \cup {None}
    BY DEF Drafts
  <1>. QED  BY <1>1, <1>2, <1>3 DEF Drafts, Known

LEMMA DocKnown ==
  ASSUME Types, NEW v, Sound(v), v.tab.job.doc # None, v.tab.job.doc.draft # None
  PROVE  v.tab.job.doc.draft \in Known(v)
  BY DEF Types, Sound, JobOK, TabOK, Known, CloudDrafts

\* A sync makes no drafts: all it leaves were there.
LEMMA SyncsDerived ==
  ASSUME Types, NEW v \in Views, NEW w \in Views, Sound(v), Syncs(v, w)
  PROVE  Drafts(w) \subseteq Known(v)
  <1>1. CASE Resting(v, w)
    <2>1. Requesting(w) \subseteq Requesting(v)
      BY <1>1 DEF Resting, Rests, Closes, Quiet, SameJournal, Requesting, Carrying
    <2>2. w.row # None => w.row.draft \in Known(v)
      BY <1>1, PartsTyped DEF Resting, Rests, Known, Drafts, Parts
    <2>. QED  BY <1>1, <2>1, <2>2, ClosesDerived DEF Resting, Rests
  <1>2. CASE Sends(v, w) \/ Asks(v, w) \/ Adopts(v, w)
    <2>1. Turns(v, w) /\ w.tab.job.pc # "journal"
      BY <1>2 DEF Sends, Asks, Adopts, At
    <2>2. Requesting(w) \subseteq Requesting(v)
      BY <1>2 DEF Sends, Asks, Adopts, At, Turns, Requesting, Carrying
    <2>. QED  BY <2>1, <2>2 DEF Turns, Still, Drafts, Known
  <1>3. CASE Composes(v, w)
    <2>1. /\ w.row = v.row /\ v.row # None /\ w.tab.cur = v.tab.cur /\ w.tab.job.pc = "journal"
          /\ w.tab.job.pend.draft = v.row.draft
      BY <1>3 DEF Composes, Still, At
    <2>2. w.sync.pending = None
      BY <1>3 DEF Composes, Views, State
    <2>. QED  BY <2>1, <2>2 DEF Drafts, Known, Requesting, Carrying
  <1>4. CASE Puts(v, w)
    <2>. DEFINE put == [v.tab.job.pend EXCEPT !.id = v.ids + 1]
    <2>1. /\ w.row = v.row /\ w.tab.cur = v.tab.cur /\ w.tab.job.pc = "send" /\ v.tab.job.pc = "journal"
          /\ w.sync = [v.tab.job.base EXCEPT !.pending = put] /\ w.tab.job.pend = put
      BY <1>4 DEF Puts, Still, At
    <2>2. put.draft = v.tab.job.pend.draft /\ v.tab.job.base \in State
      BY <2>1, PartsTyped DEF Sound, JobOK, Parts, Views, Editor, Job, Request, Carrying
    <2>. HIDE DEF put
    <2>3. w.sync.pending = put
      BY <2>1, <2>2 DEF State
    <2>4. Requesting(w) \subseteq {put}
      BY <2>1, <2>3 DEF Requesting
    <2>. QED  BY <2>1, <2>2, <2>4 DEF Drafts, Known
  <1>5. CASE Erases(v, w)
    <2>1. Requesting(w) \subseteq Requesting(v)
      BY <1>5 DEF Erases, Closes, Quiet, Requesting, Carrying
    <2>. QED  BY <1>5, <2>1, ClosesDerived DEF Erases
  <1>6. CASE Caches(v, w)
    <2>1. Requesting(w) \subseteq Requesting(v)
      BY <1>6 DEF Caches, Closes, Quiet, Requesting, Carrying
    <2>2. w.row.draft \in Known(v)
      BY <1>6, DocKnown DEF Caches
    <2>. QED  BY <1>6, <2>1, <2>2, ClosesDerived DEF Caches
  <1>7. CASE Rebases(v, w) \/ AsksAgain(v, w)
    <2>1. /\ w.row = v.row /\ w.tab.cur = v.tab.cur /\ Quiet(w.tab.job)
      BY <1>7 DEF Rebases, AsksAgain, Still
    <2>2. w.sync.pending = None \/ w.sync.pending.draft = None
      <3>1. ASSUME NEW rev, NEW req, w.sync = [v.sync EXCEPT !.server = rev, !.pending = req]
            PROVE  w.sync.pending = req
        BY <3>1 DEF Views, State
      <3>2. Rebases(v, w) => w.sync.pending = None
        BY ZenonT(60), <3>1 DEF Rebases
      <3>3. ASSUME AsksAgain(v, w)
            PROVE  w.sync.pending.draft = None
        <4>. DEFINE req == Deletion(v, v.tab.job.doc.rev)
        <4>1. w.sync = [v.sync EXCEPT !.server = v.tab.job.doc.rev, !.pending = req]
          BY <3>3 DEF AsksAgain
        <4>2. req.draft = None
          BY DEF Deletion
        <4>. HIDE DEF req
        <4>. QED  BY <3>1, <4>1, <4>2
      <3>. QED  BY <1>7, <3>2, <3>3
    <2>. QED  BY <2>1, <2>2 DEF Drafts, Known, Requesting, Carrying, Quiet
  <1>8. CASE Acks(v, w)
    <2>1. Requesting(w) \subseteq Requesting(v) \cup {r \in Requesting(w) : r.draft = None}
      BY <1>8 DEF Acks, Closes, Quiet, Requesting, Carrying, Deletion
    <2>2. w.row # None => w.row.draft \in Known(v)
      BY <1>8, PartsTyped DEF Acks, Known, Drafts, Parts
    <2>. QED  BY <1>8, <2>1, <2>2, ClosesDerived DEF Acks
  <1>. QED  BY <1>1, <1>2, <1>3, <1>4, <1>5, <1>6, <1>7, <1>8 DEF Syncs

\* The editor's own steps change the open draft at most.
LEMMA WorksDrafts ==
  ASSUME NEW v, NEW w, Works(v, w)
  PROVE  Drafts(w) \subseteq Drafts(v) \cup {w.tab.cur}
  <1>1. Requesting(w) = Requesting(v)
    BY DEF Works, SameJob, Requesting
  <1>. QED  BY <1>1 DEF Works, SameJob, Drafts

\* A new draft is an edit of an open one, or changes the lock of the editor's draft.
LEMMA FormDerived ==
  ASSUME Types, NEW v \in Views, NEW w \in Views, Sound(v), TabForm(v, w),
         \A f \in Known(v) : f.lock = "open" => f.claim = 0, NEW d \in Drafts(w)
  PROVE  Derived(v, w, d)
  <1>1. CASE Syncs(v, w)
    BY <1>1, SyncsDerived DEF Derived
  <1>2. CASE EditorForm(v, w)
    <2>1. Works(v, w)
      BY <1>2 DEF EditorForm, Writes, Reviews, EndsOp, Claims, MaySend, Releases, Records, Relocks, Keeps
    <2>2. d \in Drafts(v) \/ d = w.tab.cur
      BY <2>1, WorksDrafts
    <2>3. CASE Reviews(v, w) \/ EndsOp(v, w) \/ MaySend(v, w)
      BY <2>2, <2>3 DEF Reviews, EndsOp, MaySend, Keeps, Derived, Known, Drafts
    <2>4. CASE Claims(v, w)
      BY <2>2, <2>4 DEF Derived, Known
    <2>5. CASE Releases(v, w)
      BY <2>2, <2>5 DEF Releases, Relocks, Derived, Known
    <2>6. v.tab.cur # None => v.tab.cur \in Known(v)
      BY DEF Known, Drafts
    <2>7. CASE Writes(v, w)
      BY <2>2, <2>6, <2>7 DEF Writes, Locked, Derived, Known
    <2>8. CASE Records(v, w)
      BY <2>2, <2>6, <2>8 DEF Records, Relocks, Derived, Known
    <2>. QED  BY <1>2, <2>3, <2>4, <2>5, <2>7, <2>8 DEF EditorForm
  <1>3. CASE Plain(v, w)
    <2>1. CASE Fails(v, w)
      BY <2>1 DEF Fails, SameJournal, Derived, Known, Drafts, Requesting
    <2>2. CASE Stores(v, w)
      BY <2>2 DEF Stores, Derived, Known, Drafts, Requesting
    <2>3. CASE BeginsSync(v, w) \/ BeginsRefresh(v, w)
      BY <2>3 DEF BeginsSync, BeginsRefresh, Begins, At, Derived, Known, Drafts, Requesting, Carrying
    <2>4. CASE Selects(v, w)
      BY <2>4 DEF Selects, Derived, Known, Drafts, Requesting
    <2>5. CASE Removes(v, w)
      BY <2>5 DEF Removes, At, Derived, Known, Drafts, Requesting, Carrying, Deletion
    <2>6. CASE Retries(v, w)
      BY <2>6 DEF Retries, Carries, Derived, Known, Drafts, Requesting, Carrying
    <2>. QED  BY <1>3, <2>1, <2>2, <2>3, <2>4, <2>5, <2>6 DEF Plain
  <1>4. CASE Quits(v, w)
    BY <1>4 DEF Quits, NoJob, Derived, Known, Drafts, Requesting, Carrying
  <1>. QED  BY <1>1, <1>2, <1>3, <1>4 DEF TabForm

-----------------------------------------------------------------------------
(* The publications under way, and the claims they make.                   *)

SameOp(o, p) == p.stage = o.stage /\ p.claim = o.claim /\ p.active = o.active

\* A publication stays, begins with a new claim, gets further with it, or ends.
OpMoves(v, w) ==
  \/ SameOp(v.tab.op, w.tab.op)
  \/ w.tab.op.stage \in {"none", "record"}
  \/ Reviews(v, w)
  \/ /\ Claims(v, w) /\ v.tab.op.stage = "review" /\ w.tab.op.stage = "claim" /\ w.tab.op.wait = "save"
     /\ w.tab.op.claim = v.tab.op.claim
  \/ /\ MaySend(v, w) /\ v.tab.op.stage = "claim" /\ w.tab.op.stage = "send"
     /\ w.tab.op.claim = v.tab.op.claim /\ w.tab.op.active = v.tab.op.active

\* How a publication goes on: reviewed under a new claim, claimed, sent, recorded or ended.
LEMMA FormOps ==
  ASSUME NEW v \in Views, NEW w \in Views, TabForm(v, w)
  PROVE  OpMoves(v, w) /\ w.events \in {v.events, v.events + 1} /\ (Reviews(v, w) => w.events = v.events + 1)
  <1>1. v.tab.op \in Op
    BY DEF Views, Editor
  <1>2. CASE EditorForm(v, w)
    <2>1. ASSUME NEW stage \in {"claim", "send", "record"}, NEW wait \in {"no", "save"},
                 w.tab.op = [v.tab.op EXCEPT !.stage = stage, !.wait = wait]
          PROVE  /\ w.tab.op.stage = stage /\ w.tab.op.wait = wait
                 /\ w.tab.op.claim = v.tab.op.claim /\ w.tab.op.active = v.tab.op.active
      BY <1>1, <2>1 DEF Op
    <2>2. CASE Claims(v, w)
      <3>1. /\ w.tab.op.stage = "claim" /\ w.tab.op.wait = "save"
            /\ w.tab.op.claim = v.tab.op.claim
        BY <2>1, <2>2 DEF Claims
      <3>. QED  BY <2>2, <3>1 DEF Claims, OpMoves, Relocks, Reviews, Keeps
    <2>3. CASE MaySend(v, w)
      <3>1. /\ w.tab.op.stage = "send"
            /\ w.tab.op.claim = v.tab.op.claim /\ w.tab.op.active = v.tab.op.active
        BY <2>1, <2>3 DEF MaySend
      <3>. QED  BY <2>3, <3>1 DEF MaySend, OpMoves, Reviews, Keeps
    <2>4. CASE Records(v, w)
      <3>1. w.tab.op.stage = "record"
        BY <2>1, <2>4 DEF Records
      <3>. QED  BY <2>4, <3>1 DEF Records, OpMoves, Relocks, Reviews, Keeps
    <2>5. CASE Writes(v, w) \/ EndsOp(v, w) \/ Releases(v, w)
      BY <2>5 DEF Writes, EndsOp, Releases, Relocks, NoOp, OpMoves, SameOp, Reviews
    <2>6. CASE Reviews(v, w)
      BY <2>6 DEF Reviews, OpMoves
    <2>. QED  BY <1>2, <2>2, <2>3, <2>4, <2>5, <2>6 DEF EditorForm
  <1>3. CASE Syncs(v, w)
    <2>1. SameOp(v.tab.op, w.tab.op) /\ w.events = v.events
      BY <1>3 DEF Syncs, Resting, Rests, Sends, Asks, Adopts, Turns, Still, Composes, Puts, Erases, Caches, Rebases, Acks, AsksAgain,
                  Closes, SameOp
    <2>. QED  BY <2>1 DEF OpMoves, Reviews, Views
  <1>4. CASE Plain(v, w)
    <2>1. SameOp(v.tab.op, w.tab.op) /\ (w.events = v.events \/ Removes(v, w))
      BY <1>4 DEF Plain, Fails, Stores, BeginsSync, BeginsRefresh, Begins, Selects, Removes, Retries, Carries, SameOp
    <2>2. w.events \in {v.events, v.events + 1} /\ ~Reviews(v, w)
      <3>1. Removes(v, w) => w.events = v.events + 1 /\ ~Reviews(v, w)
        BY DEF Removes, Reviews
      <3>2. w.events = v.events => ~Reviews(v, w)
        BY DEF Reviews, Views
      <3>. QED  BY <2>1, <3>1, <3>2
    <2>. QED  BY <2>1, <2>2 DEF OpMoves
  <1>5. CASE Quits(v, w)
    BY <1>5 DEF Quits, NoOp, OpMoves, SameOp, Reviews
  <1>. QED  BY <1>2, <1>3, <1>4, <1>5 DEF TabForm

\* Where the article may be sent, the cloud holds the claim, on the text that is sent.
LEMMA SentIsClaimed ==
  ASSUME SInv, DraftsOK, OpsOK, \A c \in Guarded : Loyal(c), ClaimsStored, NEW t \in Tab, tab[t].op.stage = "send", Free
  PROVE  cloud # <<>> /\ Follows(Latest.draft, tab[t].op.claim) /\ Latest.draft.text = tab[t].op.active.text
  <1>. DEFINE c == tab[t].op.claim
  <1>1. PICK i \in DOMAIN cloud : Follows(cloud[i].draft, c) /\ cloud[i].draft.text = tab[t].op.active.text
    BY DEF ClaimsStored, ClaimStored
  <1>2. cloud # <<>> /\ i <= Len(cloud) /\ Len(cloud) \in DOMAIN cloud
    BY <1>1 DEF SInv, Types
  <1>3. Loyal(c)
    BY DEF Guarded, Claiming
  <1>. HIDE DEF c
  <1>4. Follows(Latest.draft, c)
    BY <1>1, <1>2, <1>3 DEF Free, Latest, Loyal
  <1>5. c # 0
    BY DEF OpsOK, Publishing, c
  <1>6. cloud[i].draft \in InPlay /\ Latest.draft \in InPlay
    BY <1>1, <1>2, <1>4 DEF InPlay, Latest, Follows
  <1>. QED  BY <1>1, <1>2, <1>4, <1>5, <1>6 DEF DraftsOK, Follows, c

\* A step of the tab t as its form says, which leaves the cloud alone.
Moves(t, w) ==
  /\ Turned(t, w) /\ TabForm(View(t), w)
  /\ UNCHANGED cloud /\ late' \subseteq late \cup Leftover(t) /\ (posted' = posted \/ Posts(t, w))

\* What a step of a tab changes, where browsers have one tab each.
LEMMA Moved ==
  ASSUME PInv, NEW t \in Tab, NEW w, Moves(t, w), NEW v, v = View(t)
  PROVE  /\ v \in Views /\ w \in Views /\ Sound(v) /\ Sound(w) /\ Alone(v.tab, v.sync)
         /\ v.tab = tab[t] /\ v.row = row[tab[t].home] /\ v.sync = sync[tab[t].home] /\ v.events = used.events
         /\ w.tab.home = tab[t].home /\ tab[t].home \in Browser
         /\ \A b \in Browser : /\ row'[b] = IF b = tab[t].home THEN w.row ELSE row[b]
                               /\ sync'[b] = IF b = tab[t].home THEN w.sync ELSE sync[b]
         /\ \A u \in Tab : tab'[u] = (IF u = t THEN w.tab ELSE tab[u]) /\ tab'[u].home = tab[u].home
         /\ tab'[t] = w.tab
         /\ used'.events = w.events
         /\ Known(v) \subseteq InPlay /\ InPlay' \subseteq InPlay \cup Drafts(w)
         /\ Requests' \subseteq Requests \cup Requesting(w)
  <1>1. SInv /\ Types /\ Alone(tab[t], sync[tab[t].home])
    BY DEF PInv, SInv
  <1>2. /\ v \in Views /\ Sound(v) /\ v.tab = tab[t] /\ v.row = row[tab[t].home] /\ v.sync = sync[tab[t].home]
        /\ v.events = used.events /\ tab[t].home \in Browser
    BY <1>1, ViewSound, ViewTyped
  <1>3. Turned(t, w) /\ TabForm(v, w) /\ UNCHANGED cloud /\ late' \subseteq late \cup Leftover(t)
    BY DEF Moves
  <1>4. w \in Views /\ Sound(w) /\ w.tab.home = tab[t].home
    BY <1>1, <1>2, <1>3, FormKept DEF Kept, Turned
  <1>5. Known(v) \subseteq InPlay
    BY <1>1, KnownInPlay
  <1>. QED  BY <1>1, <1>2, <1>3, <1>4, <1>5, Steps, InPlayMoves, RequestsMove

\* The numbers that count.
LEMMA Counted ==
  ASSUME SInv, DraftsOK, OpsOK
  PROVE  /\ used.events \in Nat /\ \A d \in InPlay : d.claim \in Nat /\ d.claim <= used.events
         /\ \A t \in Tab : Publishing(t) => tab[t].op.claim \in Nat /\ tab[t].op.claim # 0 /\ tab[t].op.claim <= used.events
  <1>1. Types /\ used.events \in Nat
    BY BoundsAssumption DEF SInv, Types
  <1>2. \A r \in Requests : r \in Request
    <2>1. \A b \in Browser : sync[b].pending # None => sync[b].pending \in Request
      BY <1>1 DEF Types, State
    <2>2. \A t \in Tab : tab[t].job.pc \in Carrying => tab[t].job.pend \in Request
      BY <1>1, ViewTyped DEF Types, JobOK, Job, Carrying
    <2>. QED  BY <1>1, <2>1, <2>2 DEF Requests, Types
  <1>3. \A d \in InPlay : d \in Draft
    <2>1. \A i \in DOMAIN cloud : cloud[i].draft \in Draft \cup {None}
      <3>1. \A i \in DOMAIN cloud : cloud[i] \in Entry
        BY <1>1 DEF Types
      <3>. QED  BY <3>1 DEF Entry
    <2>2. \A r \in Requests : r.draft \in Draft \cup {None}
      BY <1>2 DEF Request
    <2>3. \A b \in Browser : row[b] # None => row[b].draft \in Draft
      BY <1>1 DEF Types, Row
    <2>4. \A t \in Tab : tab[t].cur \in Draft \cup {None}
      BY <1>1, ViewTyped DEF Editor
    <2>5. \A t \in Tab : tab[t].job.pc = "journal" => tab[t].job.pend.draft \in Draft \cup {None}
      BY <1>1, ViewTyped DEF Types, JobOK, Job, Carrying, Request
    <2>. QED  BY <2>1, <2>2, <2>3, <2>4, <2>5 DEF InPlay
  <1>4. \A d \in InPlay : d.claim \in Nat /\ d.claim <= used.events
    BY <1>3, BoundsAssumption DEF DraftsOK, Draft
  <1>5. \A t \in Tab : Publishing(t) => tab[t].op.claim \in 1..used.events
    BY DEF OpsOK
  <1>. QED  BY <1>1, <1>4, <1>5

\* A claim stands for one text, in every copy of the draft there is.
LEMMA DraftsKept ==
  ASSUME PInv, NEW t \in Tab, NEW w, Moves(t, w)
  PROVE  DraftsOK'
  <1>. DEFINE v == View(t)
  <1>1. /\ v \in Views /\ w \in Views /\ Sound(v) /\ v.tab = tab[t] /\ v.events = used.events /\ used'.events = w.events
        /\ Known(v) \subseteq InPlay /\ InPlay' \subseteq InPlay \cup Drafts(w)
    BY Moved
  <1>2. Types /\ TabForm(v, w) /\ DraftsOK /\ OpsOK /\ SInv
    BY DEF PInv, SInv, Moves
  <1>. HIDE DEF v
  <1>3. /\ used.events \in Nat /\ w.events \in Nat /\ w.events >= used.events
        /\ \A d \in InPlay : d.claim \in Nat /\ d.claim <= used.events
    BY <1>1, <1>2, Counted, FormOps DEF Views
  <1>4. ASSUME NEW d \in InPlay'
        PROVE  \/ d \in InPlay
               \/ d.claim = 0
               \/ d.lock # "open" /\ \E f \in InPlay : d.claim = f.claim /\ d.text = f.text
               \/ Claims(v, w) /\ d = w.tab.cur
    <2>1. \A f \in Known(v) : f.lock = "open" => f.claim = 0
      BY <1>1, <1>2 DEF DraftsOK
    <2>2. d \in Drafts(w) => Derived(v, w, d)
      BY <1>1, <1>2, <2>1, FormDerived
    <2>. QED  BY <1>1, <1>4, <2>2 DEF Derived
  <1>5. Claims(v, w) => /\ w.tab.cur.lock # "open" /\ w.tab.cur.claim # 0 /\ w.tab.cur.claim <= used.events
                        /\ \A f \in InPlay : f.claim # w.tab.cur.claim
    <2>. SUFFICES ASSUME Claims(v, w)
                  PROVE  /\ w.tab.cur.lock # "open" /\ w.tab.cur.claim # 0 /\ w.tab.cur.claim <= used.events
                         /\ \A f \in InPlay : f.claim # w.tab.cur.claim
      OBVIOUS
    <2>1. w.tab.cur.lock = "claimed" /\ w.tab.cur.claim = tab[t].op.claim /\ tab[t].op.stage = "review"
      BY <1>1 DEF Claims, Relocks
    <2>. QED  BY <1>2, <2>1, Counted DEF OpsOK, Publishing
  <1>6. ASSUME NEW d \in InPlay'
        PROVE  d.claim <= w.events /\ (d.lock = "open" => d.claim = 0)
    <2>1. CASE d \in InPlay
      BY <1>2, <1>3, <2>1 DEF DraftsOK
    <2>2. CASE d.claim = 0
      BY <1>3, <2>2
    <2>3. CASE d.lock # "open" /\ \E f \in InPlay : d.claim = f.claim /\ d.text = f.text
      BY <1>3, <2>3
    <2>4. CASE Claims(v, w) /\ d = w.tab.cur
      <3>1. d.claim \in Nat
        BY <1>1, <2>4, BoundsAssumption DEF Claims, Relocks, Views, Editor, Op
      <3>. QED  BY <1>3, <1>5, <2>4, <3>1
    <2>. QED  BY <1>4, <2>1, <2>2, <2>3, <2>4
  <1>7. \A d, f \in InPlay' : d.claim = f.claim /\ d.claim # 0 => d.text = f.text
    <2>. SUFFICES ASSUME NEW d \in InPlay', NEW f \in InPlay', d.claim = f.claim, d.claim # 0
                  PROVE  d.text = f.text
      OBVIOUS
    <2>1. (Claims(v, w) /\ d = w.tab.cur) \/ \E e \in InPlay : d.claim = e.claim /\ d.text = e.text
      BY <1>4
    <2>2. (Claims(v, w) /\ f = w.tab.cur) \/ \E e \in InPlay : f.claim = e.claim /\ f.text = e.text
      BY <1>4
    <2>. QED  BY <1>2, <1>5, <2>1, <2>2 DEF DraftsOK
  <1>. QED  BY <1>1, <1>6, <1>7 DEF DraftsOK

\* No two publications have the same claim, and the article's is nobody's any more.
LEMMA OpsKept ==
  ASSUME PInv, NEW t \in Tab, NEW w, Moves(t, w)
  PROVE  OpsOK'
  <1>. DEFINE v == View(t)
  <1>1. /\ v \in Views /\ w \in Views /\ Sound(v) /\ v.tab = tab[t] /\ v.events = used.events /\ used'.events = w.events
        /\ Known(v) \subseteq InPlay /\ InPlay' \subseteq InPlay \cup Drafts(w)
        /\ \A u \in Tab : tab'[u] = IF u = t THEN w.tab ELSE tab[u]
    BY Moved
  <1>2. SInv /\ Types /\ TabForm(v, w) /\ DraftsOK /\ OpsOK /\ cloud' = cloud
    BY DEF PInv, SInv, Moves
  <1>. HIDE DEF v
  <1>3. /\ used.events \in Nat /\ w.events \in Nat /\ w.events >= used.events
        /\ \A d \in InPlay : d.claim \in Nat /\ d.claim <= used.events
        /\ \A u \in Tab : Publishing(u) => tab[u].op.claim \in Nat /\ tab[u].op.claim # 0 /\ tab[u].op.claim <= used.events
        /\ OpMoves(v, w) /\ (Reviews(v, w) => w.events = used.events + 1)
    BY <1>1, <1>2, Counted, FormOps DEF Views
  <1>4. /\ Publishing(t)' => \/ Publishing(t) /\ w.tab.op.claim = tab[t].op.claim
                             \/ w.tab.op.claim = used.events + 1 /\ w.events = used.events + 1
        /\ \A u \in Tab \ {t} : (Publishing(u)' <=> Publishing(u)) /\ tab'[u] = tab[u]
        /\ tab'[t] = w.tab
    <2>1. tab'[t] = w.tab /\ \A u \in Tab \ {t} : tab'[u] = tab[u]
      BY <1>1
    <2>2. Publishing(t)' <=> w.tab.op.stage \in {"review", "claim", "send"}
      BY <2>1 DEF Publishing
    <2>3. Publishing(t) <=> v.tab.op.stage \in {"review", "claim", "send"}
      BY <1>1 DEF Publishing
    <2>4. Publishing(t)' => \/ Publishing(t) /\ w.tab.op.claim = tab[t].op.claim
                            \/ w.tab.op.claim = used.events + 1 /\ w.events = used.events + 1
      BY <1>1, <1>3, <2>2, <2>3 DEF OpMoves, SameOp, Reviews
    <2>. QED  BY <2>1, <2>4 DEF Publishing
  <1>5. \A u \in Tab : Publishing(u)' => tab'[u].op.claim \in 1..w.events
    BY <1>3, <1>4
  <1>6. \A u, x \in Tab : (Publishing(u) /\ Publishing(x) /\ tab[u].op.claim = tab[x].op.claim)' => u = x
    BY <1>2, <1>3, <1>4 DEF OpsOK
  <1>7. ASSUME NEW u \in Tab, (tab[u].op.stage = "review")', NEW d \in InPlay'
        PROVE  d.claim # tab'[u].op.claim
    <2>1. \/ u # t /\ Publishing(u) /\ tab[u].op.stage = "review" /\ tab'[u] = tab[u]
          \/ u = t /\ Publishing(t) /\ tab[t].op.stage = "review" /\ w.tab.op.claim = tab[t].op.claim /\ tab'[u] = w.tab
          \/ u = t /\ Reviews(v, w) /\ w.tab.op.claim = used.events + 1 /\ tab'[u] = w.tab
      BY <1>1, <1>3, <1>4, <1>7 DEF OpMoves, SameOp, Reviews, Publishing
    <2>2. \A f \in InPlay : f.claim # tab'[u].op.claim
      BY <1>2, <1>3, <2>1 DEF OpsOK
    <2>3. tab'[u].op.claim # 0
      BY <1>3, <2>1
    <2>4. Claims(v, w) => u # t /\ w.tab.cur.claim = tab[t].op.claim /\ Publishing(t)
      <3>1. Claims(v, w) => w.tab.op.stage = "claim" /\ w.tab.cur.claim = v.tab.op.claim /\ v.tab.op.stage = "review"
        BY <1>1, <1>3 DEF Claims, Relocks, Views, Editor, Op
      <3>. QED  BY <1>1, <1>4, <1>7, <3>1 DEF Publishing
    <2>5. \A f \in Known(v) : f.lock = "open" => f.claim = 0
      BY <1>1, <1>2 DEF DraftsOK
    <2>6. d \in Drafts(w) => Derived(v, w, d)
      BY <1>1, <1>2, <2>5, FormDerived
    <2>7. CASE Claims(v, w) /\ d = w.tab.cur
      BY <1>2, <2>1, <2>4, <2>7 DEF OpsOK
    <2>. QED  BY <1>1, <1>7, <2>2, <2>3, <2>6, <2>7 DEF Derived
  <1>8. ASSUME Public', NEW u \in Tab, Claiming(u)'
        PROVE  tab'[u].op.claim # Latest'.draft.claim
    <2>1. Latest' = Latest /\ Len(cloud) \in DOMAIN cloud /\ cloud # <<>> /\ Latest.draft # None
      BY <1>2, <1>8 DEF Public, Latest, Types
    <2>2. Latest.draft \in InPlay
      BY <2>1 DEF InPlay, Latest
    <2>3. \/ Claiming(u) /\ tab'[u].op.claim = tab[u].op.claim
          \/ u = t /\ tab[t].op.stage = "review" /\ tab'[u].op.claim = tab[t].op.claim
      <3>1. u # t => Claiming(u) /\ tab'[u].op.claim = tab[u].op.claim
        BY <1>4, <1>8 DEF Claiming
      <3>2. u = t => w.tab.op.stage \in {"claim", "send"} /\ tab'[u] = w.tab
        BY <1>4, <1>8 DEF Claiming
      <3>3. u = t => \/ tab[t].op.stage \in {"claim", "send"} /\ w.tab.op.claim = tab[t].op.claim
                     \/ tab[t].op.stage = "review" /\ w.tab.op.claim = tab[t].op.claim
        BY <1>1, <1>3, <3>2 DEF OpMoves, SameOp, Reviews
      <3>. QED  BY <3>1, <3>2, <3>3 DEF Claiming
    <2>4. CASE posted' = posted
      <3>1. Public
        BY <1>8, <2>1, <2>4 DEF Public
      <3>. QED  BY <1>2, <2>1, <2>2, <2>3, <3>1 DEF OpsOK
    <2>5. CASE Posts(t, w)
      <3>1. tab[t].op.stage = "send" /\ (Records(v, w) \/ EndsOp(v, w))
        BY <2>5 DEF Posts, v
      <3>2. u # t
        <4>1. w.tab.op.stage \in {"none", "record"}
          <5>1. v.tab.op \in Op
            BY <1>1 DEF Views, Editor
          <5>2. Records(v, w) => w.tab.op.stage = "record"
            BY <5>1 DEF Records, Op
          <5>. QED  BY <3>1, <5>2 DEF EndsOp, NoOp
        <4>. QED  BY <1>4, <1>8, <4>1 DEF Claiming
      <3>3. Latest.draft.claim = tab[t].op.claim
        BY <2>1, <3>1, SentIsClaimed DEF PInv, Follows, Free
      <3>. QED  BY <1>2, <2>1, <2>3, <3>1, <3>2, <3>3 DEF OpsOK, Publishing, Claiming
    <2>. QED  BY <2>4, <2>5 DEF Moves
  <1>. QED  BY <1>1, <1>5, <1>6, <1>7, <1>8 DEF OpsOK

-----------------------------------------------------------------------------
(* What was derived from a draft with a claim keeps the claim.             *)

\* What Loyal says of what a tab works on.
ViewLoyal(v, c) ==
  BrowserLoyal(v.row, v.sync, c) /\ TabLoyal(v.tab, v.row, c) /\ \A r \in Requesting(v) : RequestLoyal(r, c)

\* Without a row there is nothing to keep, and a deletion has no draft.
LEMMA NoRowLoyal ==
  ASSUME NEW w, NEW c, w.row = None, \A r \in Requesting(w) : RequestLoyal(r, c)
  PROVE  ViewLoyal(w, c)
  BY DEF ViewLoyal, BrowserLoyal, TabLoyal

\* A finished sync leaves in the editor what was there, or what is in the row.
LEMMA ClosesLoyal ==
  ASSUME NEW v, NEW w, NEW c, Closes(v, w), TabLoyal(v.tab, v.row, c),
         w.row = v.row \/ (w.row # None /\ w.row.rev # v.tab.known)
  PROVE  TabLoyal(w.tab, w.row, c)
  <1>1. w.tab.job.pc # "journal"
    BY DEF Closes, Quiet
  <1>2. ASSUME w.row # None, w.tab.cur # None, w.tab.known = w.row.rev, Follows(w.row.draft, c)
        PROVE  Follows(w.tab.cur, c)
    BY <1>2 DEF Closes, Edits, TabLoyal, Follows
  <1>. QED  BY <1>1, <1>2 DEF TabLoyal

\* The row as it was, over a revision whose draft the browser may replace.
LEMMA RebasedLoyal ==
  ASSUME NEW v \in Views, NEW w \in Views, NEW c, Sound(v), BrowserLoyal(v.row, v.sync, c), w.row = v.row, w.sync.pending = None,
         \/ w.sync = v.sync
         \/ /\ v.tab.job.doc # None /\ ~RemoteWins(v.tab.job.doc, v.row) /\ w.sync.server = v.tab.job.doc.rev
  PROVE  BrowserLoyal(w.row, w.sync, c)
  <1>1. CASE w.sync = v.sync
    BY <1>1
  <1>2. CASE v.tab.job.doc # None /\ ~RemoteWins(v.tab.job.doc, v.row) /\ w.sync.server = v.tab.job.doc.rev
    BY <1>2 DEF BrowserLoyal, RemoteWins, Sound, TabOK, Follows
  <1>. QED  BY <1>1, <1>2

\* A sync derives no draft from one with the claim that does not have the claim.
LEMMA SyncsLoyal ==
  ASSUME Types, NEW v \in Views, NEW w \in Views, NEW c, w.ids <= MaxIds, Sound(v), Alone(v.tab, v.sync), Syncs(v, w),
         ViewLoyal(v, c)
  PROVE  ViewLoyal(w, c)
  <1>0. BrowserLoyal(v.row, v.sync, c) /\ TabLoyal(v.tab, v.row, c) /\ \A r \in Requesting(v) : RequestLoyal(r, c)
    BY DEF ViewLoyal
  <1>1. CASE Resting(v, w)
    <2>1. w.row = v.row /\ Closes(v, w) /\ SameJournal(v.sync, w.sync)
      BY <1>1 DEF Resting, Rests
    <2>2. Requesting(w) \subseteq Requesting(v)
      BY <2>1 DEF Closes, Quiet, SameJournal, Requesting, Carrying
    <2>3. BrowserLoyal(w.row, w.sync, c)
      BY <1>0, <2>1 DEF SameJournal, BrowserLoyal
    <2>. QED  BY <1>0, <2>1, <2>2, <2>3, ClosesLoyal DEF ViewLoyal
  <1>2. CASE Sends(v, w) \/ Asks(v, w) \/ Adopts(v, w)
    <2>1. Turns(v, w) /\ w.tab.job.pc # "journal"
      BY <1>2 DEF Sends, Asks, Adopts, At
    <2>2. Requesting(w) \subseteq Requesting(v)
      BY <1>2 DEF Sends, Asks, Adopts, At, Turns, Requesting, Carrying
    <2>. QED  BY <1>0, <2>1, <2>2 DEF ViewLoyal, Turns, Still, TabLoyal
  <1>3. CASE Composes(v, w)
    <2>1. /\ w.row = v.row /\ v.row # None /\ w.tab.cur = v.tab.cur /\ w.tab.known = v.tab.known
          /\ w.tab.job.pc = "journal" /\ w.tab.job.pend.draft = v.row.draft /\ w.tab.job.base = w.sync
      BY <1>3 DEF Composes, Still, At
    <2>2. w.sync.pending = None
      BY <1>3 DEF Composes, Views, State
    <2>3. BrowserLoyal(w.row, w.sync, c)
      <3>1. \/ w.sync = v.sync
            \/ v.tab.job.doc # None /\ ~RemoteWins(v.tab.job.doc, v.row) /\ w.sync.server = v.tab.job.doc.rev
        BY <1>3 DEF Composes, Views, State
      <3>. QED  BY <1>0, <2>1, <2>2, <3>1, RebasedLoyal
    <2>4. TabLoyal(w.tab, w.row, c)
      BY <1>0, <2>1, <2>2, <2>3 DEF TabLoyal, BrowserLoyal
    <2>. QED  BY <2>1, <2>2, <2>3, <2>4 DEF ViewLoyal, Requesting, Carrying
  <1>4. CASE Puts(v, w)
    <2>. DEFINE put == [v.tab.job.pend EXCEPT !.id = v.ids + 1]
    <2>1. /\ w.row = v.row /\ w.tab.cur = v.tab.cur /\ w.tab.known = v.tab.known /\ w.tab.job.pc = "send"
          /\ v.tab.job.pc = "journal" /\ w.sync = [v.tab.job.base EXCEPT !.pending = put] /\ w.tab.job.pend = put
          /\ ~v.sync.deleted
      BY <1>4 DEF Puts, Still, At
    <2>2. v.tab.job.base \in State /\ v.tab.job.pend \in Request /\ JournalOK(v.tab.job, v.row, v.sync)
      BY <2>1, PartsTyped DEF Sound, JobOK, TabOK, Parts, Views, Editor, Job, Carrying
    <2>3. put.draft = v.tab.job.pend.draft /\ put.expected = v.tab.job.base.server /\ v.row # None
      BY <2>1, <2>2 DEF JournalOK, Request
    <2>4. put # None
      <3>. DEFINE n == v.ids + 1
      <3>1. n \in 0..MaxIds
        BY <1>4, PartsTyped, BoundsAssumption DEF Puts, Parts
      <3>2. put = [v.tab.job.pend EXCEPT !.id = n]
        OBVIOUS
      <3>. HIDE DEF n, put
      <3>3. put \in Request
        BY <2>2, <3>1, <3>2 DEF Request
      <3>. QED  BY <3>3, NoneAssumption
    <2>. HIDE DEF put
    <2>5. w.sync.pending = put /\ w.sync.server = v.tab.job.base.server
      BY <2>1, <2>2 DEF State
    <2>6. BrowserLoyal(w.row, w.sync, c)
      BY <1>0, <2>1, <2>3, <2>4, <2>5 DEF BrowserLoyal, TabLoyal
    <2>7. TabLoyal(w.tab, w.row, c)
      BY <1>0, <2>1 DEF TabLoyal
    <2>8. RequestLoyal(put, c)
      BY <1>0, <2>1, <2>3 DEF RequestLoyal, TabLoyal
    <2>. QED  BY <2>1, <2>5, <2>6, <2>7, <2>8 DEF ViewLoyal, Requesting
  <1>5. CASE Erases(v, w)
    BY <1>5, NoRowLoyal DEF Erases, Closes, Quiet, Requesting, Carrying
  <1>6. CASE Caches(v, w)
    <2>1. /\ Closes(v, w) /\ w.row # None /\ w.row.draft = v.tab.job.doc.draft /\ w.sync.pending = None
          /\ w.sync.server = v.tab.job.doc.rev /\ ~v.sync.deleted /\ v.tab.job.doc # None
          /\ w.row.rev = IF v.row = None THEN 1 ELSE v.row.rev + 1
      <3>. DEFINE n == IF v.row = None THEN 1 ELSE v.row.rev + 1
      <3>1. n \in Nat
        BY PartsTyped DEF Parts
      <3>2. w.row = [rev |-> n, draft |-> v.tab.job.doc.draft]
        BY <1>6 DEF Caches
      <3>. HIDE DEF n
      <3>3. w.row # None
        <4>1. v.tab.job.doc.draft \in Draft
          <5>1. v.tab.job.doc \in Doc
            BY <1>6 DEF Caches, Views, Editor, Job
          <5>. QED  BY <1>6, <5>1 DEF Caches, Doc
        <4>2. w.row \in Row
          BY <3>1, <3>2, <4>1 DEF Row
        <4>. QED  BY <4>2, NoneAssumption
      <3>4. w.row.rev = n
        BY <3>2
      <3>. QED  BY <1>6, <3>2, <3>3, <3>4 DEF Caches, n
    <2>2. cloud[v.tab.job.doc.rev].draft = v.tab.job.doc.draft
      BY <2>1 DEF Sound, TabOK
    <2>3. w.row.rev # v.tab.known
      BY <2>1, PartsTyped DEF Sound, TabOK, Parts
    <2>4. TabLoyal(w.tab, w.row, c)
      BY <1>0, <2>1, <2>3, ClosesLoyal
    <2>5. Requesting(w) = {}
      BY <2>1 DEF Closes, Quiet, Requesting, Carrying
    <2>. QED  BY <2>1, <2>2, <2>4, <2>5 DEF ViewLoyal, BrowserLoyal
  <1>7. CASE Rebases(v, w)
    <2>1. /\ w.row = v.row /\ w.tab.cur = v.tab.cur /\ w.tab.known = v.tab.known /\ Quiet(w.tab.job)
          /\ v.tab.job.doc # None /\ ~RemoteWins(v.tab.job.doc, v.row)
      BY <1>7 DEF Rebases, Still
    <2>2. w.sync.pending = None /\ w.sync.server = v.tab.job.doc.rev
      BY <1>7 DEF Rebases, Views, State
    <2>3. BrowserLoyal(w.row, w.sync, c)
      BY <1>0, <2>1, <2>2, RebasedLoyal
    <2>. QED  BY <1>0, <2>1, <2>2, <2>3 DEF ViewLoyal, TabLoyal, Quiet, Requesting, Carrying
  <1>8. CASE Acks(v, w)
    <2>1. /\ w.row = v.row /\ Closes(v, w) /\ w.sync.server = v.tab.job.doc.rev
          /\ v.tab.job.pc = "answered" /\ PendingId(v) = v.tab.job.pend.id /\ v.tab.job.pend.draft # None
          /\ (~v.sync.deleted /\ w.sync.pending = None) \/ (v.sync.deleted /\ w.sync.pending = Deletion(v, v.tab.job.doc.rev))
      BY <1>8 DEF Acks
    <2>2. v.sync.pending = v.tab.job.pend /\ v.sync.pending # None
      BY <2>1 DEF Alone, Carrying, Sound, JobOK
    <2>3. cloud[v.tab.job.doc.rev].draft = v.sync.pending.draft
      BY <2>1, <2>2 DEF Sound, JobOK, TabOK
    <2>4. v.sync.deleted => v.row = None
      BY DEF Sound, BrowserOK
    <2>5. BrowserLoyal(w.row, w.sync, c)
      BY <1>0, <2>1, <2>2, <2>3, <2>4 DEF BrowserLoyal
    <2>6. TabLoyal(w.tab, w.row, c)
      BY <1>0, <2>1, ClosesLoyal
    <2>7. \A r \in Requesting(w) : r.draft = None
      BY <2>1 DEF Closes, Quiet, Requesting, Carrying, Deletion
    <2>. QED  BY <2>5, <2>6, <2>7 DEF ViewLoyal, RequestLoyal
  <1>9. CASE AsksAgain(v, w)
    <2>1. /\ w.row = v.row /\ Quiet(w.tab.job) /\ v.tab.job.pc = "resolve"
          /\ v.tab.job.pend.draft = None \/ v.sync.deleted
      BY <1>9 DEF AsksAgain
    <2>2. v.sync.pending = v.tab.job.pend /\ v.sync.pending # None
      BY <2>1 DEF Alone, Carrying, Sound, JobOK
    <2>3. v.row = None
      BY <2>1, <2>2 DEF Sound, BrowserOK
    <2>4. w.sync.pending.draft = None
      <3>. DEFINE req == Deletion(v, v.tab.job.doc.rev)
      <3>1. w.sync = [v.sync EXCEPT !.server = v.tab.job.doc.rev, !.pending = req]
        BY <1>9 DEF AsksAgain
      <3>2. req.draft = None
        BY DEF Deletion
      <3>. HIDE DEF req
      <3>. QED  BY <3>1, <3>2 DEF Views, State
    <2>5. \A r \in Requesting(w) : RequestLoyal(r, c)
      BY <2>1, <2>4 DEF Quiet, Requesting, Carrying, RequestLoyal
    <2>. QED  BY <2>1, <2>3, <2>5, NoRowLoyal
  <1>. QED  BY <1>1, <1>2, <1>3, <1>4, <1>5, <1>6, <1>7, <1>8, <1>9 DEF Syncs

\* The editor's own steps: only a release takes a lock off, and a claim is new.
LEMMA EditorLoyal ==
  ASSUME NEW v \in Views, NEW w \in Views, NEW c, EditorForm(v, w), ViewLoyal(v, c),
         Releases(v, w) /\ ~EndsOp(v, w) => c # v.tab.op.claim
  PROVE  ViewLoyal(w, c)
  <1>1. Works(v, w)
    BY DEF EditorForm, Writes, Reviews, EndsOp, Claims, MaySend, Releases, Records, Relocks, Keeps
  <1>2. Requesting(w) = Requesting(v) /\ w.row = v.row /\ w.sync = v.sync /\ w.tab.known = v.tab.known
        /\ SameJob(v.tab.job, w.tab.job)
    BY <1>1 DEF Works, SameJob, Requesting
  <1>3. ASSUME v.row # None, w.tab.cur # None, v.tab.known = v.row.rev, Follows(v.row.draft, c)
        PROVE  Follows(w.tab.cur, c)
    <2>1. v.tab.cur # None => Follows(v.tab.cur, c)
      BY <1>3 DEF ViewLoyal, TabLoyal
    <2>2. CASE Reviews(v, w) \/ EndsOp(v, w) \/ MaySend(v, w)
      BY <1>3, <2>1, <2>2 DEF Reviews, EndsOp, MaySend, Keeps
    <2>3. CASE Writes(v, w)
      BY <2>1, <2>3 DEF Writes, Follows
    <2>4. CASE Claims(v, w)
      BY <1>3, <2>4 DEF Claims, Reviewed, Follows
    <2>5. CASE Releases(v, w) /\ ~EndsOp(v, w)
      BY <1>3, <2>5 DEF Releases, Follows
    <2>6. CASE Records(v, w)
      BY <1>3, <2>1, <2>6 DEF Records, Relocks, Follows, Locked
    <2>. QED  BY <2>2, <2>3, <2>4, <2>5, <2>6 DEF EditorForm
  <1>4. TabLoyal(w.tab, w.row, c)
    BY <1>2, <1>3 DEF ViewLoyal, TabLoyal, SameJob
  <1>. QED  BY <1>2, <1>4 DEF ViewLoyal

\* Nor does a save or the beginning of a sync.
LEMMA PlainLoyal ==
  ASSUME NEW v \in Views, NEW w \in Views, NEW c, Sound(v), Plain(v, w), ViewLoyal(v, c)
  PROVE  ViewLoyal(w, c)
  <1>0. BrowserLoyal(v.row, v.sync, c) /\ TabLoyal(v.tab, v.row, c) /\ \A r \in Requesting(v) : RequestLoyal(r, c)
    BY DEF ViewLoyal
  <1>1. CASE Fails(v, w)
    BY <1>0, <1>1 DEF Fails, SameJournal, ViewLoyal, BrowserLoyal, TabLoyal, Requesting
  <1>2. CASE Stores(v, w)
    <2>1. /\ v.tab.cur # None /\ ~v.sync.deleted /\ v.tab.known = (IF v.row = None THEN 0 ELSE v.row.rev)
          /\ w.row.draft = v.tab.cur /\ w.sync = v.sync /\ w.tab.cur = v.tab.cur /\ w.tab.job = v.tab.job
      BY <1>2 DEF Stores
    <2>2. v.row # None /\ Follows(v.row.draft, c) => Follows(v.tab.cur, c)
      BY <1>0, <2>1 DEF TabLoyal
    <2>3. BrowserLoyal(w.row, w.sync, c)
      BY <1>0, <2>1, <2>2 DEF BrowserLoyal, Sound, BrowserOK
    <2>4. v.tab.job.pc = "journal" => v.row # None
      BY <2>1 DEF Sound, TabOK, JournalOK
    <2>5. TabLoyal(w.tab, w.row, c)
      BY <1>0, <2>1, <2>2, <2>4 DEF TabLoyal
    <2>6. Requesting(w) = Requesting(v)
      BY <2>1 DEF Requesting
    <2>. QED  BY <1>0, <2>3, <2>5, <2>6 DEF ViewLoyal
  <1>3. CASE BeginsSync(v, w) \/ BeginsRefresh(v, w)
    <2>1. /\ w.row = v.row /\ w.sync = v.sync /\ w.tab.cur = v.tab.cur /\ w.tab.known = v.tab.known
          /\ w.tab.job.pc \in {"read", "listed"}
      BY <1>3 DEF BeginsSync, BeginsRefresh, Begins, At
    <2>. QED  BY <1>0, <2>1 DEF ViewLoyal, TabLoyal, Requesting, Carrying
  <1>4. CASE Selects(v, w)
    BY <1>0, <1>4 DEF Selects, ViewLoyal, TabLoyal, Requesting
  <1>5. CASE Removes(v, w)
    <2>1. w.row = None /\ \A r \in Requesting(w) : r \in Requesting(v) \/ r.draft = None
      BY <1>5 DEF Removes, At, Requesting, Carrying, Deletion
    <2>. QED  BY <1>0, <2>1, NoRowLoyal DEF RequestLoyal
  <1>6. CASE Retries(v, w)
    <2>1. /\ w.row = v.row /\ w.sync = v.sync /\ w.tab.cur = v.tab.cur /\ w.tab.known = v.tab.known
          /\ w.tab.job.pc = "resolve" /\ Requesting(w) = Requesting(v)
      BY <1>6 DEF Retries, Carries, Requesting, Carrying
    <2>. QED  BY <1>0, <2>1 DEF ViewLoyal, TabLoyal
  <1>. QED  BY <1>1, <1>2, <1>3, <1>4, <1>5, <1>6 DEF Plain

\* Only the tab that made a claim makes a draft without it, by its release.
LEMMA FormLoyal ==
  ASSUME Types, NEW v \in Views, NEW w \in Views, NEW c, w.ids <= MaxIds, Sound(v), Alone(v.tab, v.sync), TabForm(v, w),
         ViewLoyal(v, c), Releases(v, w) /\ ~EndsOp(v, w) => c # v.tab.op.claim
  PROVE  ViewLoyal(w, c)
  <1>1. CASE Quits(v, w)
    <2>1. /\ w.row = v.row /\ w.sync = v.sync /\ w.tab.job = NoJob
          /\ (w.tab.cur = v.tab.cur /\ w.tab.known = v.tab.known) \/ w.tab.cur = None
      BY <1>1 DEF Quits
    <2>. QED  BY <2>1 DEF ViewLoyal, TabLoyal, NoJob, Requesting, Carrying
  <1>. QED  BY <1>1, SyncsLoyal, EditorLoyal, PlainLoyal DEF TabForm

LEMMA RequestsTyped ==
  ASSUME Types
  PROVE  \A r \in Requests : r \in Request /\ r.expected \in Nat /\ r.expected <= Len(cloud)
  <1>1. \A b \in Browser : sync[b].pending # None => sync[b].pending \in Request /\ sync[b].pending.expected <= Len(cloud)
    BY DEF Types, SyncOK, State
  <1>2. \A t \in Tab : tab[t].job.pc \in Carrying => tab[t].job.pend \in Request /\ tab[t].job.pend.expected <= Len(cloud)
    BY ViewTyped DEF Types, JobOK, Job, Carrying
  <1>3. \A r \in Requests : r \in Request /\ r.expected <= Len(cloud)
    BY <1>1, <1>2 DEF Requests, Types
  <1>. QED  BY <1>3 DEF Request

\* A claim no draft in play has is kept by all of them.
LEMMA Unclaimed ==
  ASSUME SInv, NEW c, \A d \in InPlay : d.claim # c
  PROVE  Loyal(c)
  <1>1. Types /\ DOMAIN cloud = 1..Len(cloud) /\ Len(cloud) \in Nat
    BY DEF SInv, Types
  <1>2. \A i \in DOMAIN cloud : ~Follows(cloud[i].draft, c)
    BY DEF Follows, InPlay
  <1>3. \A r \in Requests : ~Follows(r.draft, c) /\ r.expected \in Nat /\ r.expected <= Len(cloud)
    <2>1. \A r \in Requests : r.expected \in Nat /\ r.expected <= Len(cloud)
      BY <1>1, RequestsTyped
    <2>2. \A r \in Requests : ~Follows(r.draft, c)
      BY DEF Follows, InPlay
    <2>. QED  BY <2>1, <2>2
  <1>4. \A b \in Browser : /\ row[b] # None => ~Follows(row[b].draft, c)
                           /\ sync[b].pending # None => ~Follows(sync[b].pending.draft, c)
                           /\ sync[b].server \in Nat /\ sync[b].server <= Len(cloud)
    <2>1. \A b \in Browser : row[b] # None => ~Follows(row[b].draft, c)
      BY DEF Follows, InPlay
    <2>2. \A b \in Browser : sync[b].pending # None => ~Follows(sync[b].pending.draft, c)
      BY <1>3 DEF Requests
    <2>3. \A b \in Browser : sync[b].server \in Nat /\ sync[b].server <= Len(cloud)
      BY <1>1 DEF Types, SyncOK, State
    <2>. QED  BY <2>1, <2>2, <2>3
  <1>5. \A t \in Tab : tab[t].job.pc = "journal" => /\ ~Follows(tab[t].job.pend.draft, c)
                                                    /\ tab[t].job.base.server \in Nat /\ tab[t].job.base.server <= Len(cloud)
    <2>1. \A t \in Tab : tab[t].job.pc = "journal" => ~Follows(tab[t].job.pend.draft, c)
      BY DEF Follows, InPlay
    <2>2. \A t \in Tab : tab[t].job.pc = "journal" => tab[t].job.base \in State /\ tab[t].job.base.server <= Len(cloud)
      BY <1>1, ViewTyped DEF Types, JobOK, Job
    <2>. QED  BY <2>1, <2>2 DEF State
  <1>6. \A b \in Browser : BrowserLoyal(row[b], sync[b], c)
    BY <1>1, <1>2, <1>4 DEF BrowserLoyal
  <1>7. \A r \in Requests : RequestLoyal(r, c)
    BY <1>1, <1>2, <1>3 DEF RequestLoyal
  <1>8. \A t \in Tab : TabLoyal(tab[t], row[tab[t].home], c)
    <2>1. \A t \in Tab : tab[t].home \in Browser
      BY <1>1, ViewTyped
    <2>. QED  BY <1>1, <1>2, <1>4, <1>5, <2>1 DEF TabLoyal
  <1>. QED  BY <1>2, <1>6, <1>7, <1>8 DEF Loyal

\* The claims that matter after a step mattered before, but for the one a tab makes.
LEMMA GuardedMoves ==
  ASSUME PInv, NEW t \in Tab, NEW w, Moves(t, w), NEW c \in Guarded', NEW v, v = View(t)
  PROVE  /\ c \in Guarded \/ (tab[t].op.stage = "review" /\ c = tab[t].op.claim)
         /\ Releases(v, w) /\ ~EndsOp(v, w) => c # tab[t].op.claim
  <1>1. /\ v \in Views /\ w \in Views /\ v.tab = tab[t]
        /\ \A u \in Tab : tab'[u] = IF u = t THEN w.tab ELSE tab[u]
    BY Moved
  <1>2. SInv /\ OpsOK /\ cloud' = cloud /\ (posted' = posted \/ Posts(t, w)) /\ TabForm(v, w)
    BY DEF PInv, Moves
  <1>3. OpMoves(v, w)
    BY <1>1, <1>2, FormOps
  <1>4. Releases(v, w) => w.tab.op.stage = "none" /\ Claiming(t) /\ Publishing(t)
    BY <1>1 DEF Releases, NoOp, Claiming, Publishing
  <1>5. CASE \E u \in Tab : Claiming(u)' /\ c = tab'[u].op.claim
    <2>1. PICK u \in Tab : Claiming(u)' /\ c = tab'[u].op.claim
      BY <1>5
    <2>2. CASE u # t
      <3>1. Claiming(u) /\ c = tab[u].op.claim
        BY <1>1, <2>1, <2>2 DEF Claiming
      <3>. QED  BY <1>2, <1>4, <2>2, <3>1 DEF Guarded, OpsOK, Claiming, Publishing
    <2>3. CASE u = t
      <3>1. w.tab.op.stage \in {"claim", "send"} /\ c = w.tab.op.claim
        BY <1>1, <2>1, <2>3 DEF Claiming
      <3>2. \/ tab[t].op.stage \in {"claim", "send"} /\ c = tab[t].op.claim
            \/ tab[t].op.stage = "review" /\ c = tab[t].op.claim
        BY <1>1, <1>3, <3>1 DEF OpMoves, SameOp, Reviews
      <3>3. ~Releases(v, w)
        BY <1>4, <3>1
      <3>. QED  BY <3>2, <3>3 DEF Guarded, Claiming
    <2>. QED  BY <2>2, <2>3
  <1>6. CASE Public' /\ c = Latest'.draft.claim
    <2>1. Latest' = Latest /\ cloud # <<>> /\ Latest.draft # None
      BY <1>2, <1>6 DEF Public, Latest
    <2>2. CASE posted' = posted
      <3>1. Public /\ c = Latest.draft.claim
        BY <1>6, <2>1, <2>2 DEF Public
      <3>. QED  BY <1>2, <1>4, <3>1 DEF Guarded, OpsOK
    <2>3. CASE Posts(t, w)
      <3>1. tab[t].op.stage = "send" /\ (Records(v, w) \/ EndsOp(v, w))
        BY <2>3 DEF Posts
      <3>2. c = tab[t].op.claim
        BY <1>6, <2>1, <3>1, SentIsClaimed DEF PInv, Follows, Free
      <3>3. ~(Releases(v, w) /\ ~EndsOp(v, w))
        <4>1. v.tab.op \in Op
          BY <1>1 DEF Views, Editor
        <4>2. Records(v, w) => w.tab.op.stage = "record"
          BY <4>1 DEF Records, Op
        <4>. QED  BY <1>4, <3>1, <4>2
      <3>. QED  BY <3>1, <3>2, <3>3 DEF Guarded, Claiming
    <2>. QED  BY <1>2, <2>2, <2>3
  <1>. QED  BY <1>5, <1>6 DEF Guarded

\* Every guarded claim stays in what is derived from its draft.
LEMMA LoyalKept ==
  ASSUME PInv, NEW t \in Tab, NEW w, Moves(t, w), NEW c \in Guarded'
  PROVE  Loyal(c)'
  <1>. DEFINE v == View(t)
              home == tab[t].home
  <1>1. /\ v \in Views /\ w \in Views /\ Sound(v) /\ Alone(v.tab, v.sync) /\ v.tab = tab[t] /\ v.row = row[home]
        /\ v.sync = sync[home] /\ home \in Browser
        /\ \A b \in Browser : /\ row'[b] = IF b = home THEN w.row ELSE row[b]
                              /\ sync'[b] = IF b = home THEN w.sync ELSE sync[b]
        /\ \A u \in Tab : tab'[u] = (IF u = t THEN w.tab ELSE tab[u]) /\ tab'[u].home = tab[u].home
        /\ Requests' \subseteq Requests \cup Requesting(w)
    BY Moved
  <1>2. /\ SInv /\ Types /\ OpsOK /\ TabForm(v, w) /\ w.ids <= MaxIds /\ cloud' = cloud
        /\ \A u \in Tab : tab[u].home = home => u = t
    BY DEF PInv, SInv, Moves, TabsApart, Turned
  <1>3. c \in Guarded \/ (tab[t].op.stage = "review" /\ c = tab[t].op.claim)
    BY GuardedMoves
  <1>4. Releases(v, w) /\ ~EndsOp(v, w) => c # v.tab.op.claim
    BY <1>1, GuardedMoves
  <1>5. Loyal(c)
    <2>1. CASE c \in Guarded
      BY <2>1 DEF PInv
    <2>2. CASE tab[t].op.stage = "review" /\ c = tab[t].op.claim
      BY <1>2, <2>2, Unclaimed DEF OpsOK
    <2>. QED  BY <1>3, <2>1, <2>2
  <1>6. Requesting(v) \subseteq Requests
    BY <1>2, ViewSound
  <1>. HIDE DEF v, home
  <1>7. ViewLoyal(v, c)
    BY <1>1, <1>5, <1>6 DEF Loyal, ViewLoyal, home
  <1>8. ViewLoyal(w, c)
    BY <1>1, <1>2, <1>4, <1>7, FormLoyal
  <1>9. \A b \in Browser : BrowserLoyal(row'[b], sync'[b], c)
    BY <1>1, <1>5, <1>8 DEF Loyal, ViewLoyal
  <1>10. \A u \in Tab : TabLoyal(tab'[u], row'[tab'[u].home], c)
    <2>1. ASSUME NEW u \in Tab, u # t
          PROVE  TabLoyal(tab'[u], row'[tab'[u].home], c)
      <3>1. tab[u].home \in Browser /\ tab[u].home # home
        BY <1>2, <2>1, ViewTyped
      <3>2. tab'[u] = tab[u] /\ row'[tab[u].home] = row[tab[u].home]
        BY <1>1, <2>1, <3>1
      <3>. QED  BY <1>5, <3>2 DEF Loyal
    <2>2. TabLoyal(tab'[t], row'[tab'[t].home], c)
      <3>1. tab'[t] = w.tab /\ row'[home] = w.row /\ tab'[t].home = home
        BY <1>1 DEF home
      <3>. QED  BY <1>8, <3>1 DEF ViewLoyal
    <2>. QED  BY <2>1, <2>2
  <1>11. \A r \in Requests' : RequestLoyal(r, c)
    BY <1>1, <1>5, <1>8 DEF Loyal, ViewLoyal
  <1>12. \A b \in Browser : BrowserLoyal(row[b], sync[b], c)'
    BY <1>2, <1>9 DEF BrowserLoyal
  <1>13. \A u \in Tab : TabLoyal(tab[u], row[tab[u].home], c)'
    BY <1>2, <1>10 DEF TabLoyal
  <1>14. \A r \in Requests' : RequestLoyal(r, c)'
    BY <1>2, <1>11 DEF RequestLoyal
  <1>. QED  BY <1>2, <1>5, <1>12, <1>13, <1>14 DEF Loyal

-----------------------------------------------------------------------------
(* A claim that was synced is in the cloud, and stays there.               *)

\* A claim at a revision of the cloud is in the cloud.
LEMMA CloudHolds ==
  ASSUME Types, NEW rev \in 1..Len(cloud), NEW c, Follows(cloud[rev].draft, c)
  PROVE  InCloud(c)
  BY DEF Types, InCloud

\* How a step changes the row.
LEMMA RowMoves ==
  ASSUME NEW v \in Views, NEW w \in Views, TabForm(v, w)
  PROVE  w.row = v.row \/ w.row = None \/ Caches(v, w) \/ Stores(v, w)
  <1>1. CASE Syncs(v, w)
    BY <1>1 DEF Syncs, Resting, Rests, Sends, Asks, Adopts, Turns, Composes, Puts, Erases, Rebases, Acks, AsksAgain
  <1>2. CASE Plain(v, w)
    BY <1>2 DEF Plain, Fails, BeginsSync, BeginsRefresh, Begins, Selects, Removes, Retries, Carries
  <1>3. CASE EditorForm(v, w)
    BY <1>3 DEF EditorForm, Writes, Reviews, EndsOp, Claims, MaySend, Releases, Records, Relocks, Keeps, Works
  <1>4. CASE Quits(v, w)
    BY <1>4 DEF Quits
  <1>. QED  BY <1>1, <1>2, <1>3, <1>4 DEF TabForm

\* What tells a publication that its sync is done.
LEMMA WaitMoves ==
  ASSUME NEW v \in Views, NEW w \in Views, TabForm(v, w), w.tab.op.wait = "done", v.tab.op.wait # "done"
  PROVE  Finished(v, w) /\ (Resting(v, w) \/ Erases(v, w) \/ Caches(v, w) \/ Acks(v, w))
  <1>1. CASE Syncs(v, w)
    BY <1>1 DEF Syncs, Resting, Rests, Sends, Asks, Adopts, Turns, Composes, Puts, Erases, Caches, Rebases, Acks, AsksAgain,
                Still, Closes, Finished
  <1>2. ~Plain(v, w)
    BY DEF Plain, Fails, Stores, BeginsSync, BeginsRefresh, Begins, Selects, Removes, Retries, Carries
  <1>3. ~EditorForm(v, w)
    <2>1. v.tab.op \in Op
      BY DEF Views, Editor
    <2>2. ASSUME NEW stage, NEW wait \in {"no", "save"}, w.tab.op = [v.tab.op EXCEPT !.stage = stage, !.wait = wait]
          PROVE  FALSE
      BY <2>1, <2>2 DEF Op
    <2>3. ~Claims(v, w) /\ ~MaySend(v, w) /\ ~Records(v, w)
      BY <2>2 DEF Claims, MaySend, Records
    <2>. QED  BY <2>3 DEF EditorForm, Writes, Reviews, EndsOp, Releases, NoOp
  <1>4. ~Quits(v, w)
    BY DEF Quits, NoOp
  <1>. QED  BY <1>1, <1>2, <1>3, <1>4 DEF TabForm

\* What a sync that is done leaves is in the cloud, or gone.
LEMMA DoneStored ==
  ASSUME Types, NEW v \in Views, NEW w \in Views, NEW c, Sound(v), Sound(w), Alone(v.tab, v.sync), Finished(v, w),
         Resting(v, w) \/ Erases(v, w) \/ Caches(v, w) \/ Acks(v, w), w.row # None, Follows(w.row.draft, c)
  PROVE  InCloud(c)
  <1>1. CASE Resting(v, w)
    <2>1. w.sync.server # 0 /\ Clean(w)
      <3>1. v.tab.job.why = "sync" /\ w.row = v.row
        BY <1>1 DEF Finished, Alone, Resting, Rests
      <3>2. v.tab.job.pc # "listed"
        BY <3>1 DEF Alone
      <3>3. v.tab.job.doc # None => v.sync.server <= v.tab.job.doc.rev
        BY DEF Alone
      <3>4. v.tab.job.pc = "answered" => PendingId(v) = v.tab.job.pend.id
        BY DEF Alone, Carrying, PendingId, Sound, JobOK
      <3>5. ~v.sync.deleted
        BY <3>1 DEF Sound, BrowserOK
      <3>6. v.tab.job.doc # None => ~(v.sync.server > v.tab.job.doc.rev)
        BY <3>3, PartsTyped DEF Parts
      <3>. QED  BY <1>1, <3>2, <3>4, <3>5, <3>6 DEF Resting, Synced
    <2>2. w.sync.server \in 1..Len(cloud) /\ w.row.draft = cloud[w.sync.server].draft
      BY <2>1, PartsTyped DEF Clean, Sound, SyncOK, BrowserOK, Parts, Types
    <2>. QED  BY <2>2, CloudHolds
  <1>2. CASE Erases(v, w)
    BY <1>2 DEF Erases
  <1>3. CASE Caches(v, w)
    BY <1>3, CloudHolds DEF Caches, Sound, JobOK, TabOK
  <1>4. CASE Acks(v, w)
    <2>1. /\ w.row = v.row /\ v.tab.job.pc = "answered" /\ PendingId(v) = v.tab.job.pend.id
          /\ w.row.rev = v.tab.job.pend.local
      BY <1>4 DEF Acks
    <2>2. v.sync.pending = v.tab.job.pend /\ v.sync.pending # None
      BY <2>1 DEF Alone, Carrying, Sound, JobOK
    <2>3. w.row.draft = v.tab.job.pend.draft
      BY <2>1, <2>2 DEF Sound, BrowserOK
    <2>4. v.tab.job.doc # None /\ v.tab.job.doc.rev \in 1..Len(cloud) /\ cloud[v.tab.job.doc.rev].draft = v.tab.job.pend.draft
      BY <2>1 DEF Sound, JobOK, TabOK
    <2>. QED  BY <2>3, <2>4, CloudHolds
  <1>. QED  BY <1>1, <1>2, <1>3, <1>4

\* When the save and the sync of a claim are done, the cloud holds the claim on the text.
LEMMA ClaimKept ==
  ASSUME Types, NEW v \in Views, NEW w \in Views, Sound(v), Sound(w), Alone(v.tab, v.sync), TabForm(v, w),
         \A d, f \in Known(v) : d.claim = f.claim /\ d.claim # 0 => d.text = f.text,
         v.tab.op.stage = "claim" => v.tab.op.claim # 0, ClaimStored(v.tab.op, v.row)
  PROVE  ClaimStored(w.tab.op, w.row)
  <1>1. OpMoves(v, w)
    BY FormOps
  <1>2. ASSUME w.tab.op.stage = "claim", w.tab.op.wait = "done", w.row # None, Follows(w.row.draft, w.tab.op.claim)
        PROVE  InCloud(w.tab.op.claim)
    <2>1. v.tab.op.stage = "claim" /\ w.tab.op.claim = v.tab.op.claim
      BY <1>1, <1>2 DEF OpMoves, SameOp, Reviews
    <2>2. CASE v.tab.op.wait # "done"
      BY <1>2, <2>2, WaitMoves, DoneStored
    <2>3. CASE v.tab.op.wait = "done"
      <3>1. ~v.tab.dirty
        BY <2>1, <2>3 DEF Alone
      <3>2. w.row = v.row \/ Caches(v, w)
        BY <1>2, <3>1, RowMoves DEF Stores
      <3>3. Caches(v, w) => InCloud(w.tab.op.claim)
        BY SMTT(30), <1>2, CloudHolds DEF Caches, Sound, JobOK, TabOK
      <3>. QED  BY <1>2, <2>1, <2>3, <3>2, <3>3 DEF ClaimStored
    <2>. QED  BY <2>2, <2>3
  <1>3. ASSUME w.tab.op.stage = "send"
        PROVE  \E i \in DOMAIN cloud : Follows(cloud[i].draft, w.tab.op.claim) /\ cloud[i].draft.text = w.tab.op.active.text
    <2>1. CASE SameOp(v.tab.op, w.tab.op)
      BY <1>3, <2>1 DEF SameOp, ClaimStored
    <2>2. CASE MaySend(v, w) /\ v.tab.op.stage = "claim" /\ w.tab.op.claim = v.tab.op.claim /\ w.tab.op.active = v.tab.op.active
      <3>1. /\ v.tab.op.wait = "done" /\ v.row # None /\ v.row.draft.text = v.tab.op.active.text
            /\ Follows(v.row.draft, v.tab.op.claim)
        BY <2>2, PartsTyped DEF MaySend, Claimed, Follows, Locked, Parts
      <3>2. PICK i \in DOMAIN cloud : Follows(cloud[i].draft, v.tab.op.claim)
        BY <2>2, <3>1 DEF ClaimStored, InCloud
      <3>3. cloud[i].draft \in Known(v) /\ v.row.draft \in Known(v)
        BY <3>1, <3>2 DEF Known, CloudDrafts, Drafts, Follows
      <3>4. cloud[i].draft.text = v.row.draft.text
        BY <2>2, <3>1, <3>2, <3>3 DEF Follows
      <3>. QED  BY <2>2, <3>1, <3>2, <3>4
    <2>. QED  BY <1>1, <1>3, <2>1, <2>2 DEF OpMoves, Reviews
  <1>. QED  BY <1>2, <1>3 DEF ClaimStored

LEMMA ClaimsKept ==
  ASSUME PInv, NEW t \in Tab, NEW w, Moves(t, w)
  PROVE  ClaimsStored'
  <1>. DEFINE v == View(t)
              home == tab[t].home
  <1>1. /\ v \in Views /\ w \in Views /\ Sound(v) /\ Sound(w) /\ Alone(v.tab, v.sync) /\ v.tab = tab[t] /\ v.row = row[home]
        /\ home \in Browser /\ Known(v) \subseteq InPlay
        /\ \A b \in Browser : row'[b] = IF b = home THEN w.row ELSE row[b]
        /\ \A u \in Tab : tab'[u] = (IF u = t THEN w.tab ELSE tab[u]) /\ tab'[u].home = tab[u].home
    BY Moved
  <1>2. /\ SInv /\ Types /\ DraftsOK /\ OpsOK /\ ClaimsStored /\ TabForm(v, w) /\ cloud' = cloud
        /\ \A u \in Tab : tab[u].home = home => u = t
    BY DEF PInv, SInv, Moves, TabsApart
  <1>. HIDE DEF v, home
  <1>3. ClaimStored(v.tab.op, v.row)
    BY <1>1, <1>2 DEF ClaimsStored, home
  <1>4. v.tab.op.stage = "claim" => v.tab.op.claim # 0
    BY <1>1, <1>2, Counted DEF Publishing
  <1>5. \A d, f \in Known(v) : d.claim = f.claim /\ d.claim # 0 => d.text = f.text
    BY <1>1, <1>2 DEF DraftsOK
  <1>6. ClaimStored(w.tab.op, w.row)
    BY <1>1, <1>2, <1>3, <1>4, <1>5, ClaimKept
  <1>7. \A u \in Tab : ClaimStored(tab'[u].op, row'[tab'[u].home])
    <2>1. ASSUME NEW u \in Tab, u # t
          PROVE  ClaimStored(tab'[u].op, row'[tab'[u].home])
      <3>1. tab[u].home \in Browser /\ tab[u].home # home
        BY <1>2, <2>1, ViewTyped
      <3>2. tab'[u] = tab[u] /\ row'[tab[u].home] = row[tab[u].home]
        BY <1>1, <2>1, <3>1
      <3>. QED  BY <1>2, <3>2 DEF ClaimsStored
    <2>2. tab'[t] = w.tab /\ row'[home] = w.row /\ tab'[t].home = home
      BY <1>1 DEF home
    <2>. QED  BY <1>6, <2>1, <2>2
  <1>8. \A u \in Tab : ClaimStored(tab[u].op, row[tab[u].home])'
    BY <1>2, <1>7 DEF ClaimStored, InCloud
  <1>. QED  BY <1>8 DEF ClaimsStored

\* The article is created under a claim the cloud has, so its draft is locked with its text.
LEMMA ArticleKept ==
  ASSUME PInv, NEW t \in Tab, NEW w, Moves(t, w)
  PROVE  ArticleLocked'
  <1>1. ArticleLocked /\ cloud' = cloud /\ (posted' = posted \/ Posts(t, w))
    BY DEF PInv, Moves
  <1>2. CASE posted' = posted
    BY <1>1, <1>2 DEF ArticleLocked, Free, Latest
  <1>3. CASE Posts(t, w)
    <2>1. tab[t].op.stage = "send" /\ posted' = tab[t].op.active.text
      BY <1>3 DEF Posts
    <2>2. Free => cloud # <<>> /\ Locked(Latest.draft) /\ Latest.draft.text = tab[t].op.active.text
      BY <2>1, SentIsClaimed DEF PInv, Follows
    <2>. QED  BY <1>1, <2>1, <2>2 DEF ArticleLocked, Free, Latest
  <1>. QED  BY <1>1, <1>2, <1>3

LEMMA TabStepProtected ==
  ASSUME PInv, NEW t \in Tab, TabStep(t)
  PROVE  PInv'
  <1>1. SInv /\ Types /\ TabsApart
    BY DEF PInv, SInv
  <1>2. PICK w : Moves(t, w)
    BY <1>1, TabStepForms DEF Moves
  <1>. DEFINE v == View(t)
  <1>3. /\ v \in Views /\ w \in Views /\ Sound(v) /\ Alone(v.tab, v.sync)
        /\ \A b \in Browser : sync'[b] = IF b = tab[t].home THEN w.sync ELSE sync[b]
        /\ \A u \in Tab : tab'[u] = (IF u = t THEN w.tab ELSE tab[u]) /\ tab'[u].home = tab[u].home
        /\ tab[t].home \in Browser
    BY <1>2, Moved
  <1>4. SInv'
    BY <1>1, TabStepSound
  <1>5. TabsApart'
    BY <1>1, <1>3 DEF TabsApart
  <1>6. ASSUME NEW u \in Tab
        PROVE  Alone(tab[u], sync[tab[u].home])'
    <2>1. Alone(w.tab, w.sync)
      BY <1>1, <1>2, <1>3, AloneKept DEF Moves
    <2>2. CASE u = t
      BY <1>3, <2>1, <2>2
    <2>3. CASE u # t
      <3>1. tab[u].home \in Browser /\ tab[u].home # tab[t].home
        BY <1>1, <2>3, ViewTyped DEF TabsApart
      <3>2. tab'[u] = tab[u] /\ sync'[tab[u].home] = sync[tab[u].home]
        BY <1>3, <2>3, <3>1
      <3>. QED  BY <3>2 DEF PInv
    <2>. QED  BY <2>2, <2>3
  <1>7. \A c \in Guarded' : Loyal(c)'
    BY <1>2, LoyalKept
  <1>. QED  BY <1>2, <1>4, <1>5, <1>6, <1>7, DraftsKept, OpsKept, ClaimsKept, ArticleKept DEF PInv

-----------------------------------------------------------------------------
(* The cloud takes a mutation: the claims stay.                            *)

\* What the cloud takes over a draft with a guarded claim has the claim.
LEMMA TakenFollows ==
  ASSUME SInv, NEW req \in Requests, Takes(req), NEW c, Loyal(c), cloud # <<>>, Follows(Latest.draft, c)
  PROVE  req.draft = None \/ Follows(req.draft, c)
  <1>1. RequestLoyal(req, c)
    BY DEF Loyal
  <1>2. req.expected = Len(cloud) /\ Len(cloud) > 0
    BY DEF Takes, Accepted, SInv, Types
  <1>. QED  BY <1>1, <1>2 DEF RequestLoyal, Latest

\* The article that is public stays as it was, and so does its claim.
LEMMA PublicStays ==
  ASSUME PInv, NEW req \in Requests, Takes(req) \/ cloud' = cloud, posted' = posted, posted # None, Free'
  PROVE  /\ Public /\ cloud' # <<>> /\ Locked(Latest.draft)' /\ Latest'.draft.text = posted
         /\ Latest'.draft.claim = Latest.draft.claim
  <1>1. SInv /\ ArticleLocked
    BY DEF PInv
  <1>2. CASE cloud' = cloud
    BY <1>1, <1>2 DEF ArticleLocked, Free, Latest, Public
  <1>3. CASE Takes(req)
    <2>1. cloud # <<>>
      BY <1>1 DEF ArticleLocked, Free
    <2>2. Latest.draft # None /\ (req.draft # None => Permits(Latest.draft, req.draft))
      BY <1>3, <2>1 DEF Takes, Accepted
    <2>3. Locked(Latest.draft) /\ Latest.draft.text = posted /\ Public
      BY <1>1, <2>1, <2>2 DEF ArticleLocked, Free, Public
    <2>4. cloud' # <<>> /\ Latest' = [id |-> req.id, draft |-> req.draft]
      <3>1. Len(cloud') = Len(cloud) + 1 /\ cloud'[Len(cloud')] = [id |-> req.id, draft |-> req.draft] /\ Len(cloud) \in Nat
        BY <1>1, <1>3, CloudGrows
      <3>2. cloud' \in Seq(Entry)
        BY <1>1, <1>3, CloudGrows
      <3>. QED  BY <3>1, <3>2 DEF Latest
    <2>5. Latest'.draft = req.draft /\ req.draft # None
      BY <2>4 DEF Free
    <2>6. Loyal(Latest.draft.claim)
      BY <2>3 DEF PInv, Guarded
    <2>7. Follows(req.draft, Latest.draft.claim)
      BY <1>1, <1>3, <2>1, <2>2, <2>3, <2>5, <2>6, TakenFollows DEF Follows
    <2>. QED  BY <2>2, <2>3, <2>4, <2>5, <2>7 DEF Permits, Follows, Locked
  <1>. QED  BY <1>2, <1>3

\* A step that moves the cloud on, and the stage of a sync with it at most.
LEMMA GrowthProtected ==
  ASSUME PInv, NEW req \in Requests, Takes(req) \/ cloud' = cloud, row' = row, sync' = sync, used' = used, posted' = posted,
         SInv', Requests' \subseteq Requests, \A u \in Tab : Alone(tab[u], sync[tab[u].home])',
         \A u \in Tab : /\ tab'[u].op = tab[u].op /\ tab'[u].cur = tab[u].cur /\ tab'[u].known = tab[u].known
                        /\ tab'[u].home = tab[u].home
                        /\ tab'[u].job.pc = "journal" => /\ tab[u].job.pc = "journal" /\ tab'[u].job.pend = tab[u].job.pend
                                                         /\ tab'[u].job.base = tab[u].job.base
  PROVE  PInv'
  <1>1. SInv /\ Types /\ TabsApart /\ DraftsOK /\ OpsOK /\ ClaimsStored /\ \A c \in Guarded : Loyal(c)
    BY DEF PInv, SInv
  <1>2. /\ Len(cloud) \in Nat /\ Len(cloud') \in Nat /\ Len(cloud') >= Len(cloud)
        /\ \A i \in 1..Len(cloud) : cloud'[i] = cloud[i]
        /\ \A i \in 1..Len(cloud') : \/ i \in 1..Len(cloud)
                                     \/ i = Len(cloud') /\ cloud'[i].draft = req.draft
    BY <1>1, CloudGrows
  <1>3. DOMAIN cloud = 1..Len(cloud) /\ DOMAIN cloud' = 1..Len(cloud')
    <2>1. cloud \in Seq(Entry)
      BY <1>1 DEF Types
    <2>2. cloud' \in Seq(Entry)
      BY <1>1, CloudGrows
    <2>. QED  BY <1>2, <2>1, <2>2
  <1>4. InPlay' \subseteq InPlay
    <2>1. \A i \in DOMAIN cloud' : cloud'[i].draft \in InPlay \cup {None}
      BY <1>2, <1>3 DEF InPlay
    <2>2. \A r \in Requests' : r.draft \in InPlay \cup {None}
      BY DEF InPlay
    <2>3. \A b \in Browser : row[b] # None => row[b].draft \in InPlay \cup {None}
      BY DEF InPlay
    <2>4. \A u \in Tab : /\ tab'[u].cur \in InPlay \cup {None}
                         /\ tab'[u].job.pc = "journal" => tab'[u].job.pend.draft \in InPlay \cup {None}
      BY DEF InPlay
    <2>5. InPlay' = ({cloud'[i].draft : i \in DOMAIN cloud'} \cup {r.draft : r \in Requests'}
                      \cup {row'[b].draft : b \in {a \in Browser : row'[a] # None}}
                      \cup {tab'[u].cur : u \in Tab}
                      \cup {tab'[u].job.pend.draft : u \in {x \in Tab : tab'[x].job.pc = "journal"}}) \ {None}
      BY DEF InPlay
    <2>. QED  BY <2>1, <2>2, <2>3, <2>4, <2>5
  <1>5. DraftsOK'
    BY <1>1, <1>4 DEF DraftsOK
  <1>6. Public' => Public /\ Latest'.draft.claim = Latest.draft.claim
    BY PublicStays DEF Public, Free
  <1>7. \A u \in Tab : (Claiming(u)' <=> Claiming(u)) /\ (Publishing(u)' <=> Publishing(u))
    BY DEF Claiming, Publishing
  <1>8. OpsOK'
    <2>1. \A u \in Tab : Publishing(u)' => tab'[u].op.claim \in 1..used.events
      BY <1>1, <1>7 DEF OpsOK
    <2>2. \A u, x \in Tab : (Publishing(u) /\ Publishing(x) /\ tab[u].op.claim = tab[x].op.claim)' => u = x
      BY <1>1, <1>7 DEF OpsOK
    <2>3. \A u \in Tab : tab'[u].op.stage = "review" => \A d \in InPlay' : d.claim # tab'[u].op.claim
      BY <1>1, <1>4 DEF OpsOK
    <2>4. Public' => \A u \in Tab : Claiming(u)' => tab'[u].op.claim # Latest'.draft.claim
      BY <1>1, <1>6, <1>7 DEF OpsOK
    <2>. QED  BY <2>1, <2>2, <2>3, <2>4 DEF OpsOK
  <1>9. Guarded' \subseteq Guarded
    <2>1. ASSUME NEW c \in Guarded'
          PROVE  (\E u \in Tab : Claiming(u)' /\ c = tab'[u].op.claim) \/ (Public' /\ c = Latest'.draft.claim)
      BY <2>1 DEF Guarded
    <2>. QED  BY <1>6, <1>7, <2>1 DEF Guarded
  <1>10. ASSUME NEW c \in Guarded'
         PROVE  Loyal(c)'
    <2>1. Loyal(c)
      BY <1>1, <1>9
    <2>2. \A r \in Requests : r.expected \in Nat /\ r.expected <= Len(cloud)
      BY <1>1, CloudGrows, RequestsTyped
    <2>3. \A b \in Browser : BrowserLoyal(row[b], sync[b], c)'
      <3>1. \A b \in Browser : sync[b].server \in Nat /\ sync[b].server <= Len(cloud)
        BY <1>1 DEF Types, SyncOK, State
      <3>2. \A b \in Browser : BrowserLoyal(row[b], sync[b], c)
        BY <2>1 DEF Loyal
      <3>3. \A b \in Browser : sync[b].server > 0 => cloud'[sync[b].server] = cloud[sync[b].server]
        BY <1>2, <3>1
      <3>. QED  BY <3>2, <3>3 DEF BrowserLoyal
    <2>4. \A u \in Tab : TabLoyal(tab[u], row[tab[u].home], c)'
      <3>1. \A u \in Tab : tab[u].job.pc = "journal" => tab[u].job.base.server \in Nat /\ tab[u].job.base.server <= Len(cloud)
        <4>1. \A u \in Tab : tab[u].job.pc = "journal" => tab[u].job.base \in State /\ tab[u].job.base.server <= Len(cloud)
          BY <1>1, ViewTyped DEF Types, JobOK, Job
        <4>. QED  BY <4>1 DEF State
      <3>2. \A u \in Tab : tab[u].job.pc = "journal" /\ tab[u].job.base.server > 0
                             => cloud'[tab[u].job.base.server] = cloud[tab[u].job.base.server]
        BY <1>2, <3>1
      <3>3. \A u \in Tab : TabLoyal(tab[u], row[tab[u].home], c)
        BY <2>1 DEF Loyal
      <3>4. ASSUME NEW u \in Tab
            PROVE  TabLoyal(tab[u], row[tab[u].home], c)'
        <4>1. /\ tab'[u].cur = tab[u].cur /\ tab'[u].known = tab[u].known /\ row'[tab'[u].home] = row[tab[u].home]
              /\ tab'[u].job.pc = "journal" =>
                   /\ tab[u].job.pc = "journal" /\ tab'[u].job.pend = tab[u].job.pend /\ tab'[u].job.base = tab[u].job.base
                   /\ tab[u].job.base.server > 0 => cloud'[tab[u].job.base.server] = cloud[tab[u].job.base.server]
          BY <3>2
        <4>2. TabLoyal(tab[u], row[tab[u].home], c)
          BY <3>3
        <4>. QED  BY <4>1, <4>2 DEF TabLoyal
      <3>. QED  BY <3>4
    <2>5. \A r \in Requests' : RequestLoyal(r, c)'
      <3>1. \A r \in Requests : r.expected > 0 => cloud'[r.expected] = cloud[r.expected]
        BY <1>2, <2>2
      <3>. QED  BY <2>1, <3>1 DEF Loyal, RequestLoyal
    <2>6. ASSUME NEW i \in DOMAIN cloud', NEW j \in DOMAIN cloud', i <= j, Follows(cloud'[i].draft, c)
          PROVE  cloud'[j].draft = None \/ Follows(cloud'[j].draft, c)
      <3>0. i \in Nat /\ j \in Nat /\ 1 <= i /\ i <= j /\ j <= Len(cloud')
            /\ (j \notin 1..Len(cloud) => j = Len(cloud') /\ cloud'[j].draft = req.draft)
            /\ (i \notin 1..Len(cloud) => i = Len(cloud'))
        <4>1. i \in 1..Len(cloud') /\ j \in 1..Len(cloud')
          BY <1>3
        <4>2. i <= j
          BY <2>6
        <4>. QED  BY <1>2, <4>1, <4>2
      <3>1. CASE j \in 1..Len(cloud)
        <4>1. i \in 1..Len(cloud)
          BY <1>2, <3>0, <3>1
        <4>. QED  BY <1>2, <1>3, <2>1, <2>6, <3>1, <4>1 DEF Loyal
      <3>2. CASE i = j
        BY <2>6, <3>2
      <3>3. CASE j \notin 1..Len(cloud) /\ i # j
        <4>1. j = Len(cloud') /\ cloud'[j].draft = req.draft /\ i \in 1..Len(cloud)
          BY <1>2, <3>0, <3>3
        <4>2. Takes(req)
          BY <1>2, <1>3, <3>3
        <4>3. cloud # <<>> /\ Len(cloud) \in DOMAIN cloud /\ i <= Len(cloud) /\ cloud'[i] = cloud[i]
          <5>1. Len(cloud) # 0 /\ Len(cloud) \in 1..Len(cloud) /\ i <= Len(cloud) /\ cloud'[i] = cloud[i]
            BY <1>2, <4>1
          <5>2. cloud = <<>> => Len(cloud) = 0
            OBVIOUS
          <5>. QED  BY <1>3, <5>1, <5>2
        <4>4. Latest.draft # None
          BY <4>2, <4>3 DEF Takes, Accepted
        <4>5. Follows(Latest.draft, c)
          BY <1>3, <2>1, <2>6, <4>1, <4>3, <4>4 DEF Loyal, Latest
        <4>. QED  BY <1>1, <2>1, <4>1, <4>2, <4>3, <4>5, TakenFollows
      <3>. QED  BY <3>1, <3>2, <3>3
    <2>. QED  BY <2>3, <2>4, <2>5, <2>6 DEF Loyal
  <1>11. ClaimsStored'
    <2>1. ASSUME NEW c, InCloud(c)
          PROVE  InCloud(c)'
      <3>1. PICK i \in DOMAIN cloud : Follows(cloud[i].draft, c)
        BY <2>1 DEF InCloud
      <3>2. i \in 1..Len(cloud') /\ cloud'[i] = cloud[i]
        <4>1. i \in 1..Len(cloud)
          BY <1>3, <3>1
        <4>. QED  BY <1>2, <4>1
      <3>. QED  BY <1>3, <3>1, <3>2 DEF InCloud
    <2>2. ASSUME NEW u \in Tab
          PROVE  ClaimStored(tab[u].op, row[tab[u].home])'
      <3>1. ClaimStored(tab[u].op, row[tab[u].home])
        BY <1>1 DEF ClaimsStored
      <3>2. tab[u].op.stage = "send" => \E i \in DOMAIN cloud' : /\ Follows(cloud'[i].draft, tab[u].op.claim)
                                                                 /\ cloud'[i].draft.text = tab[u].op.active.text
        BY <1>2, <1>3, <3>1 DEF ClaimStored
      <3>. QED  BY <2>1, <3>1, <3>2 DEF ClaimStored
    <2>. QED  BY <2>2 DEF ClaimsStored
  <1>12. ArticleLocked'
    BY PublicStays DEF ArticleLocked
  <1>13. TabsApart'
    BY <1>1 DEF TabsApart
  <1>. QED  BY <1>5, <1>8, <1>10, <1>11, <1>12, <1>13 DEF PInv

\* A late request that expects the last revision was derived from it, and has its claim.
LEMMA ArrivesLateProtected ==
  ASSUME PInv, ArrivesLate
  PROVE  PInv'
  <1>1. SInv /\ SInv'
    BY ArrivesLateSound DEF PInv
  <1>2. PICK req \in late : Mutate(req) /\ late' = Alive(late \ {req}, Len(cloud')) /\ UNCHANGED <<row, sync, tab, posted, used>>
    BY DEF ArrivesLate
  <1>3. req \in Requests /\ (Takes(req) \/ cloud' = cloud)
    BY <1>2, MutateTakes DEF Requests
  <1>4. Requests' \subseteq Requests
    <2>1. late' \subseteq late
      BY <1>2 DEF Alive
    <2>. QED  BY <1>2, <2>1 DEF Requests
  <1>. QED  BY <1>1, <1>2, <1>3, <1>4, GrowthProtected DEF PInv

\* So was a request that is answered.
LEMMA SendProtected ==
  ASSUME PInv, NEW t \in Tab, Send(t)
  PROVE  PInv'
  <1>1. SInv /\ SInv' /\ Types /\ TabsApart
    BY SendSound DEF PInv, SInv
  <1>. DEFINE v == View(t)
              req == tab[t].job.pend
  <1>2. UNCHANGED posted /\ late' \subseteq late /\ Len(cloud') \in Nat
    BY <1>1, SendForms
  <1>3. PICK w : Turned(t, w) /\ Sent(v, w)
    BY <1>1, SendForms
  <1>4. /\ v \in Views /\ Sound(v) /\ v.tab = tab[t] /\ v.row = row[tab[t].home] /\ v.sync = sync[tab[t].home]
        /\ v.ids = used.ids /\ v.events = used.events /\ tab[t].home \in Browser /\ Alone(tab[t], sync[tab[t].home])
    BY <1>1, ViewSound, ViewTyped DEF PInv
  <1>. HIDE DEF v
  <1>5. /\ Carries(v, w) /\ tab[t].job.pc = "send" /\ w.tab.job.pend = req /\ w.tab.job.pc \in {"answered", "refused"}
        /\ Takes(req) \/ cloud' = cloud
        /\ w.tab.job.doc # None => w.tab.job.doc.rev = Len(cloud')
    BY <1>3, <1>4 DEF Sent, Carries
  <1>6. w.tab.home = tab[t].home
    BY <1>4, <1>5 DEF Carries
  <1>7. /\ row' = row /\ sync' = sync
        /\ \A u \in Tab : tab'[u] = (IF u = t THEN w.tab ELSE tab[u]) /\ tab'[u].home = tab[u].home
        /\ used' = used
    <2>1. w.row = row[tab[t].home] /\ w.sync = sync[tab[t].home] /\ w.ids = used.ids /\ w.events = used.events
      BY <1>4, <1>5 DEF Carries
    <2>2. row' = row /\ sync' = sync /\ used' = used
      BY <1>1, <1>3, <1>4, <2>1 DEF Turned, Types
    <2>3. \A u \in Tab : tab'[u] = (IF u = t THEN w.tab ELSE tab[u]) /\ tab'[u].home = tab[u].home
      BY <1>1, <1>3, <1>6, Steps
    <2>. QED  BY <2>2, <2>3
  <1>8. req \in Requests
    BY <1>5 DEF Requests, Carrying
  <1>9. Requests' \subseteq Requests
    <2>1. \A u \in Tab : tab'[u].job.pc \in Carrying => tab'[u].job.pend \in Requests
      BY <1>5, <1>7, <1>8 DEF Requests
    <2>. QED  BY <1>2, <1>7, <2>1 DEF Requests
  <1>10. ASSUME NEW u \in Tab
         PROVE  Alone(tab[u], sync[tab[u].home])'
    <2>1. CASE u # t
      BY <1>7, <2>1 DEF PInv
    <2>2. CASE u = t
      <3>1. sync[tab[t].home].server \in Nat /\ sync[tab[t].home].server <= Len(cloud) /\ Len(cloud') >= Len(cloud)
            /\ Len(cloud) \in Nat
        BY <1>1, <1>4, <1>5, <1>8, CloudGrows DEF Types, SyncOK, State
      <3>2. Alone(w.tab, sync[tab[t].home])
        BY <1>2, <1>4, <1>5, <3>1 DEF Alone, Carries, Carrying
      <3>. QED  BY <1>7, <2>2, <3>2
    <2>. QED  BY <2>1, <2>2
  <1>11. \A u \in Tab : /\ tab'[u].op = tab[u].op /\ tab'[u].cur = tab[u].cur /\ tab'[u].known = tab[u].known
                        /\ tab'[u].home = tab[u].home
                        /\ tab'[u].job.pc = "journal" => /\ tab[u].job.pc = "journal" /\ tab'[u].job.pend = tab[u].job.pend
                                                         /\ tab'[u].job.base = tab[u].job.base
    BY <1>4, <1>5, <1>7 DEF Carries
  <1>. QED  BY <1>1, <1>2, <1>5, <1>7, <1>8, <1>9, <1>10, <1>11, GrowthProtected

-----------------------------------------------------------------------------
(* Publication is protected.                                               *)

LEMMA InitProtected == Init /\ TabsApart => PInv
  <1>. SUFFICES ASSUME Init, TabsApart PROVE PInv
    OBVIOUS
  <1>1. SInv
    BY InitSound
  <1>2. cloud = <<>> /\ late = {} /\ posted = None /\ used.events = 0 /\ \A b \in Browser : sync[b] = NoSync
    BY DEF Init
  <1>3. \A b \in Browser : row[b] = None \/ row[b] = [rev |-> 1, draft |-> First]
    BY DEF Init
  <1>4. \A t \in Tab : tab[t].job = NoJob /\ tab[t].op = NoOp /\ tab[t].cur \in {None, First}
    BY DEF Init
  <1>5. Requests = {} /\ DOMAIN cloud = {}
    BY <1>2, <1>4 DEF Requests, NoSync, NoJob, Carrying
  <1>6. InPlay \subseteq {First}
    BY <1>3, <1>4, <1>5 DEF InPlay, NoJob
  <1>7. DraftsOK
    BY <1>2, <1>6 DEF DraftsOK, First
  <1>8. OpsOK /\ Guarded = {} /\ ClaimsStored /\ ArticleLocked
    BY <1>2, <1>4 DEF OpsOK, Publishing, Claiming, Public, Guarded, ClaimsStored, ClaimStored, ArticleLocked, NoOp
  <1>9. \A t \in Tab : Alone(tab[t], sync[tab[t].home])
    BY <1>4 DEF Alone, NoJob, NoOp, Carrying
  <1>. QED  BY <1>1, <1>7, <1>8, <1>9 DEF PInv

LEMMA NextProtected ==
  ASSUME PInv, [Next]_vars
  PROVE  PInv'
  <1>1. CASE UNCHANGED vars
    <2>1. cloud' = cloud /\ late' = late /\ row' = row /\ sync' = sync /\ tab' = tab /\ posted' = posted /\ used' = used
      BY <1>1 DEF vars
    <2>2. SInv'
      BY <1>1, StutterSound DEF PInv
    <2>. QED  BY SMTT(30), <2>1, <2>2 DEF PInv, TabsApart, DraftsOK, OpsOK, InPlay, Requests, Publishing, Claiming, Public, Guarded, Latest,
                                Loyal, BrowserLoyal, TabLoyal, RequestLoyal, ClaimsStored, ClaimStored, InCloud, ArticleLocked, Free
  <1>. QED  BY <1>1, NextSteps, ArrivesLateProtected, SendProtected, TabStepProtected

\* No step moves a tab to another browser.
LEMMA HomesStay ==
  ASSUME SInv, [Next]_vars, TabsApart'
  PROVE  TabsApart
  <1>1. CASE UNCHANGED vars
    BY <1>1 DEF vars, TabsApart
  <1>2. CASE ArrivesLate
    BY <1>2 DEF ArrivesLate, TabsApart
  <1>3. ASSUME NEW t \in Tab, TabStep(t) \/ Send(t)
        PROVE  TabsApart
    <2>1. PICK w : Turned(t, w) /\ w.tab.home = tab[t].home
      <3>1. CASE TabStep(t)
        BY <3>1, TabStepForms, FormKept, ViewSound DEF SInv, Kept
      <3>2. CASE Send(t)
        <4>1. PICK w : Turned(t, w) /\ Sent(View(t), w)
          BY <3>2, SendForms DEF SInv
        <4>2. w.tab.home = View(t).tab.home
          BY <4>1 DEF Sent, Carries
        <4>. QED  BY <4>1, <4>2, ViewSound
      <3>. QED  BY <1>3, <3>1, <3>2
    <2>2. \A u \in Tab : tab'[u].home = tab[u].home
      BY <2>1, Steps DEF SInv
    <2>. QED  BY <2>2 DEF TabsApart
  <1>. QED  BY <1>1, <1>2, <1>3, NextSteps

\* While no two tabs share a browser, an article is sent only while the cloud holds its
\* claim on that text, and a draft whose article exists stays locked with the text of the
\* article (ArticlesWorkspace: a claim is acknowledged before the article is created; the
\* AppView lets no mutation take a lock or a text off a claimed or published draft but
\* for the release of the claim itself).
THEOREM ArticleProtected == Spec => []PublicationProtected
  <1>. DEFINE I == TabsApart => PInv
  <1>1. Init => I
    BY InitProtected
  <1>2. SInv /\ I /\ [Next]_vars => I'
    BY NextProtected, HomesStay
  <1>3. I => PublicationProtected
    <2>. SUFFICES ASSUME PInv PROVE PublicationProtected
      BY DEF PublicationProtected
    <2>1. \A t \in Tab : SentUnderClaim(t)
      BY SentIsClaimed DEF PInv, SentUnderClaim, Follows
    <2>. QED  BY <2>1 DEF PInv, PublicationProtected, ArticleLocked
  <1>. HIDE DEF I
  <1>4. Spec => []I
    BY <1>1, <1>2, SyncSound, PTL DEF Spec
  <1>. QED  BY <1>3, <1>4, PTL
=============================================================================
