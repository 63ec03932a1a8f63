# Verification project for The Social Wire

TLA+ modules, TLC configurations and TLAPS proofs for the core logic of The
Social Wire: a set of services that ingest an AT Protocol event stream
(Jetstream V2) into PostgreSQL, apply it to feeds and rankings, and keep the
reader's state on the reader's own PDS.

Contents: [inventory](#1-inventory), [plan](#2-plan), [modules](#3-modules-and-the-code-they-model),
[runs](#4-what-each-run-checks), [bounds](#5-bounds), [fairness](#6-fairness),
[findings](#7-findings), [proofs](#8-proofs), [what is not covered](#9-what-is-not-covered).

## 1. Inventory

| Component | State it keeps | Operations | Talks to | What is hard | What makes it correct |
|---|---|---|---|---|---|
| **Jetstream intake lane** (`services/jetstream-ingest/internal/store/automatic_recovery.go`, `internal/service/automatic_recovery.go`) | controller row (live cursor, owed gap, status), recovery jobs, lane checkpoint; per run: subscription cursor, last complete batch, claimed job | start, subscribe, stage a live batch, record a gap, block a discontinuity, claim / stage / complete / release a job, count bytes, pause | provider's live stream and archive; the inbox; PostgreSQL | two goroutines of a run and several runs over the same rows; a lost lease noticed late; a commit whose confirmation is lost; crash between any two transactions | nothing the live cursor passed is lost; cursors never rewind; a finished job stays finished; a discontinuity fails closed; coverage is reported honestly; fresh intake never waits for the archive |
| **Lane lifecycle** (`cmd/jetstream-ingest/main.go`, `internal/service/supervisor.go`) | one lease row per lane | acquire with retry, renew, release, restart | PostgreSQL | overlapping deployments | one fence in force at a time |
| **Durable stage transaction** (`internal/store/postgres.go`, `poison_records.go`) | inbox rows, poison evidence, checkpoint, recovery anchors, replay usage | stage batch, seal snapshot, record usage | the lane | burst prefixes commit before the batch is complete | all of a transaction or nothing, under the fence |
| **Sequential replay and bounded snapshots** (`internal/service/runner.go`, `replay_canary.go`) | replay_state, sealed sequence, snapshot rows | archive then live, snapshot completion | provider | one subscription crossing from archive to live; a whole-job deadline | the seal covers the archive; a snapshot completes once |
| **Replay byte budget, admission pacing** (`internal/ingest/budget.go`, `admission_limiter.go`) | rolling hourly buckets, durable usage | reserve, account, wait | replay | restart between fetch and record | bytes never exceed the limit by more than one batch |
| **Wire admission, UNLOGGED inbox recovery** (`internal/store/wire_signal_admission.go`, anchors in `postgres.go`) | admission rows, anchors, UNLOGGED inbox | admit, anchor, reconcile after truncation | PostgreSQL crash recovery | the inbox is truncated by a database crash, its side tables are not | everything unapplied is replayed again |
| **AppView durable inbox** (`packages/go/thinappviewcore/inbox_*.go`, `appviewworkercore/inbox_processor.go`) | inbox rows (pending, leased, retry, applied, dead letter, filtered), reconciliation requests, applied watermark | claim, filter, apply, retry, dead-letter, renew, advance the watermark, reconcile | lane (stages rows), projector, repository recovery | several workers; a lease that expires under a slow worker; rows staged below applied ones by archive recovery | per-repository order; the watermark never passes an unsettled row; dead letters are reconciled |
| **Event projection, repository recovery** (`event_projector.go`, `recovery_engine.go`, `repository_recovery.go`) | projected records, publication scopes, repository snapshots | project, recover a repository | PDS, inbox | a snapshot racing the events of the same repository | an older view never replaces a newer one |
| **AppView backfill** (`backfill_*.go`) | jobs with leases, cursors | claim, execute by PDS or by replay, finish | PDS | resume after a crash, terminal states | a job finishes once, from its own cursor |
| **Wire inbox and record fences** (`wireworkercore/inbox_*.go`, `standard_record_*.go`) | Wire inbox rows, per-record fences | scoped claim, apply, reprocess | lane, ranking | replay and live versions of one record | a fenced record never regresses |
| **Wire ranking generations** (`wireworkercore/generation*.go`, `cycle.go`) | generations, published pointer | build, validate, publish | Wire inbox, readers | a build racing a newer one | readers see a complete generation |
| **PDS read state v2** (`packages/read-state/src/v2*.ts`) | local outbox, head record and chunks on the PDS, device receipts | coalesce, flush by compare-and-swap, collect garbage | PDS, other devices | lost answers, concurrent devices | no read mark is lost; no referenced chunk is collected |
| **Web composer drafts** (`apps/web`: `useSocialComposerDraft.ts`, `composerDraftStorage.ts`, `blueskyDraftClient.ts`, `blueskyThreadClient.ts`, `socialPublicationCleanup.ts`) | local copies of a composition in IndexedDB with the journal of its upstream draft and of its posts; the open editor | autosave, create and update upstream with reconciliation, resume, close, publish, archive, clean up | the draft service (no idempotent create, no conditional update, lists that may be old), the PDS | lost answers of calls that cannot be repeated; several copies of one composition; page crashes between any two steps | one draft, one post, no saved text lost, nothing left behind |
| **Web article drafts** (`apps/web`: `lib/articles/*`, `useArticleDrafts.ts`, `ArticlesWorkspace.tsx`; the AppView's `SocialDraftService+ArticleWrites.swift`) | per browser a row and a sync state with a journalled mutation; per tab the editor; the AppView's revisioned draft | save, reconcile, list, delete, claim, publish, check a publication | AppView, PDS, other tabs and browsers | reads used after an await while other tabs write the same rows; a mutation that lands late; two devices that publish | acknowledged means stored; a deletion is pursued; one publisher; no unsynced text dropped |
| **PDS read state v1** (`outbox.ts`, `repository.ts`, `migration.ts`) | outbox, records | flush, migrate | PDS | migration of a device that is offline | marks survive migration |
| **Refresh leases, counters** (`refresh_lease.go`, `counter_store.go`, `selection_store.go`) | lease rows, counters | acquire, refresh, count | workers | expiry under a slow refresh | one refresher's result is kept |
| RSS ingestion, indexing runtime, Redis clients, gateway, operations, web and Apple clients, podcast worker, migrations | - | - | - | mostly I/O | see [section 9](#9-what-is-not-covered) |

The intake lane is the root of everything else: all feeds, rankings and
watermarks are computed from rows it staged, so a sequence it skips is lost to
every reader. It is modelled first. `PROJECT.json` lists the hazards of the
components at their lines.

## 2. Plan

1. **IngressLane** with its abstract **CoverageLedger** (done, with proofs).
2. **DurableInbox** (done, with proofs): workers' leases, retries, dead letters,
   repository restores, the applied watermark and the projected content.
3. **ReadStateOutbox** with its abstract **ReadLog**, and **ReadStateGC** (done,
   with proofs).
4. **SocialComposerDraft** and **ArticleDraftSync** (done, with proofs), the two
   draft stores of the web application.
5. Not begun: **WireCrashRecovery** (anchors, truncation of the UNLOGGED tables,
   admission, reconcile), **SnapshotLane** (sequential replay) and **ReplayBudget**,
   **WireInbox** (scoped claims, record fences), **BackfillJob** (which writes the
   same content_items as the inbox's workers), **RefreshLease**, and the stage
   transaction of a lane composed with DurableInbox.

Every safety property of the passing runs is proved; section 8 names the hypotheses
of those that hold only under one. What is left is in the modules not begun.

Proofs follow the models: the inductive invariant of each module first, then
its action properties, then its refinement.

## 3. Modules and the code they model

| Module | What it is |
|---|---|
| `IngressLane` | the intake lane: lease, live tail, gaps, jobs, archive replay; all its properties |
| `CoverageLedger` | what the lane promises: frontier, staged set, ledger of owed sequences, halt |
| `IngressLaneLedger` | the refinement mapping and `ImplementsLedger` |
| `MCIngressLane` | the instance TLC runs, with the symmetry of runs |
| `IngressLaneProofs` | type correctness, the inductive invariant, the safety invariants and the action properties |
| `IngressLaneLedgerProofs` | the refinement |
| `DurableInbox` | the AppView inbox, its projection workers, dead letters and repository restores; all their properties |
| `MCDurableInbox` | the instances TLC runs: which event belongs to which repository and writes which records |
| `DurableInboxProofs` | type correctness, the inductive invariant, safety and action properties of the inbox |
| `InboxContentProofs` | that the projected content is current while renewals are in time |
| `ReadStateOutbox` | the devices' outboxes of read marks, the manifest they share, and the AppView's projection of it |
| `ReadLog` | what read marks promise: every mark enters one log once, in its device's order, and the AppView shows a growing prefix |
| `ReadStateOutboxProofs` | types, receipts, compaction, what devices drop, and the refinement of `ReadLog` |
| `ReadStateGC` | uploads of chunks, the swap of the manifest and the collection of chunks no manifest refers to |
| `ReadStateGCProofs` | types, the manifest's chunks, publications and the grace period |
| `SocialComposerDraft` | one composition of the web composer: copies, upstream draft, posts and cleanup |
| `SocialComposerDraftProofs` | types and the five safety invariants of a composition |
| `ArticleDraftSync` | one private article draft in several tabs and browsers: sync, deletion and publication |
| `ArticleDraftSyncProofs` | types, acknowledged rows, deletions, rescued text, and publication while no two tabs share a browser |
| `MCReadStateOutbox`, `MCReadStateGC`, `MCSocialComposerDraft`, `MCArticleDraftSync` | the instances TLC runs |

### The intake lane

**State.** `lease` is the lane's row of `appview_ingestion_leases`; `ckpt` of
`appview_jetstream_checkpoints`; `ctl` of `ingestion_recovery_controllers`;
`jobs` the rows of `ingestion_recovery_jobs` in order of creation; `inbox` and
`poison` the staged sequences and the evidence rows. `phase`, `token`,
`cursor`, `lastSeq` and `child` are the memory of a lane run: its state, the
fencing token it was granted, what its subscription has staged,
`Runner.lastSeq`, and the job its second goroutine replays. `tip` and `floor`
are the provider's newest sequence and the newest one its live buffer dropped.
`due` and `spent` say that the canary deadline has passed and that the incident
byte limit is reached.

**Actions.** One transaction is one action. `AcquireLease`, `RenewLease`,
`ExpireLease`, `StopLane` and `Crash` are the lifecycle of a run;
`StartAutomaticRecovery`, `Subscribe`, `HaltOnDiscontinuity`, `Disconnect`,
`StageLive`, `MarkLiveCursorTooOld` and `BlockSourceDiscontinuity` the live
goroutine (`runAutomatic` and the store calls it makes); `ClaimRecoveryJob`,
`StageJob`, `CompleteRecoveryJob`, `ReleaseRecoveryJob`, `ReleaseFails`,
`SpendIncidentBudget` and `PauseAutomaticRecovery` the recovery goroutine
(`runRecoveryJobs`). `StageLive` is the whole of `stageBatchTransaction` for a
live lane: seam and job registration, rows, evidence, controller and checkpoint
together, with the in-memory `lastSeq` either moved (complete batch, confirmed
commit) or not (a burst prefix, or a commit whose answer was lost).

The provider is external and modelled from how the code uses it: it emits,
drops its oldest buffered event, answers `CursorTooOld` below its buffer and
`FutureCursor` above its tip, and may restart its sequence.

**Abstractions.** Every sequence is an event of the lane's collections (a
filtered-out sequence needs no row). Byte counters are one flag; etags, ranges,
timestamps, error texts and digests are left out. The trigger
`preserve_ingestion_recovery_identity` is not used: range immutability is shown
of the code's own statements. Nothing in the repository sets a poison record to
`repaired`, so evidence is never removed. The Wire admission limits, recovery
anchors and snapshot lanes belong to modules of the plan.

### The AppView inbox

**State.** `rows` is `appview_ingestion_inbox` and `requests`
`appview_ingestion_reconciliation_requests` (one request per event, since an
event becomes a dead letter once); `staged` and `watermark` are the checkpoint's
`last_staged_seq` and `last_applied_seq`; `content` is `content_items`, `scoped`
the repositories of `appview_publication_scopes` and `appview_viewer_feeds`.
`task` is the memory of a worker: the claim it was granted and how far it is.
`live` says that a lease has not run out, `restored` that `recovery_state` is
completed. `pds` is what the repositories have emitted.

**Actions.** A worker's loop (`Host.runInbox`, `Host.runReconciliations`) is
`FilterOutsideScope`, `Claim`, `ClaimReconciliation` and
`AdvanceAppliedWatermark`. `InboxProcessor.Process` and
`Host.processReconciliation` are `Renew`, the projection, and one outcome:
`Applied`, `AttemptFails` (`Retry`, `DeadLetter` with its request in the same
transaction, or `RetryReconciliation`), `CompleteReconciliation` (request, dead
letter and watermark together), `ClaimLost` (the fence refuses the outcome) or
`OutcomeLost` (recording it fails, which is only logged). `Project` is
`EventProjectorRuntime.Apply` for commits and accounts; a sync is
`ReadRepository`, `WriteRecords`, `FinishRestore` or `YieldRestore`, then
`Reconciled` and `Applied`. A dead letter's request is restored by the same steps.
What the fences ask differs and is kept: outcomes and renewals ask for owner and
token (`Holds`), the progress of a restore also for an unexpired lease
(`HoldsLive`), the writes to `content_items` for nothing.

**Abstractions.** A record's version is the sequence of the event that wrote it,
so "older" and "newer" can be told apart; the code keeps no such number. A
claimed batch is its items, each with a worker of its own. Backoff is left out:
a retry may be claimed at once. `Claim`, `FilterOutsideScope` and
`ClaimReconciliation` are single statements and modelled as atomic; under READ
COMMITTED with SKIP LOCKED two of them may overlap, which matters only when an
operator re-queues a request between their snapshots. A restore writes what it
read in one step; while it runs, only workers that lost their claim can write
the repository's records. Counters, caches, read marks, selections, RSS feeds,
incidents and retention are left out.

### Read marks on the PDS

**State.** In `ReadStateOutbox`, `outbox` and `entries` are a device's rows in
IndexedDB: the acknowledged receipt, the next counter, the retry barrier and the
queue. `manifest` is the one record on the PDS that all devices write by
compare-and-swap: marks (`fragments`) and per device a receipt of how many of its
marks are in and which. `appview` is the manifest the AppView projects; `flush`
the memory of a device's running flush. `history` is not in the code: it is
the order in which marks were published, for the properties.

**Actions.** `Enqueue` replaces the last queued mark on the same article only if
no attempt was made with it. A flush is `FlushStart`, `Load` (read the manifest,
check the receipt against the queue), from a version 1 manifest
`ConfirmBaseline`, `Upgrade` and `ConfirmUpgrade`, then `Swap`, `ConfirmSwap` (or
`ConfirmLoaded` when another attempt had published everything) and
`Acknowledge`. `Fail` loses an answer, fails a request or closes the tab at any of
them; `RetryLater` and `Wake` are the backoff. `Bump` is the garbage collector
of some device, which writes the same marks under a new revision; `Reconcile`
the AppView's own worker.

**Refinement.** `ImplementsLog` maps queues to issued marks, receipts to
how many are done, `history` to the log and the projected revision to what is
shown. A mark published twice, out of order or after it was replaced is not a
step of `ReadLog`.

In `ReadStateGC` chunks are names (hashes of their content), so a plan may need a
chunk that is garbage already, and `Upload` and `Probe` keep or re-create it. A
collection is `Prove` (manifest and commit), `Survey` (what is garbage, since
when), `Check`, `Collect` (one transaction, only on the proved commit) and
`Finish`. Each page reads a wall clock, which may be set, and a monotonic clock of
its own (`Clocks`, `ClockUncertain`). The bound of 2000 watched candidates is not
modelled: candidates another device deleted stay in a device's ledger, and a
device with 2000 of them finds no new garbage (`v2GarbageCollection.ts:82`).

### Composer drafts

`disk` holds the copies of one composition: under New Post, under the ID of its
upstream draft (the mirror) and, once published, under Cleanup. `run` is the open
editor with its autosave (`saver`) and its publication or closing (`op`),
`cleaner` the background cleanup. `stash` is the draft service, external and
modelled from how `blueskyDraftClient.ts` treats it: a create has no key, an
update no condition, a list may be older than the last write (`Listings`), and a
request whose caller gave up may still take effect (`late`). One local save or one
request is one action; local saves complete in the order they were called
(`writes`). `mind` is what the user typed last and whether a save of it finished with no
save of another text still waiting: text that was typed, replaced and typed again is
on disk once its first save is, but the save of the other text overwrites it before
its own.

Two histories limit what is claimed. `seen.blind` is set when a composition is
posted while it is unknown whether its draft was created: the draft may turn up
later and be posted a second time, so `PublishedOnce` and `LocalTextKept` exclude
it. With `LeftoverReopened` New Post may be reopened with a copy whose draft was
meanwhile edited from the list: `draft_leftover` shows what happens then, and the
passing run excludes it. Attachments, forks of a conflict, replacing by
the remote draft, discarding and the explicit cleanup of a finished editor are not
modelled; a list and the update sent after it are two steps, so another device's
edit in between is overwritten, as the comment at `useSocialComposerDraft.ts:434`
says.

### Article drafts

**State.** `row` and `sync` are a browser's IndexedDB rows: the draft with its local
revision; the known server revision, the acknowledged local one, the journalled
mutation, the tombstone and the recovery copy. Tabs of one browser share
them. `tab` is a tab: `cur`, `known` and `dirty` its editor (`useArticleDrafts`),
`job` its sync (one at a time, as `serialized` has it), `op` its publication
(`ArticlesWorkspace`). `cloud` is the sequence of mutations the AppView accepted:
`Mutate` is `mutateArticleDraft`, idempotent for the latest mutation, with a
revision check and the locks of a claimed or published draft. `late` holds
requests whose caller gave up.

**Actions.** `Read`, `Compare`, `Journal`, `Send`, `Settle`, `GetRefused`,
`Resolve` and `Adopt` are the stages of `reconcile`, `prepare` and `adopt`
between which other tabs act: an answer is given in one step and used in a later one, and
images are hashed or downloaded between two. `List` is `syncArticleDrafts`,
`Returned` what follows a reconciliation in each of its callers, `Installed` what
the editor takes from it. `Edit`, `Save`, `SyncStarts`, `RefreshStarts`,
`Opens`, `RemoveStarts` and `Crash` are the editor; `PublishStarts`, `Claim`,
`CheckClaim`, `Publish`, `CheckPublication` and `Recorded` a publication, whose
waits for a save and a sync are `op.wait`.

**Abstractions.** Transactions with no request, hashing or download between them
are one step. That hides one race: between the read of `deleted` and the update of
the journal (`articleDraftSync.ts:193-196`) a tombstone of another tab may be
overtaken, and its deletion is then not sent. Images, scheduling and the change of account are left out.

Seen while modelling: the recovery copy is one slot, and nothing in the interface
offers it. When a sync takes a draft of the cloud while the tab has text that is not
saved, `install` puts that text over the copy of the saved text the same step took
out of the row, so `UnsyncedTextRescued` excepts that case. And typing that is not saved yet is discarded without
a recovery copy when a sync returns a newer unlocked draft
(`useArticleDrafts.ts:73-74`), so the property speaks of saved text, and of the step
that replaces it.

## 4. What each run checks

| Run | Shows |
|---|---|
| `lane_safety` | `CoverageAccounted`: every sequence between the seam and the live cursor is staged, or owed by the gap or an unfinished job. `JobCursorTruthful`: no job claims an unstaged sequence, however often claims move. `PublicCoverageHonest`: coverage is shown as restored only when nothing is missing. `JobsNeverReopened`, `LiveCursorNeverRewinds`: what no step may do. `DiscontinuityFailsClosed`: after a blocked source nothing is staged or changed, by any run, restarts included. `ImplementsLedger`: the lane refines `CoverageLedger`. All with a poison event, the deadline and a source that restarts its sequence. |
| `lane_liveness` | `LiveKeepsUp`: the live cursor passes whatever is emitted; `OwedIsRepaid`: every owed sequence is staged in the end, or recovery was stopped by the byte limit or a blocked source |
| `release_lost` | the second finding |
| `inbox_safety` | `OneTurnPerRepository`: a leased event is the first waiting one of its repository. `RestoresAlone`: no event is projected while its repository is restored. `WatermarkTruthful`: the applied watermark passes settled rows only. `DeadLetterOwed`: an event that was given up has a restore outstanding, failed for good, or done. `ProjectionCurrent`: what is settled is visible in `content_items`, in its version or a later one. |
| `inbox_stalls` | when live workers lose their claims and repositories change scope: `SettledForGood`: no late worker takes a settled event back; `EveryEventSettles`, `WatermarkCatchesUp`: nothing waits for ever, and the watermark reaches what is staged unless a restore has failed for good |
| `inbox_order` | the third finding |
| `outbox` | `ReceiptsTruthful`: the receipt on the PDS covers a prefix of the marks the user made, at least those taken out of the queue. `ManifestMeansHistory`: upgrade and compaction prune marks, never an answer. `AckedIsShown`: a mark leaves its queue only when the AppView answers with it or a later one. `ImplementsLog`: each mark is published once, in order, through coalescing, conflicts and lost answers. `QueuesDrain`: every queue empties once user and faults stop |
| `chunk_gc` | `NothingDangles`: the manifest's chunks exist. `PublicationsStay`: a collection never undoes a publication. `GraceRespected`: a chunk is deleted only by a collector that has watched it as garbage for the whole grace period, however clocks are set |
| `draft` | `CreatedOnce`: one upstream draft. `SavedMeansStored`: what counts as saved was stored. `LocalTextKept`: the text typed last, once saved here, is in some copy until upstream confirmed it or it is posted. `PublishedOnce`: one post. `CleanedLeavesNothing`: after cleanup no draft is left and none can appear |
| `draft_leftover` | the fourth finding |
| `article_draft` | `AckedMeansStored`: an acknowledged row is what the AppView stored at that revision. `DeletionPursued`: a deletion the user asked for is done or journalled. `PublicationProtected`: while no two tabs share a browser, an article is sent only while the AppView holds the tab's claim on that text, and its draft stays locked with its text afterwards. `UnsyncedTextRescued`: no sync takes saved text the AppView never had out of a row without a recovery copy, unless the one copy goes to unsaved text |
| `articles_shared` | the first finding |

Each property of a passing run has a mutant of a mapped definition (its name
stands next to the original in the module) that breaks it under the same
configuration.

## 5. Bounds

Two runs (`Owner`): a fence separates one current run from any number of stale
ones, and one stale run already shows every conflict (its writes are refused by
the fence). Symmetry of runs is used where every checked property is a safety property,
the refinement of the ledger included, whose mapping does not tell runs apart;
never with liveness. `MaxSeq` 4 leaves three sequences above the seam: enough for a
burst prefix, a gap and the batch that closes it, of which the last, 4, is poison;
that the evidence table overflows is left to the theorems, which hold for every
`Poison` and `PoisonMax`. `MaxJobs` 2 (3 with liveness) lets a second gap be registered
while the first is replayed, and a job be completed while another is not.
`MaxFaults` 2 bounds disconnects, failed attempts, crashes, shutdowns, lost leases
and source restarts together, so that a source may restart and the run that
notices it be replaced; the end of a run that has already lost its lease and the
expiry of a dead run's lease are not counted. The byte limit (`HasBudget`) is
part of `lane_liveness`, the deadline, the failing hand-back and the restarting
source of `lane_safety`; liveness has one sequence less (`MaxSeq` 3), and no poison.
`Replaceable` keeps the last run alive: the supervisor restarts a
lane for ever, so a state in which all runs are dead is an artefact of the bound.
At the bound of the source (`tip = MaxSeq`) a fresh tail waits for an event that
cannot come: `AwaitsFreshEvent` names that case in the liveness properties. The
theorems of section 8 hold for every value of these constants.

In `DurableInbox` two workers (`Worker`) are a holder and one that takes over, or
an event beside a restore. Of five events, alice's are 1 and 3 to 5 and bob's is
2: in `inbox_safety` event 1 always fails, so that it becomes a dead letter and
is restored while later events wait, 3 is a sync marker, 4 writes a second
record and 5 closes the account; the other instances stop at event 3 and
write one record again (`inbox_order` without a sync marker, so that events
alone tell the story). `MaxAttempts` is 2 instead of 10: one retry and a last
attempt. `MaxFaults` 1 to 3 bounds crashes, failed attempts, lost outcomes,
yields, late renewals, changes of scope and operator retries together.

In `ReadStateOutbox` the two devices mark one article, the hardest case for
coalescing and pruning; one mark is in the version 1 manifest and still in the
queue of the first device. `Batch` is 2 instead of 32 and `Attempts` 2 instead
of 4, so that a queue of three needs a second batch, and a flush gives up. One
lost answer or closed tab and one collection meet every step. In `ReadStateGC` the
grace period is 2 ticks of 3, with two chunks: one in the first manifest and one
that a plan may find as garbage. `SocialComposerDraft` has three texts, so that what upstream
acknowledged, what is only saved here and what another device wrote can all differ, two
possible drafts, so that a second create would show, and three faults (crashes, lost
answers and edits of another device). In `ArticleDraftSync` two tabs share a browser or not,
and two events happen to a draft that is not in the cloud yet: its first put is
free, so that, say, a lost put with an edit after it, two publications, or an
edit beside a publication are within the bound. Three mutation identifiers are
what a creation, a claim and its record take. `MaxTime` is 2: browsers have clocks of
their own, and an edit takes any time after that of the draft it changes, so two
ticks make two drafts older, newer or of one age; an edit that would need a third is
not made. `articles_shared` begins with a draft both browsers have, two tabs in one of
them, and takes some of the steps of `Next` only: whatever it violates, `Next` does.

Deadlock is not checked where the work is bounded and ends: all modules but the
intake lane.

## 6. Fairness

Weak fairness per action, for what the code's loops do without being asked: a
run retries the lease (`runLaneWork`), starts, reconnects, stages what the
stream delivers and registers what is owed; the recovery loop polls for jobs,
stages and completes them; PostgreSQL's clock expires the lease of a dead run;
the network emits. Not fair: faults, buffer drops, source restarts, the
deadline, reaching the byte limit, and releases (a failed attempt is a fault,
and its hand-back is part of it). `AcquireLease` is fair per run, but a run that
holds the lease keeps it for ever unless a fault takes it.

In `DurableInbox` the loops of every worker are fair (claims, projection, restore
steps, outcomes, and the failure of what must fail), and so are the renewals a
ticker makes, the staging lane and the clock that ends an abandoned lease. Not
fair: new events, passing failures, crashes, stalls, yields, changes of scope and
operators. All faults are bounded, as is the number of stalls: a worker that is
late for ever would never finish.

In `ReadStateOutbox` a flush starts, goes on and ends its backoff: the page has a
timer of one second (`pdsReadStateSync.ts`), and marks that are queued when it opens
are flushed. New marks, failures and collections are not fair.

## 7. Findings

* `articles_shared`: the tabs of a browser share the journal, and `adopt` returns the
  browser's draft as synced whenever the browser knows a newer revision than the one
  it was given. A tab's claim is refused, since another device holds one; that
  device releases its claim; the other tab of the browser meets the same refusal and
  bases the journal on the new revision; then the first tab, with the refusal it
  read before, finds the browser ahead of it, takes its own unsynced claim for
  synced, and sends the article while the server holds no claim. The test of
  `ArticlesWorkspace` says that an acknowledged claim comes before any public write.
  Each tab has a queue of its own (`serialized`), which keeps the syncs of one tab apart,
  not those of two. `PublicationProtected` holds where no two tabs share a browser.
* `release_lost`: a failed attempt is handed back by `ReleaseRecoveryJob`; when
  that transaction fails as well, the error is logged and the loop goes on. The
  job is still `replaying` under the run's own owner and token, which the claim
  excludes, so it is not retried while this run keeps its lease, although the
  README of the service promises a backoff.
* `inbox_order`: the claim is checked when an outcome is recorded, not when
  `content_items` is written. In the counterexample a worker's lease runs out
  while it projects event 1; its successor projects events 1 and 3 of the same
  record; then the first worker's upsert puts version 1 back. Its
  acknowledgement is refused, but the record stays old until its next event or
  restore, although the runbook derives the preserved order from the leases.
  Renewals every third of the lease make this rare, not impossible.
* `draft_leftover`: New Post keeps its copy of a composition that became a draft,
  when its page is closed without closing the composer. If the draft is then edited from the draft
  list, the edits are under the draft's ID only. Opening New Post again restores
  the old copy and mirrors it to that ID, without comparing the two; what had not
  reached upstream is gone, although the runbook promises that local recovery
  preserves interrupted work.

## 8. Proofs

### The intake lane

The theorems hold for every set of runs, seam, number of sequences, jobs and
faults, and every combination of the switches, from the three `ASSUME`s of
`IngressLane` (runs are finitely many and not `NoOwner`; bounds are naturals;
switches are Booleans). TLC evaluates the assumptions in every run.

* `TypeCorrect`: `Spec => []TypeOK`.
* `Inductive`: `Spec => []IInv`, from which `CoverageHolds` and `JobCursorHolds`.
  `CoverageAccounted` is not inductive. A live commit from `cursor[p]` to `to`
  moves the live cursor to `to`, and stages only what lies above `cursor[p]`: it
  keeps coverage because of `TailContiguous` (without a recorded gap, the fenced
  run's subscription begins at or before the live cursor), and of `Bounded` (a
  recorded gap, and every `lastSeq` that could become one, starts at or before
  it). `GapOrCursor` says that a controller without a gap has a cursor to resume
  from, so that a subscription without a gap is a resumed one; `PhasesMatch`
  that only running runs subscribe. Completing a job removes it from what is
  owed: `ChildTruthful` says that what its child passed is staged, and
  `JobCursorTruthful` restarts it at a truthful checkpoint. The proof of the
  live commit (`InvStageLive`) splits on where the sequence lies: above the
  cursor (staged now), below it without a gap (contiguous), at or below the
  gap (old coverage), above the gap (the registered job owes it, or an equal job
  is complete and its range is staged).
* `ReportedCoverageHolds` (`PublicCoverageHonest`): when the public view does not
  say "recovering" there is no gap and no unfinished job, so nothing is owed, and
  coverage says that what is not owed is staged.
* `NeverRewinds`, `JobsStayClosed`, `FailsClosed`: action properties. `FailsClosed`
  needs two more invariants: blocking a source blocks its unfinished jobs
  (`BlockedTogether`), and the checkpoint is never ahead of the controller
  (`CheckpointBehind`), or a restart would move a blocked controller's cursor.
* `LaneImplementsLedger`: the initial states map to the ledger's, every step to
  `Extend`, `Halt` or a stutter. Coverage makes the owed rows the complement of
  the staged ones; `RangesBehind` keeps archive rows behind the frontier.

### The AppView inbox

The theorems hold for every finite set of workers and every number of events,
attempts and faults, every assignment of events to repositories and records, and
with or without late renewals and changes of scope, from the four `ASSUME`s of
`DurableInbox` (`NoWorker` is no worker; bounds are naturals with at least one
attempt; `RepoOf` and `Writes` are functions on the events; a record belongs to one
repository, as its AT-URI says, and a sync marker writes none; switches are
Booleans).

* `TypeCorrect` and `Inductive`: `Spec => []TypeOK` and `Spec => []IInv`. That the
  watermark has its type is not immediate: `AppliedWatermark` picks the highest
  of a set, so `HighestExists` shows that a bounded set has one, and that
  `attempts` stays at most `MaxAttempts` needs `AttemptsLeft`.
* Most of the argument does not look at actions. `NextStep` says once what any
  step does to the tables (`RowStep`: nothing but leases change, due rows are filtered, or one
  row is staged, claimed, left or reconciled; `RequestStep` likewise), with one
  lemma per action; the rest is about `RowStep` and `RequestStep`.
* `OrderHolds`: `OrderNext` splits `RowStep`. A claim keeps the order because only
  the first waiting event is claimable; staging because nothing is staged twice
  and what is staged comes last (`StagedOnly`); a row that is left becomes
  pending or stops waiting. Late renewals play no part, since an expired
  lease still counts as waiting.
* `WatermarkHolds`: below the watermark all is settled and stays so
  (`SettledStaysSettled`), and a new watermark passes only settled rows
  (`WatermarkFacts`). `StagedOnly` keeps the next staged row above it.
* `DeadLettersHold`: `RequestsOfDeadLetters` says that only dead letters have
  requests, so that a row that becomes one finds no request in its way.
* `RestoresHold`: `Spec => [](~Stalls => RestoresAlone)`. Each claim looks for
  the other kind; what could break the exclusion is a lease that comes back to
  life, and `HeldLeasesLive` says that without late renewals a renewal never
  does that. With stalls the exclusion does not hold: an event's
  lease expires, an operator re-queues the failed restore of an earlier event,
  the restore is claimed, and a late renewal revives the event's lease.
* `SettledStays` and `ClaimsHold`: action properties, from `RowStep` and `NextOwner`.

* `ProjectionHolds`: `Spec => [](~Stalls => ProjectionCurrent)`, the hypothesis
  being that renewals are in time: the third finding is what happens otherwise.
  Nothing fences a write of `content_items`, so the argument is about turns
  (`ContentInv`). `TasksHold`: without late renewals whoever is at work holds its
  claim. `TurnsInOrder`: once an event was taken, no earlier one of its repository
  waits, so the versions written to a record only grow. `ReadsCurrent`: what a
  restore has read of the repository is as new as every event taken meanwhile, since
  its claim keeps the others out. `ContentHolds` then relates what rows, requests
  and workers say (applied, restored, reconciled) to the content, and a restore may
  overwrite what events wrote.

### Read marks on the PDS

`ReadStateGC`, for all devices, collectors among them, chunks, clock skews and
bounds (`DeviceAssumption`, `BoundAssumption`):

* `TypeCorrect`, and `ManifestComplete` (`NothingDangles`) from `IInv`. Its proof is
  about what a device still knows of a repository that others write. `PlanExists`:
  while the revision a plan started from is current, what the plan need not
  upload exists, because chunks disappear only under a new revision (`RepoMoves`). `ProofCurrent`: until the next commit, the manifest a collection
  proved is the manifest, so the one transaction that deletes, conditional on that
  commit, deletes nothing that is referred to.
* `PublicationsNeverUndone` (`PublicationsStay`), from the same invariant.
* `GraceKept` (`GraceRespected`): `ClockRead` and `WatchTimed` say that the
  monotonic clock of a page, and only that one, measures the watch, and
  `SurveyHolds` that a survey drops every watch it cannot measure with the page's clock.

`ReadStateOutbox`, for all devices, marks, selections, batch sizes and bounds,
from `ActAssumption` (marks are finitely many, and the mark a device carries
over from version 1 is its own) and `BoundAssumption`:

* `TypeCorrect`, and from `IInv`: `ReceiptsCorrect`, since `QueueInv` states both
  receipts as prefixes of what the device made, and keeps published marks marked as
  attempted, so that `Enqueue` cannot replace one; `CompactionKeepsAnswers`, since
  by `HistoryInv` a manifest's marks stand in the history and every selection's
  newest one is among them; `AcknowledgedShown`, since `ShownInv` says that a mark
  leaves its queue only after the AppView has seen it in the log.
* `LogImplemented`: `Spec => ImplementsLog`. The one step that needs work is
  `Swap`, which appends a batch without the marks that version 1 had: `LoggedInv`
  says that a mark is in the log exactly if a receipt covers it or the manifest
  carries it from version 1, so that the marks the code appends are those
  `Publish` appends, and in the same order (`Rank` and the lemmas about it count
  them). Everything but `Enqueue`, `Swap` and `Reconcile` is a stutter.

### Composer drafts

`SocialComposerDraft`, for every set of texts and draft IDs and every bound; the
assumptions say that `None` and the two fixed slots are not texts, IDs or
records, and that bounds are naturals. `IInv` has five layers.

* `CopiesOK`, every copy alone: in memory, on disk or waiting to be saved, a copy is
  filed where it belongs, and what it calls acknowledged was stored upstream.
  `TypeCorrect` and `SavedIsStored` follow.
* `OnceOK`, the create: before the request is sent, the intent to send it has
  reached, or is on its way to, every copy that could send one (`IntentNoted`);
  from then on all know (`AllKnow`), and there is one request or one draft
  (`OneRequest`). `CreatedAtMostOnce` follows.
* `PostedOK`, the post: before it is sent, its key has reached, or is on its way to,
  the copies it can be resumed from (`SendNoted`, `JournalNoted`); from then on
  every copy has that key or is done (`AllPosted`). `PostedOnce`:
  `Spec => [](~LeftoverReopened => PublishedOnce)`.
* `CleanedOK`, the cleanup: a cleaner without a draft's ID or an intent to reconcile
  has none to look for. `CleanupIsFinal` follows.
* `KeptOK`, the text typed last: it is in the open copy and in the saves that wait
  behind the last older one (`HeldAt`), or in the copy New Post kept when its draft was
  opened (`HeldAside`). `TextSurvives`:
  `Spec => [](~LeftoverReopened => LocalTextKept)`.

`LeftoverReopened` is the switch of the fourth finding: without the hypothesis the
two statements are false, and `draft_leftover` shows how.

Each layer was an invariant of a TLC run before it was proved. That is how it was
found that the history `mind` first called a text saved that had been typed,
replaced and typed again, when the save of the text in between was still to come.

### Article drafts

`ArticleDraftSync`, for every set of tabs and browsers and all bounds; the
assumptions say that bounds are naturals and `None` is no number and no record.

* Tabs of one browser write one row and one journal, and each stage of a sync uses
  what an earlier one read. So the proof says first what a step may do to what
  its tab works on, the browser's row and journal and the tab itself: every action
  has one of a few *forms* (`Syncs` and its eleven cases, `Plain`, `EditorForm`,
  `Quits`, `Sent`), which `TabStepForms` and `SendForms` show, and the invariants
  are proved of the forms.
* `TypeCorrect`, `AcknowledgedIsStored` and `DeletionsPursued` follow from `SInv`.
  `AckedMeansStored` alone is not inductive: a put is acknowledged if the journal still
  has it when its answer is used, so the journal has to say what the row was
  (`BrowserOK`: a put of the row's revision has the row's draft), an identifier has to
  stand for one request, wherever it is kept and whether it has taken effect or
  may do so late (`RequestsOK`), and an answer used late has to be of a revision
  that exists (`TabOK`). A put that is composed waits for its images to be hashed
  while other tabs act; `JournalOK` says what is still true of it when it goes into
  the journal. `OtherTabs` shows that a step of one tab leaves the others' reads
  usable. `CloudGrows` is the AppView's side: no mutation follows a deletion, and
  what was at a revision stays there.
* `TextsRescued`: only a few forms take a text out of a row (`RowsRescued`), and then
  the row counts as acknowledged, which by `SInv` means stored, or is rescued.
* `ArticleProtected`: `Spec => []PublicationProtected`. The invariant is
  `TabsApart => PInv`; no step moves a tab to another browser (`HomesStay`). `Alone`
  says that a browser's only tab finds its journal as it left it, which is false
  when tabs share it, and is how the first finding comes about. A claim stands for
  one text (`DraftsOK`) and one publication (`OpsOK`). `Loyal` is the core: for a claim
  that a tab may still publish under, or that the article has, whatever was derived
  from a draft with the claim has it, the row from the revision it is based on, the
  editor and the journalled put from the row, a request from the revision it
  expects. Only the tab that made the claim makes a draft without it (`FormLoyal`), so
  a claim that reached the AppView stays there until that tab gives it up, and a
  synced claim has reached it (`ClaimKept`). A late request is no exception: if it
  expects the revision with the claim, it was derived from it
  (`ArrivesLateProtected`).

`PInv` was an invariant of a TLC run before it was proved.

### Model-checked only

The liveness properties
(`LiveKeepsUp`, `OwedIsRepaid`, `EveryEventSettles`, `WatermarkCatchesUp`,
`QueuesDrain`), since fairness and ENABLED are beyond the prover, and the four
violations. `RestoresAlone`, `ProjectionCurrent`, `PublishedOnce`, `LocalTextKept` and
`PublicationProtected` are proved under the hypotheses named above, without which the
code does not have them. `ClaimsAreExclusive` (while a lease is in force only its holder ends
the claim) is proved and in no run.

## 9. What is not covered

Components that are not modelled are listed with their reason in
`PROJECT.json`. Left out because they hold little state of their own: the Redis
clients, the gateway (routing and caching; its admission slots and token buckets
are atomic Redis scripts), the Apple applications, the operations service and
dashboard, the podcast worker, and of the web application the wrappers around
PDS requests, the query caches and the interface. The plan's modules that are not
begun are about state that matters; section 2 names them.

Within the lane: retry backoff times, digests, health documents, metrics. Seen in the
lane, and harmless to coverage: the gap is recorded from the run's `lastSeq`, which in a
generation without a checkpoint is still 0 when a burst prefix has committed; if the
provider then refuses the saved cursor, the registered range covers the archive from
its beginning, below the configured seam. No event is lost, but the bytes count
against an incident limit that is never reset (`automatic_recovery.go:98`). Within
read state: validation and packing of records, and a client that stays on version 1.
A journal of posts is kept by its key, not its text: after a crash a prepared
and never tried journal is restored, the text stays editable, and publishing
continues the journal with the text it was prepared with
(`SocialComposeButton.tsx:176`).
