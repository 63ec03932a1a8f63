-------------------------- MODULE ReadStateOutbox --------------------------
(***************************************************************************)
(* The durable outbox of read marks (packages/read-state, v2Outbox.ts and  *)
(* v2Repository.ts).  Every device keeps a queue of marks in IndexedDB and *)
(* publishes them to one manifest record on the viewer's PDS by            *)
(* compare-and-swap.  The manifest carries a receipt per device: how many  *)
(* of its marks are in, and a hash chain over them.  The AppView projects  *)
(* a manifest when a client confirms it; only then marks leave the queue.  *)
(*                                                                         *)
(* Simplifications:                                                        *)
(*  - a mark is a value of Acts with one selection; bulk marks, their      *)
(*    boundaries and the packing into records are left out;                *)
(*  - the queue is the slots acked+1 .. next-1 of entries[d]; a slot below *)
(*    keeps what the device published through it, for the properties;      *)
(*  - a hash chain is the sequence of the marks hashed, a manifest's CID   *)
(*    its revision (the last sequence for version 1);                      *)
(*  - chunks are uploaded with their manifest (ReadStateGC has them        *)
(*    apart), and assignLegacyQueue is done before anything else happens;  *)
(*  - the lock of a device's tabs is 'flush[d].pc # "idle"'; a closed tab  *)
(*    releases it;                                                         *)
(*  - the AppView reads and activates a manifest in one step.              *)
(***************************************************************************)
EXTENDS Integers, FiniteSets, Sequences

CONSTANTS
  Devices,
  Acts,         \* marks, each made once (a random UUID)
  NoAct,
  Selections,
  SelectionOf,  \* SelectionOf[a]: the articles mark a is about
  Old,          \* marks in the version 1 manifest the viewer starts with
  Legacy,       \* Legacy[d]: a mark an old client left in the queue of d, or NoAct
  MaxMarks,     \* bound: marks of a device
  Batch,        \* marks published at once (32)
  Attempts,     \* compare-and-swap attempts of a flush (4)
  MaxFaults,    \* bound: lost answers, failed requests, closed tabs
  MaxBumps      \* bound: manifests written by garbage collection

ASSUME ActAssumption ==
  /\ NoAct \notin Acts /\ IsFiniteSet(Acts)
  /\ SelectionOf \in [Acts -> Selections]
  /\ Old \subseteq Acts
  /\ Legacy \in [Devices -> Acts \cup {NoAct}]
  /\ \A d, e \in Devices : d # e /\ Legacy[d] # NoAct => Legacy[d] # Legacy[e]
ASSUME BoundAssumption ==
  /\ MaxMarks \in Nat \ {0} /\ Batch \in Nat \ {0} /\ Attempts \in Nat \ {0}
  /\ MaxFaults \in Nat /\ MaxBumps \in Nat

VARIABLES
  outbox,    \* per device: acknowledged receipt, next counter, retry barrier, last error
  entries,   \* per device: the marks by counter
  flush,     \* per device: the running flush
  manifest,  \* the manifest record on the PDS
  appview,   \* the manifest the AppView projects
  history,   \* the marks in the order they were published
  used,      \* marks made so far
  faults,
  bumps

vars == <<outbox, entries, flush, manifest, appview, history, used, faults, bumps>>

Counters == 1..MaxMarks
Phases   == {"idle", "marked", "baseline", "upgrading", "upgraded", "acknowledging",
             "publishing", "swapped", "confirmed"}
Errors   == {"none", "conflicting_sequence"}   \* the other reasons only delay the queue

Receipt  == [count : Nat, hash : Seq(Acts)]
Fragment == [act : Acts, seq : Nat]
Manifest == [rev : Nat, version : {1, 2}, last : Nat, fragments : SUBSET Fragment,
             devices : [Devices -> Receipt], legacy : SUBSET Acts]
Entry    == [act : Acts \cup {NoAct}, attempted : BOOLEAN, committed : BOOLEAN]
Box      == [acked : Nat, prefix : Seq(Acts), next : Nat, waiting : BOOLEAN, error : Errors]
Flush    == [pc : Phases, batch : Nat, tries : Nat, count : Nat, remote : Manifest, ref : Nat]

TypeOK ==
  /\ outbox \in [Devices -> Box]
  /\ entries \in [Devices -> [Counters -> Entry]]
  /\ flush \in [Devices -> Flush]
  /\ manifest \in Manifest /\ appview \in Manifest
  /\ history \in Seq(Acts)
  /\ used \subseteq Acts
  /\ faults \in 0..MaxFaults /\ bumps \in 0..MaxBumps
-----------------------------------------------------------------------------
Free      == [act |-> NoAct, attempted |-> FALSE, committed |-> FALSE]
NoReceipt == [count |-> 0, hash |-> <<>>]
Idle(d)   == flush[d].pc = "idle"

\* The empty queue, or the entry an old client left there and may have published.
FirstEntries(d) ==
  [c \in Counters |-> IF c = 1 /\ Legacy[d] # NoAct
                      THEN [Free EXCEPT !.act = Legacy[d], !.attempted = TRUE] ELSE Free]

SequenceOf(S) == CHOOSE s \in [1..Cardinality(S) -> S] : \A i, j \in DOMAIN s : s[i] = s[j] => i = j

FirstManifest ==
  [rev |-> Cardinality(Old), version |-> 1, last |-> Cardinality(Old),
   fragments |-> {[act |-> SequenceOf(Old)[i], seq |-> i] : i \in 1..Cardinality(Old)},
   devices |-> [d \in Devices |-> NoReceipt], legacy |-> {}]

NoFlush == [pc |-> "idle", batch |-> 0, tries |-> 0, count |-> 0, remote |-> FirstManifest, ref |-> 0]

Init ==
  /\ outbox = [d \in Devices |-> [acked |-> 0, prefix |-> <<>>, waiting |-> FALSE, error |-> "none",
                                  next |-> IF Legacy[d] = NoAct THEN 1 ELSE 2]]
  /\ entries = [d \in Devices |-> FirstEntries(d)]
  /\ manifest = FirstManifest /\ appview = FirstManifest
  /\ flush = [d \in Devices |-> NoFlush]
  /\ history = SequenceOf(Old)
  /\ used = (Old \cup {Legacy[d] : d \in Devices}) \ {NoAct}
  /\ faults = 0 /\ bumps = 0
-----------------------------------------------------------------------------
(* The user makes mark a.  It replaces the last one of the queue if that has *)
(* the same selection and no flush has tried to publish it.                  *)
ReplacesAttempted(d, a) ==
  LET last == outbox[d].next - 1 IN
  last > outbox[d].acked /\ SelectionOf[entries[d][last].act] = SelectionOf[a]

Replaces(d, a) ==
  LET last == outbox[d].next - 1 IN
  /\ last > outbox[d].acked
  /\ ~entries[d][last].attempted /\ ~entries[d][last].committed
  /\ SelectionOf[entries[d][last].act] = SelectionOf[a]

Enqueue(d, a) ==
  LET slot == IF Replaces(d, a) THEN outbox[d].next - 1 ELSE outbox[d].next IN
  /\ a \notin used
  /\ slot \in Counters
  /\ used' = used \cup {a}
  /\ entries' = [entries EXCEPT ![d][slot] = [Free EXCEPT !.act = a]]
  /\ outbox' = [outbox EXCEPT ![d].next = slot + 1]
  /\ UNCHANGED <<flush, manifest, appview, history, faults, bumps>>

\* The retry barrier of the first entry has passed.
Wake(d) ==
  /\ Idle(d) /\ outbox[d].waiting
  /\ outbox' = [outbox EXCEPT ![d].waiting = FALSE]
  /\ UNCHANGED <<entries, flush, manifest, appview, history, used, faults, bumps>>

Least(m, n) == IF m < n THEN m ELSE n

\* A timer or a foreground event takes the lock and marks a batch as attempted.
FlushStart(d) ==
  LET pending == outbox[d].next - 1 - outbox[d].acked
      batch   == Least(Batch, pending) IN
  /\ Idle(d) /\ ~outbox[d].waiting /\ pending > 0
  /\ entries' = [entries EXCEPT ![d] = [c \in Counters |->
       IF c \in outbox[d].acked + 1 .. outbox[d].acked + batch
       THEN [@[c] EXCEPT !.attempted = TRUE] ELSE @[c]]]
  /\ flush' = [flush EXCEPT ![d].pc = "marked", ![d].batch = batch]
  /\ UNCHANGED <<outbox, manifest, appview, history, used, faults, bumps>>
-----------------------------------------------------------------------------
(* The ends of a flush: an error raises the retry barrier, a conflict loads  *)
(* the manifest again until the attempts run out.                            *)
Unlock(d)     == flush' = [flush EXCEPT ![d] = NoFlush]
RetryLater(d) == outbox' = [outbox EXCEPT ![d].waiting = TRUE] /\ Unlock(d)
Reject(d)     == /\ outbox' = [outbox EXCEPT ![d].waiting = TRUE, ![d].error = "conflicting_sequence"]
                 /\ Unlock(d)

Conflicted(d) ==
  IF flush[d].tries + 1 < Attempts
  THEN /\ flush' = [flush EXCEPT ![d] = [NoFlush EXCEPT !.pc = "marked", !.batch = flush[d].batch,
                                                         !.tries = flush[d].tries + 1]]
       /\ UNCHANGED outbox
  ELSE RetryLater(d)

\* How many marks of the queue the remote receipt covers, and whether it does.
AcknowledgedNothing(d, remote) == 0
Acknowledged(d, remote) == remote.count - outbox[d].acked
Verified(d, remote) ==
  /\ Acknowledged(d, remote) \in 0 .. outbox[d].next - 1 - outbox[d].acked
  /\ remote.hash = [c \in 1..remote.count |->
                      IF c <= outbox[d].acked THEN outbox[d].prefix[c] ELSE entries[d][c].act]

\* The manifest is loaded and compared with the receipt of the device.
Load(d) ==
  LET remote == manifest.devices[d] IN
  /\ flush[d].pc = "marked"
  /\ IF manifest.version = 2 /\ ~Verified(d, remote)
     THEN Reject(d)
     ELSE /\ flush' = [flush EXCEPT ![d].remote = manifest,
                                    ![d].count = Acknowledged(d, remote),
                                    ![d].pc = CASE manifest.version = 1 -> "baseline"
                                                [] Acknowledged(d, remote) > 0 -> "acknowledging"
                                                [] OTHER -> "publishing"]
          /\ UNCHANGED outbox
  /\ UNCHANGED <<entries, manifest, appview, history, used, faults, bumps>>

\* A compare-and-swap and a confirmation succeed on the current manifest only; the
\* AppView then projects it, unless it projects a newer one.
CurrentUnchecked(rev) == TRUE
Current(rev)  == manifest.rev = rev
Confirms(rev) == manifest.rev = rev
Project == appview' = IF manifest.rev > appview.rev THEN manifest ELSE appview
-----------------------------------------------------------------------------
(* Version 1 becomes version 2: the unpruned baseline is confirmed, then a   *)
(* compacted manifest with a receipt per old mark replaces it.               *)
SeqsOf(fragments, s) == {f.seq : f \in {g \in fragments : SelectionOf[g.act] = s}}
CompactedToOldest(fragments) ==
  {f \in fragments : \A n \in SeqsOf(fragments, SelectionOf[f.act]) : n >= f.seq}
Compacted(fragments) ==
  {f \in fragments : \A n \in SeqsOf(fragments, SelectionOf[f.act]) : n <= f.seq}

ConfirmBaseline(d) ==
  /\ flush[d].pc = "baseline"
  /\ IF Confirms(flush[d].remote.rev)
     THEN /\ Project
          /\ flush' = [flush EXCEPT ![d].pc = "upgrading"]
          /\ UNCHANGED outbox
     ELSE RetryLater(d) /\ UNCHANGED appview
  /\ UNCHANGED <<entries, manifest, history, used, faults, bumps>>

Upgrade(d) ==
  LET base == flush[d].remote IN
  /\ flush[d].pc = "upgrading"
  /\ IF Current(base.rev)
     THEN /\ manifest' = [base EXCEPT !.version = 2, !.rev = base.last + 1,
                                      !.fragments = Compacted(@),
                                      !.legacy = {f.act : f \in base.fragments}]
          /\ flush' = [flush EXCEPT ![d].pc = "upgraded", ![d].ref = base.last + 1]
          /\ UNCHANGED outbox
     ELSE Conflicted(d) /\ UNCHANGED manifest
  /\ UNCHANGED <<entries, appview, history, used, faults, bumps>>

ConfirmUpgrade(d) ==
  /\ flush[d].pc = "upgraded"
  /\ IF Confirms(flush[d].ref)
     THEN /\ Project
          /\ flush' = [flush EXCEPT ![d].pc = "marked"]
          /\ UNCHANGED outbox
     ELSE Conflicted(d) /\ UNCHANGED appview
  /\ UNCHANGED <<entries, manifest, history, used, faults, bumps>>
-----------------------------------------------------------------------------
(* The batch is published on top of the loaded manifest.  A mark the version *)
(* 1 manifest already held gets a receipt and no second sequence.            *)
Selected(d) == outbox[d].acked + 1 .. outbox[d].acked + flush[d].batch
NewMarks(d) == {c \in Selected(d) : entries[d][c].act \notin flush[d].remote.legacy}
Sequence(d, c) == flush[d].remote.last + Cardinality({b \in NewMarks(d) : b <= c})
NewFragments(d) == {[act |-> entries[d][c].act, seq |-> Sequence(d, c)] : c \in NewMarks(d)}

NextReceiptShifted(d) ==
  LET receipt == flush[d].remote.devices[d]
      count   == receipt.count + Cardinality(Selected(d)) IN
  [count |-> count,
   hash  |-> [c \in 1..count |-> IF c <= receipt.count THEN receipt.hash[c]
                                 ELSE entries[d][(c % MaxMarks) + 1].act]]
NextReceipt(d) ==
  LET receipt == flush[d].remote.devices[d]
      count   == receipt.count + Cardinality(Selected(d)) IN
  [count |-> count,
   hash  |-> [c \in 1..count |-> IF c <= receipt.count THEN receipt.hash[c] ELSE entries[d][c].act]]

Published(d, fragments) ==
  [flush[d].remote EXCEPT !.rev = @ + 1, !.last = @ + Cardinality(NewMarks(d)),
                          !.fragments = fragments, !.devices[d] = NextReceipt(d)]

MarkCommitted(d) ==
  entries' = [entries EXCEPT ![d] = [c \in Counters |->
    IF c \in Selected(d) THEN [@[c] EXCEPT !.committed = TRUE] ELSE @[c]]]

Appended(d) == [i \in 1 .. Len(history) + Cardinality(NewMarks(d)) |->
  IF i <= Len(history) THEN history[i]
  ELSE entries[d][CHOOSE c \in NewMarks(d) :
                    Cardinality({b \in NewMarks(d) : b <= c}) = i - Len(history)].act]

\* The loaded receipt must be the one the batch follows, and know none of its marks.
Misaligned(d) == flush[d].remote.devices[d].count # outbox[d].acked
Duplicates(d) == \E c \in NewMarks(d), f \in flush[d].remote.fragments : f.act = entries[d][c].act

Swap(d) ==
  /\ flush[d].pc = "publishing"
  /\ \/ /\ Misaligned(d) /\ RetryLater(d)
        /\ UNCHANGED <<entries, manifest, history, faults>>
     \/ /\ ~Misaligned(d) /\ Duplicates(d) /\ Reject(d)
        /\ UNCHANGED <<entries, manifest, history, faults>>
     \/ /\ ~Misaligned(d) /\ ~Duplicates(d) /\ ~Current(flush[d].remote.rev) /\ Conflicted(d)
        /\ UNCHANGED <<entries, manifest, history, faults>>
     \/ /\ ~Misaligned(d) /\ ~Duplicates(d) /\ Current(flush[d].remote.rev)
        /\ LET all == flush[d].remote.fragments \cup NewFragments(d) IN
           \E fragments \in {all, Compacted(all)} : manifest' = Published(d, fragments)
        /\ history' = Appended(d)
        /\ \/ /\ MarkCommitted(d)
              /\ flush' = [flush EXCEPT ![d].pc = "swapped", ![d].count = Cardinality(Selected(d)),
                                        ![d].ref = flush[d].remote.rev + 1]
              /\ UNCHANGED <<outbox, faults>>
           \/ \* the answer is lost
              /\ faults < MaxFaults /\ faults' = faults + 1
              /\ RetryLater(d)
              /\ UNCHANGED entries
  /\ UNCHANGED <<appview, used, bumps>>

ConfirmSwap(d) ==
  /\ flush[d].pc = "swapped"
  /\ IF Confirms(flush[d].ref)
     THEN /\ Project
          /\ flush' = [flush EXCEPT ![d].pc = "confirmed"]
          /\ UNCHANGED outbox
     ELSE Conflicted(d) /\ UNCHANGED appview
  /\ UNCHANGED <<entries, manifest, history, used, faults, bumps>>

\* An earlier flush had published a prefix of the queue; only its answer was lost.
ConfirmLoadedUnasked(d) ==
  /\ flush[d].pc = "acknowledging"
  /\ flush' = [flush EXCEPT ![d].pc = "confirmed"]
  /\ UNCHANGED <<outbox, entries, manifest, appview, history, used, faults, bumps>>

ConfirmLoaded(d) ==
  /\ flush[d].pc = "acknowledging"
  /\ IF Confirms(flush[d].remote.rev)
     THEN /\ Project
          /\ flush' = [flush EXCEPT ![d].pc = "confirmed"]
          /\ UNCHANGED outbox
     ELSE RetryLater(d) /\ UNCHANGED appview
  /\ UNCHANGED <<entries, manifest, history, used, faults, bumps>>

\* The confirmed prefix leaves the queue.
Acknowledge(d) ==
  LET acked == outbox[d].acked + flush[d].count IN
  /\ flush[d].pc = "confirmed"
  /\ outbox' = [outbox EXCEPT ![d].acked = acked, ![d].error = "none",
                  ![d].prefix = [c \in 1..acked |-> IF c <= outbox[d].acked THEN @[c]
                                                    ELSE entries[d][c].act]]
  /\ Unlock(d)
  /\ UNCHANGED <<entries, manifest, appview, history, used, faults, bumps>>
-----------------------------------------------------------------------------
\* A request fails, or the tab that flushes is closed.
Fail(d) ==
  /\ ~Idle(d) /\ faults < MaxFaults
  /\ faults' = faults + 1
  /\ \/ RetryLater(d)
     \/ Unlock(d) /\ UNCHANGED outbox
  /\ UNCHANGED <<entries, manifest, appview, history, used, bumps>>

\* A worker of the AppView projects the current manifest by itself.
Reconcile ==
  /\ Project
  /\ UNCHANGED <<outbox, entries, flush, manifest, history, used, faults, bumps>>

\* Garbage collection on some device writes the same state under a new revision.
Bump ==
  /\ manifest.version = 2 /\ bumps < MaxBumps
  /\ manifest' = [manifest EXCEPT !.rev = @ + 1]
  /\ bumps' = bumps + 1
  /\ UNCHANGED <<outbox, entries, flush, appview, history, used, faults>>

FlushStep(d) ==
  \/ Load(d) \/ ConfirmBaseline(d) \/ Upgrade(d) \/ ConfirmUpgrade(d)
  \/ Swap(d) \/ ConfirmSwap(d) \/ ConfirmLoaded(d) \/ Acknowledge(d)

Next == \/ \E d \in Devices : \/ \E a \in Acts : Enqueue(d, a)
                              \/ Wake(d) \/ FlushStart(d) \/ FlushStep(d) \/ Fail(d)
        \/ Reconcile \/ Bump

Spec == Init /\ [][Next]_vars

(* A timer flushes every second, a backoff ends, and a flush that neither    *)
(* fails nor loses its tab goes on; faults are bounded by MaxFaults.         *)
Fairness == \A d \in Devices : WF_vars(FlushStart(d)) /\ WF_vars(FlushStep(d)) /\ WF_vars(Wake(d))
FairSpec == Spec /\ Fairness
-----------------------------------------------------------------------------
(* Safety.                                                                   *)

Pending(d) == outbox[d].acked + 1 .. outbox[d].next - 1
Made(d)    == 1 .. outbox[d].next - 1
ActOf(d, c) == entries[d][c].act

\* The receipt of a device on the PDS covers a prefix of the marks its user made, in
\* order, at least those the device took out of its queue.
ReceiptTruthful(d, receipt) ==
  /\ receipt.count < outbox[d].next
  /\ receipt.hash = [c \in 1..receipt.count |-> ActOf(d, c)]
ReceiptsTruthful ==
  \A d \in Devices : /\ ReceiptTruthful(d, manifest.devices[d])
                     /\ outbox[d].acked <= manifest.devices[d].count

\* Where an act stands in the history: once at most, by ImplementsLog.
Places(a) == {i \in DOMAIN history : history[i] = a}

\* Compaction and the upgrade prune marks, never an answer: for every selection the
\* manifest's newest fragment is the last mark of the history.
MaxOf(S) == CHOOSE n \in S : \A m \in S : m <= n
PlacesOf(s) == {i \in DOMAIN history : SelectionOf[history[i]] = s}
ManifestMeansHistory ==
  \A s \in Selections :
    /\ SeqsOf(manifest.fragments, s) = {} <=> PlacesOf(s) = {}
    /\ PlacesOf(s) # {} =>
         /\ MaxOf(SeqsOf(manifest.fragments, s)) = MaxOf(PlacesOf(s))
         /\ [act |-> history[MaxOf(PlacesOf(s))], seq |-> MaxOf(PlacesOf(s))] \in manifest.fragments

\* A mark leaves its queue, and with it the overlay the user sees, only when the AppView
\* answers with that mark or with one published after it.
AckedIsShown ==
  \A d \in Devices : \A c \in 1..outbox[d].acked :
    \E f \in appview.fragments, i \in Places(ActOf(d, c)) :
      SelectionOf[f.act] = SelectionOf[ActOf(d, c)] /\ i <= f.seq

Promise == INSTANCE ReadLog WITH
  issued <- [d \in Devices |-> [c \in Made(d) |-> ActOf(d, c)]],
  done   <- [d \in Devices |-> manifest.devices[d].count],
  log    <- history,
  shown  <- appview.last

\* Receipts, retries and compaction implement the log: a mark enters it once, however often
\* it is retried, and in the order its user made it.
ImplementsLog == Promise!Spec

\* Every queue drains once its user and the faults stop, across conflicts and backoff: no
\* interleaving makes a device find its retry history in conflict for good.
QueuesDrain == <>[](\A d \in Devices : Pending(d) = {})
=============================================================================
