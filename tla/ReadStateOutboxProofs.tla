----------------------- MODULE ReadStateOutboxProofs -----------------------
(***************************************************************************)
(* Proofs about ReadStateOutbox, for any devices, marks, selections and    *)
(* bounds.                                                                 *)
(***************************************************************************)
EXTENDS ReadStateOutbox, FiniteSetTheorems, SequenceTheorems, TLAPS

(* Counting. *)

\* A finite set can be listed without repetition.
LEMMA Listed ==
  ASSUME NEW S, IsFiniteSet(S)
  PROVE  /\ Cardinality(S) \in Nat
         /\ SequenceOf(S) \in [1..Cardinality(S) -> S]
         /\ \A i, j \in 1..Cardinality(S) : SequenceOf(S)[i] = SequenceOf(S)[j] => i = j
<1> DEFINE n == Cardinality(S)
<1>1. n \in Nat /\ ExistsBijection(1..n, S)
  BY FS_CardinalityType
<1>2. PICK s \in [1..n -> S] : \A i, j \in DOMAIN s : s[i] = s[j] => i = j
  BY <1>1 DEF ExistsBijection, Bijection, Injection, IsInjective
<1>3. /\ SequenceOf(S) \in [1..n -> S]
      /\ \A i, j \in DOMAIN SequenceOf(S) : SequenceOf(S)[i] = SequenceOf(S)[j] => i = j
  BY <1>2 DEF SequenceOf
<1> QED BY <1>1, <1>3

\* Where an element of a set of numbers stands among them, and the element at a place.
Rank(S, c) == Cardinality({b \in S : b <= c})

LEMMA RankRange ==
  ASSUME NEW S \in SUBSET Nat, IsFiniteSet(S), NEW c \in S
  PROVE  Rank(S, c) \in 1..Cardinality(S)
<1>1. {b \in S : b <= c} \in SUBSET S /\ c \in {b \in S : b <= c}
  OBVIOUS
<1>2. IsFiniteSet({b \in S : b <= c}) /\ Rank(S, c) <= Cardinality(S)
  BY <1>1, FS_Subset DEF Rank
<1>3. Rank(S, c) \in Nat /\ Cardinality(S) \in Nat
  BY <1>2, FS_CardinalityType DEF Rank
<1>4. Rank(S, c) # 0
  BY <1>1, <1>2, FS_EmptySet DEF Rank
<1> QED BY <1>2, <1>3, <1>4

LEMMA RankGrows ==
  ASSUME NEW S \in SUBSET Nat, IsFiniteSet(S), NEW b \in S, NEW c \in S, b < c
  PROVE  Rank(S, b) < Rank(S, c)
<1> DEFINE B == {x \in S : x <= b}
           C == {x \in S : x <= c}
<1>1. B \in SUBSET C /\ c \in C /\ c \notin B
  <2>1. \A x \in S : x \in Nat
    OBVIOUS
  <2>2. \A x \in S : x <= b => x <= c
    BY <2>1
  <2>3. B \in SUBSET C
    BY <2>2
  <2>4. c \in C
    BY <2>1
  <2>5. c \notin B
    BY <2>1
  <2> QED BY <2>3, <2>4, <2>5
<1>2. IsFiniteSet(C)
  BY FS_Subset, C \in SUBSET S
<1>3. IsFiniteSet(B) /\ Cardinality(B) <= Cardinality(C) /\ Cardinality(B) # Cardinality(C)
  BY <1>1, <1>2, FS_Subset
<1>4. Cardinality(B) \in Nat /\ Cardinality(C) \in Nat
  BY <1>2, <1>3, FS_CardinalityType
<1> HIDE DEF B, C
<1>5. Cardinality(B) < Cardinality(C)
  BY <1>3, <1>4
<1> QED BY <1>5 DEF Rank, B, C

\* Every place of a finite set of numbers is the rank of exactly one of them.
LEMMA RankOnto ==
  ASSUME NEW S \in SUBSET Nat, IsFiniteSet(S), NEW i \in 1..Cardinality(S)
  PROVE  \E c \in S : Rank(S, c) = i
<1> DEFINE n == Cardinality(S)
           f == [c \in S |-> Rank(S, c)]
<1>1. n \in Nat
  BY FS_CardinalityType
<1>2. f \in [S -> 1..n]
  BY RankRange
<1>3. \A b, c \in S : f[b] = f[c] => b = c
  <2> SUFFICES ASSUME NEW b \in S, NEW c \in S, Rank(S, b) = Rank(S, c), b # c PROVE FALSE
    OBVIOUS
  <2>1. Rank(S, b) \in Int /\ Rank(S, c) \in Int
    BY RankRange
  <2>2. b < c \/ c < b
    OBVIOUS
  <2> QED BY <2>1, <2>2, RankGrows
<1>4. f \in Injection(S, 1..n)
  BY <1>2, <1>3 DEF Injection, IsInjective
<1>5. IsFiniteSet(1..n) /\ Cardinality(1..n) = n
  BY <1>1, FS_Interval
<1> HIDE DEF f, n
<1>6. f \in Surjection(S, 1..n)
  BY <1>4, <1>5, FS_Injection DEF n
<1>7. PICK c \in S : f[c] = i
  BY <1>6 DEF Surjection, n
<1> QED BY <1>7 DEF f

\* A set of numbers below a bound has a greatest one.
LEMMA GreatestExists ==
  ASSUME NEW n \in Nat, NEW S \in SUBSET (1..n), S # {}
  PROVE  \E m \in S : \A k \in S : k <= m
<1>1. S \in SUBSET Nat /\ IsFiniteSet(S)
  <2>1. IsFiniteSet(1..n)
    BY FS_Interval
  <2>2. IsFiniteSet(S)
    BY <2>1, FS_Subset
  <2>3. S \in SUBSET Nat
    OBVIOUS
  <2> QED BY <2>2, <2>3
<1>2. Cardinality(S) \in Nat /\ Cardinality(S) # 0
  BY <1>1, FS_CardinalityType, FS_EmptySet
<1>3. PICK m \in S : Rank(S, m) = Cardinality(S)
  BY <1>1, <1>2, RankOnto
<1>4. ASSUME NEW k \in S, m < k PROVE FALSE
  BY <1>1, <1>2, <1>3, <1>4, RankGrows, RankRange
<1> QED BY <1>1, <1>4
-----------------------------------------------------------------------------
(* The inductive invariant. *)

\* Revisions name manifests: none is still to come, and the current one is the manifest.
RevKnown(m) == m.rev <= manifest.rev /\ (m.rev = manifest.rev => m = manifest)

RevsNameManifests == /\ RevKnown(FirstManifest) /\ RevKnown(appview)
                     /\ \A d \in Devices : RevKnown(flush[d].remote)

\* Nothing is published in version 1.
FirstStands == manifest.version = 1 => manifest = FirstManifest /\ history = SequenceOf(Old)

\* The queue of a device behind its receipts: its own of the acknowledged prefix, the
\* manifest's of what is published.
Prefix(d, n) == [c \in 1..n |-> ActOf(d, c)]
QueueInv(d) ==
  LET receipt == manifest.devices[d] IN
  /\ outbox[d].acked <= receipt.count /\ receipt.count < outbox[d].next /\ outbox[d].next <= MaxMarks + 1
  /\ outbox[d].prefix = Prefix(d, outbox[d].acked)
  /\ receipt.hash = Prefix(d, receipt.count)
  /\ \A c \in Made(d) : ActOf(d, c) \in Acts
  /\ \A c \in outbox[d].acked + 1 .. receipt.count : entries[d][c].attempted

\* The batch of a flush stays in the queue, where no new mark replaces one of it.
FlushInv(d) ==
  /\ flush[d].pc \in {"baseline", "upgrading"} => flush[d].remote.version = 1
  /\ flush[d].pc \in {"publishing", "acknowledging"} => flush[d].remote.version = 2
  /\ flush[d].pc # "idle" => /\ flush[d].batch > 0 /\ outbox[d].acked + flush[d].batch < outbox[d].next
                             /\ \A c \in Selected(d) : entries[d][c].attempted
  /\ flush[d].pc \in {"acknowledging", "swapped", "confirmed"} =>
        outbox[d].acked + flush[d].count <= manifest.devices[d].count

\* What the manifest holds of the history: its fragments stand in it, and so does, for
\* every selection, the newest mark of the history.
Newest(h, i) == \A j \in DOMAIN h : SelectionOf[h[j]] = SelectionOf[h[i]] => j <= i
Tells(fragments, h) ==
  /\ \A f \in fragments : f.seq \in DOMAIN h /\ h[f.seq] = f.act
  /\ \A i \in DOMAIN h : Newest(h, i) => [act |-> h[i], seq |-> i] \in fragments
HistoryInv == manifest.last = Len(history) /\ Tells(manifest.fragments, history)

\* The AppView answers every mark of the log it has seen by that mark or a newer one, and
\* it has seen what devices took out of their queues or are about to.
InLog(a, n) == \E i \in 1..n : history[i] = a
ShownInv ==
  /\ appview.last <= manifest.last
  /\ \A i \in 1..appview.last : \E f \in appview.fragments :
        SelectionOf[f.act] = SelectionOf[history[i]] /\ i <= f.seq
  /\ \A d \in Devices : \A c \in 1..outbox[d].acked : InLog(ActOf(d, c), appview.last)
  /\ \A d \in Devices : flush[d].pc = "confirmed" =>
        \A c \in 1..outbox[d].acked + flush[d].count : InLog(ActOf(d, c), appview.last)

\* A mark is one slot's of one queue.  It is in the log if a receipt covers the slot, and
\* otherwise only if the manifest carries it from version 1.
LoggedInv ==
  /\ \A a \in manifest.legacy : InLog(a, Len(history))
  /\ \A i \in DOMAIN history : history[i] \in used
  /\ \A d \in Devices : \A c \in Made(d) :
       /\ ActOf(d, c) \in used
       /\ \A e \in Devices : \A b \in Made(e) : ActOf(d, c) = ActOf(e, b) => d = e /\ c = b
       /\ c <= manifest.devices[d].count => InLog(ActOf(d, c), Len(history))
       /\ /\ manifest.version = 2 /\ c > manifest.devices[d].count /\ InLog(ActOf(d, c), Len(history))
          => ActOf(d, c) \in manifest.legacy

Inv == /\ RevsNameManifests /\ FirstStands
       /\ \A d \in Devices : QueueInv(d) /\ FlushInv(d)
       /\ HistoryInv /\ ShownInv /\ LoggedInv

IInv == TypeOK /\ Inv
-----------------------------------------------------------------------------
(* Types. *)

LEMMA OldFinite == IsFiniteSet(Old)
BY ActAssumption, FS_Subset

LEMMA OldListed ==
  /\ Cardinality(Old) \in Nat
  /\ SequenceOf(Old) \in [1..Cardinality(Old) -> Old] /\ SequenceOf(Old) \in Seq(Acts)
  /\ Len(SequenceOf(Old)) = Cardinality(Old)
<1>1. Cardinality(Old) \in Nat /\ SequenceOf(Old) \in [1..Cardinality(Old) -> Old]
  BY OldFinite, Listed
<1>2. \A i \in 1..Cardinality(Old) : SequenceOf(Old)[i] \in Acts
  BY <1>1, ActAssumption
<1>3. SequenceOf(Old) \in Seq(Acts)
  BY <1>1, <1>2
<1> QED BY <1>1, <1>3

LEMMA FirstManifestType ==
  /\ FirstManifest \in Manifest /\ FirstManifest.rev = Cardinality(Old) /\ FirstManifest.version = 1
  /\ FirstManifest.last = Cardinality(Old) /\ FirstManifest.legacy = {}
  /\ FirstManifest.devices = [d \in Devices |-> NoReceipt]
  /\ FirstManifest.fragments = {[act |-> SequenceOf(Old)[i], seq |-> i] : i \in 1..Cardinality(Old)}
<1>1. {[act |-> SequenceOf(Old)[i], seq |-> i] : i \in 1..Cardinality(Old)} \subseteq Fragment
  BY OldListed, ActAssumption DEF Fragment
<1>2. NoReceipt \in Receipt
  BY DEF NoReceipt, Receipt
<1> QED BY <1>1, <1>2, OldListed DEF FirstManifest, Manifest

LEMMA NoFlushType == NoFlush \in Flush /\ NoFlush.pc = "idle" /\ NoFlush.remote = FirstManifest
BY FirstManifestType DEF NoFlush, Flush, Phases

LEMMA FreeType == Free \in Entry
BY DEF Free, Entry

LEMMA Fields ==
  ASSUME TypeOK, NEW d \in Devices
  PROVE  /\ outbox[d] \in Box /\ outbox[d].acked \in Nat /\ outbox[d].next \in Nat
         /\ entries[d] \in [Counters -> Entry]
         /\ \A c \in Counters : entries[d][c] \in Entry /\ entries[d][c].attempted \in BOOLEAN
         /\ flush[d] \in Flush /\ flush[d].batch \in Nat /\ flush[d].count \in Nat /\ flush[d].remote \in Manifest
         /\ manifest.devices[d] \in Receipt /\ manifest.devices[d].count \in Nat
         /\ manifest.devices[d].hash \in Seq(Acts)
<1>1. outbox[d] \in Box /\ entries[d] \in [Counters -> Entry] /\ flush[d] \in Flush /\ manifest \in Manifest
  BY DEF TypeOK
<1>2. \A c \in Counters : entries[d][c] \in Entry
  BY <1>1
<1>3. manifest.devices[d] \in Receipt
  BY <1>1 DEF Manifest
<1> QED BY <1>1, <1>2, <1>3 DEF Box, Entry, Flush, Receipt

LEMMA ManifestFields ==
  ASSUME NEW m \in Manifest
  PROVE  /\ m.rev \in Nat /\ m.version \in {1, 2} /\ m.last \in Nat /\ m.fragments \subseteq Fragment
         /\ m.devices \in [Devices -> Receipt] /\ m.legacy \subseteq Acts
         /\ \A f \in m.fragments : f.act \in Acts /\ f.seq \in Nat
BY DEF Manifest, Fragment

\* The slots of a queue are counters.
LEMMA MadeRange ==
  ASSUME IInv, NEW d \in Devices
  PROVE  /\ Made(d) \subseteq Counters
         /\ 1..outbox[d].acked \subseteq Made(d) /\ 1..manifest.devices[d].count \subseteq Made(d)
         /\ \A c \in Made(d) : ActOf(d, c) \in Acts
<1>1. QueueInv(d)
  BY DEF IInv, Inv
<1>2. /\ outbox[d].acked \in Nat /\ outbox[d].next \in Nat /\ manifest.devices[d].count \in Nat
      /\ MaxMarks \in Nat
  BY Fields, BoundAssumption DEF IInv
<1> QED BY <1>1, <1>2 DEF QueueInv, Made, Counters
-----------------------------------------------------------------------------
(* Steps that write neither a queue's marks nor the manifest: a flush goes on, ends or   *)
(* begins, and the AppView may project.                                                *)

LEMMA ProjectShows ==
  ASSUME IInv, appview' = appview \/ Project
  PROVE  /\ RevKnown(appview') /\ appview' \in Manifest
         /\ appview.last <= appview'.last /\ appview'.last <= manifest.last
         /\ \A i \in 1..appview'.last : \E f \in appview'.fragments :
              SelectionOf[f.act] = SelectionOf[history[i]] /\ i <= f.seq
         /\ Project => appview' = manifest
<1>1. /\ RevKnown(appview) /\ appview \in Manifest /\ manifest \in Manifest
      /\ appview.last <= manifest.last /\ manifest.last = Len(history) /\ history \in Seq(Acts)
  BY DEF IInv, Inv, RevsNameManifests, ShownInv, HistoryInv, TypeOK
<1>2. Project => appview' = manifest
  BY <1>1, ManifestFields DEF Project, RevKnown
<1>3. CASE appview' = appview
  BY <1>1, <1>2, <1>3, ManifestFields DEF IInv, Inv, ShownInv
<1>4. CASE appview' = manifest
  <2>1. ASSUME NEW i \in 1..manifest.last
        PROVE  \E f \in manifest.fragments : SelectionOf[f.act] = SelectionOf[history[i]] /\ i <= f.seq
    <3> DEFINE S == {j \in 1..Len(history) : SelectionOf[history[j]] = SelectionOf[history[i]]}
    <3>1. S \in SUBSET (1..Len(history)) /\ i \in S /\ Len(history) \in Nat
      BY <1>1
    <3>2. PICK m \in S : \A k \in S : k <= m
      BY <3>1, GreatestExists
    <3>3. m \in DOMAIN history /\ Newest(history, m)
      BY <1>1, <3>2 DEF Newest
    <3>4. [act |-> history[m], seq |-> m] \in manifest.fragments
      BY <3>3 DEF IInv, Inv, HistoryInv, Tells
    <3> QED BY <3>1, <3>2, <3>4
  <2> QED BY <1>1, <1>2, <1>4, <2>1, ManifestFields DEF RevKnown
<1> QED BY <1>2, <1>3, <1>4

LEMMA LocalStep ==
  ASSUME IInv, TypeOK', UNCHANGED <<manifest, history, used>>, appview' = appview \/ Project,
         \A e \in Devices :
           /\ outbox'[e].acked = outbox[e].acked /\ outbox'[e].next = outbox[e].next
           /\ outbox'[e].prefix = outbox[e].prefix
           /\ \A c \in Counters : /\ entries'[e][c].act = entries[e][c].act
                                  /\ entries[e][c].attempted => entries'[e][c].attempted
           /\ RevKnown(flush'[e].remote) /\ FlushInv(e)'
           /\ flush'[e].pc = "confirmed" => \A c \in 1..outbox[e].acked + flush'[e].count :
                                              InLog(ActOf(e, c), appview'.last)
  PROVE  IInv'
<1>1. \A e \in Devices : \A c \in Counters : ActOf(e, c)' = ActOf(e, c)
  BY DEF ActOf
<1>2. \A e \in Devices : Made(e)' = Made(e) /\ Made(e) \subseteq Counters
  BY MadeRange DEF Made
<1>3. ASSUME NEW e \in Devices PROVE QueueInv(e)'
  <2>1. QueueInv(e)
    BY DEF IInv, Inv
  <2>2. \A n \in {outbox[e].acked, manifest.devices[e].count} : Prefix(e, n)' = Prefix(e, n)
    <3>1. \A n \in {outbox[e].acked, manifest.devices[e].count} : 1..n \subseteq Counters
      BY <1>2, MadeRange
    <3> QED BY <1>1, <3>1 DEF Prefix
  <2>3. \A c \in Made(e)' : ActOf(e, c)' \in Acts
    BY <1>1, <1>2, MadeRange
  <2>4. \A c \in outbox[e].acked + 1 .. manifest.devices[e].count : entries'[e][c].attempted
    <3>1. outbox[e].acked \in Nat
      BY Fields DEF IInv
    <3>2. outbox[e].acked + 1 .. manifest.devices[e].count \subseteq Counters
      BY <1>2, <3>1, Fields, MadeRange DEF IInv
    <3> QED BY <2>1, <3>2 DEF QueueInv
  <2> QED BY <2>1, <2>2, <2>3, <2>4 DEF QueueInv
<1>4. RevsNameManifests'
  BY ProjectShows DEF IInv, Inv, RevsNameManifests, RevKnown
<1>5. FirstStands' /\ HistoryInv'
  BY DEF IInv, Inv, FirstStands, HistoryInv
<1>6. ShownInv'
  <2>1. appview.last \in Nat /\ appview'.last \in Nat /\ appview.last <= appview'.last
    BY ProjectShows, ManifestFields DEF IInv, TypeOK
  <2>2. \A a : InLog(a, appview.last) => InLog(a, appview.last)'
    BY <2>1 DEF InLog
  <2>3. ASSUME NEW e \in Devices, NEW c \in 1..outbox'[e].acked PROVE InLog(ActOf(e, c), appview.last)'
    <3>1. c \in Counters /\ c \in 1..outbox[e].acked
      BY <1>2, MadeRange
    <3>2. InLog(ActOf(e, c), appview.last)
      BY <3>1 DEF IInv, Inv, ShownInv
    <3> QED BY <1>1, <2>2, <3>1, <3>2
  <2>4. ASSUME NEW e \in Devices, flush'[e].pc = "confirmed", NEW c \in 1..outbox'[e].acked + flush'[e].count
        PROVE  InLog(ActOf(e, c), appview.last)'
    <3>1. outbox'[e].acked + flush'[e].count <= manifest.devices[e].count
      BY <2>4 DEF FlushInv
    <3>2. c \in Counters
      <4>1. /\ outbox'[e].acked \in Nat /\ flush'[e].count \in Nat /\ manifest.devices[e].count \in Nat
        BY Fields DEF IInv, TypeOK, Flush
      <4> QED BY <3>1, <4>1, <1>2, MadeRange
    <3> QED BY <1>1, <2>4, <3>2 DEF InLog
  <2> QED BY <2>3, <2>4, ProjectShows DEF ShownInv
<1>7. LoggedInv'
  BY <1>1, <1>2 DEF IInv, Inv, LoggedInv, InLog
<1> QED BY <1>3, <1>4, <1>5, <1>6, <1>7 DEF IInv, Inv

LEMMA ReconcileStep == ASSUME IInv, Reconcile PROVE IInv'
<1>1. TypeOK'
  BY ProjectShows DEF Reconcile, IInv, TypeOK
<1>2. appview.last \in Nat /\ appview'.last \in Nat /\ appview.last <= appview'.last
  BY ProjectShows, ManifestFields DEF IInv, TypeOK, Reconcile
<1>3. \A e \in Devices : RevKnown(flush[e].remote) /\ FlushInv(e)'
  BY DEF Reconcile, IInv, Inv, RevsNameManifests, FlushInv, Selected
<1>4. ASSUME NEW e \in Devices, flush'[e].pc = "confirmed", NEW c \in 1..outbox[e].acked + flush'[e].count
      PROVE  InLog(ActOf(e, c), appview'.last)
  BY <1>2, <1>4 DEF Reconcile, IInv, Inv, ShownInv, InLog
<1> QED BY <1>1, <1>3, <1>4, LocalStep DEF Reconcile

\* The same for a step of one device.
LEMMA DeviceStep ==
  ASSUME IInv, TypeOK', NEW d \in Devices,
         UNCHANGED <<manifest, history, used>>, appview' = appview \/ Project,
         \A e \in Devices \ {d} : outbox'[e] = outbox[e] /\ entries'[e] = entries[e] /\ flush'[e] = flush[e],
         outbox'[d].acked = outbox[d].acked, outbox'[d].next = outbox[d].next,
         outbox'[d].prefix = outbox[d].prefix,
         \A c \in Counters : /\ entries'[d][c].act = entries[d][c].act
                             /\ entries[d][c].attempted => entries'[d][c].attempted,
         RevKnown(flush'[d].remote), FlushInv(d)',
         flush'[d].pc = "confirmed" => \A c \in 1..outbox[d].acked + flush'[d].count :
                                          InLog(ActOf(d, c), appview'.last)
  PROVE  IInv'
<1>1. appview.last \in Nat /\ appview'.last \in Nat /\ appview.last <= appview'.last
  BY ProjectShows, ManifestFields DEF IInv, TypeOK
<1>2. ASSUME NEW e \in Devices \ {d} PROVE RevKnown(flush'[e].remote) /\ FlushInv(e)'
  BY <1>2 DEF IInv, Inv, RevsNameManifests, FlushInv, Selected
<1>3. ASSUME NEW e \in Devices \ {d}, flush'[e].pc = "confirmed",
             NEW c \in 1..outbox[e].acked + flush'[e].count
      PROVE  InLog(ActOf(e, c), appview'.last)
  BY <1>1, <1>3 DEF IInv, Inv, ShownInv, InLog
<1> QED BY <1>2, <1>3, LocalStep

\* A flush that ends, or starts again after a conflict.
Ends(d) == \/ RetryLater(d) \/ Reject(d) \/ Conflicted(d)
           \/ Unlock(d) /\ UNCHANGED outbox

LEMMA EndStep ==
  ASSUME IInv, NEW d \in Devices, flush[d].pc # "idle", Ends(d),
         UNCHANGED <<entries, manifest, history, used, bumps>>,
         appview' = appview \/ Project, faults' \in 0..MaxFaults
  PROVE  IInv'
<1>1. NoFlush \in Flush
  BY NoFlushType
<1>2. [NoFlush EXCEPT !.pc = "marked", !.batch = flush[d].batch, !.tries = flush[d].tries + 1] \in Flush
  <2>1. flush[d].batch \in Nat /\ flush[d].tries + 1 \in Nat /\ "marked" \in Phases
    BY Fields DEF IInv, Flush, Phases
  <2> QED BY <1>1, <2>1 DEF Flush
<1>3. /\ flush' \in [Devices -> Flush] /\ flush'[d].pc \in {"idle", "marked"}
      /\ flush'[d].remote = FirstManifest
      /\ flush'[d].pc = "marked" => flush'[d].batch = flush[d].batch
      /\ \A e \in Devices \ {d} : flush'[e] = flush[e]
  <2>1. CASE flush' = [flush EXCEPT ![d] = NoFlush]
    BY <1>1, <2>1, NoFlushType DEF IInv, TypeOK
  <2>2. CASE flush' = [flush EXCEPT ![d] = [NoFlush EXCEPT !.pc = "marked", !.batch = flush[d].batch,
                                                            !.tries = flush[d].tries + 1]]
    <3>1. flush'[d] = [NoFlush EXCEPT !.pc = "marked", !.batch = flush[d].batch, !.tries = flush[d].tries + 1]
      BY <2>2 DEF IInv, TypeOK
    <3>2. flush'[d].pc = "marked" /\ flush'[d].batch = flush[d].batch /\ flush'[d].remote = NoFlush.remote
      BY <1>1, <3>1 DEF Flush
    <3> QED BY <1>2, <2>2, <3>2, NoFlushType DEF IInv, TypeOK
  <2> QED BY <2>1, <2>2 DEF Ends, RetryLater, Reject, Conflicted, Unlock
<1>4. /\ outbox' \in [Devices -> Box] /\ outbox'[d].acked = outbox[d].acked
      /\ outbox'[d].next = outbox[d].next /\ outbox'[d].prefix = outbox[d].prefix
      /\ \A e \in Devices \ {d} : outbox'[e] = outbox[e]
  <2>1. CASE UNCHANGED outbox
    BY <2>1 DEF IInv, TypeOK
  <2>2. CASE outbox' = [outbox EXCEPT ![d].waiting = TRUE]
    BY <2>2, Fields DEF IInv, TypeOK, Box
  <2>3. CASE outbox' = [outbox EXCEPT ![d].waiting = TRUE, ![d].error = "conflicting_sequence"]
    <3>1. outbox'[d] = [outbox[d] EXCEPT !.waiting = TRUE, !.error = "conflicting_sequence"]
      BY <2>3 DEF IInv, TypeOK
    <3>2. outbox'[d] \in Box /\ outbox'[d].acked = outbox[d].acked
          /\ outbox'[d].next = outbox[d].next /\ outbox'[d].prefix = outbox[d].prefix
      BY <3>1, Fields DEF IInv, Box, Errors
    <3> QED BY <2>3, <3>2 DEF IInv, TypeOK
  <2> QED BY <2>1, <2>2, <2>3 DEF Ends, RetryLater, Reject, Conflicted
<1>5. TypeOK'
  BY <1>3, <1>4, ProjectShows DEF IInv, TypeOK
<1>6. FlushInv(d)' /\ RevKnown(flush'[d].remote)
  BY <1>3, <1>4 DEF IInv, Inv, FlushInv, Selected, RevsNameManifests
<1> QED BY <1>3, <1>4, <1>5, <1>6, DeviceStep

LEMMA WakeStep == ASSUME IInv, NEW d \in Devices, Wake(d) PROVE IInv'
<1>1. outbox'[d] = [outbox[d] EXCEPT !.waiting = FALSE]
  BY DEF Wake, IInv, TypeOK
<1>2. /\ outbox'[d] \in Box /\ outbox'[d].acked = outbox[d].acked
      /\ outbox'[d].next = outbox[d].next /\ outbox'[d].prefix = outbox[d].prefix
  BY <1>1, Fields DEF IInv, Box
<1>3. TypeOK'
  BY <1>2 DEF Wake, IInv, TypeOK
<1>4. FlushInv(d)' /\ RevKnown(flush'[d].remote) /\ flush'[d].pc # "confirmed"
  BY <1>2 DEF Wake, Idle, IInv, Inv, FlushInv, Selected, RevsNameManifests
<1> QED BY <1>2, <1>3, <1>4, DeviceStep DEF Wake, IInv, TypeOK

LEMMA FlushStartStep == ASSUME IInv, NEW d \in Devices, FlushStart(d) PROVE IInv'
<1> DEFINE batch == Least(Batch, outbox[d].next - 1 - outbox[d].acked)
           attempted == outbox[d].acked + 1 .. outbox[d].acked + batch
<1>1. /\ flush' = [flush EXCEPT ![d].pc = "marked", ![d].batch = batch]
      /\ entries' = [entries EXCEPT ![d] = [c \in Counters |->
            IF c \in attempted THEN [@[c] EXCEPT !.attempted = TRUE] ELSE @[c]]]
  BY DEF FlushStart
<1>2. batch \in Nat \ {0} /\ outbox[d].acked + batch < outbox[d].next
  <2>1. outbox[d].next - 1 - outbox[d].acked > 0
    BY DEF FlushStart
  <2> QED BY <2>1, BoundAssumption, Fields DEF IInv, Least
<1> HIDE DEF batch
<1>3. flush'[d] = [flush[d] EXCEPT !.pc = "marked", !.batch = batch]
  BY <1>1 DEF IInv, TypeOK
<1>4. flush'[d] \in Flush /\ flush'[d].pc = "marked" /\ flush'[d].batch = batch /\ flush'[d].remote = flush[d].remote
  <2>1. "marked" \in Phases
    BY DEF Phases
  <2> QED BY <1>2, <1>3, <2>1, Fields DEF IInv, Flush
<1>5. \A c \in Counters : entries'[d][c] = IF c \in attempted THEN [entries[d][c] EXCEPT !.attempted = TRUE]
                                           ELSE entries[d][c]
  BY <1>1 DEF IInv, TypeOK
<1>6. \A c \in Counters : /\ entries'[d][c] \in Entry /\ entries'[d][c].act = entries[d][c].act
                          /\ entries[d][c].attempted => entries'[d][c].attempted
                          /\ c \in attempted => entries'[d][c].attempted
  <2> SUFFICES ASSUME NEW c \in Counters
               PROVE  /\ entries'[d][c] \in Entry /\ entries'[d][c].act = entries[d][c].act
                      /\ entries[d][c].attempted => entries'[d][c].attempted
                      /\ c \in attempted => entries'[d][c].attempted
    OBVIOUS
  <2>1. entries[d][c] \in Entry
    BY Fields DEF IInv
  <2>2. CASE c \in attempted
    <3>1. entries'[d][c] = [entries[d][c] EXCEPT !.attempted = TRUE]
      BY <1>5, <2>2
    <3> QED BY <2>1, <3>1 DEF Entry
  <2>3. CASE c \notin attempted
    <3>1. entries'[d][c] = entries[d][c]
      BY <1>5, <2>3
    <3> QED BY <2>1, <2>3, <3>1
  <2> QED BY <2>2, <2>3
<1>7. TypeOK'
  <2>1. entries'[d] \in [Counters -> Entry]
    BY <1>1, <1>6 DEF IInv, TypeOK
  <2> QED BY <1>1, <1>4, <2>1 DEF FlushStart, IInv, TypeOK
<1>8. FlushInv(d)' /\ RevKnown(flush'[d].remote)
  <2>1. attempted \subseteq Counters
    BY <1>2, Fields, MadeRange DEF IInv, Made
  <2>2. Selected(d)' = attempted /\ outbox'[d] = outbox[d]
    BY <1>4 DEF FlushStart, Selected
  <2>3. \A c \in Selected(d)' : entries'[d][c].attempted
    BY <1>6, <2>1, <2>2
  <2>4. RevKnown(flush'[d].remote)
    BY <1>4 DEF IInv, Inv, RevsNameManifests
  <2>5. FlushInv(d)'
    BY <1>2, <1>4, <2>2, <2>3 DEF FlushInv
  <2> QED BY <2>4, <2>5
<1>9. \A e \in Devices \ {d} : outbox'[e] = outbox[e] /\ entries'[e] = entries[e] /\ flush'[e] = flush[e]
  BY <1>1 DEF FlushStart, IInv, TypeOK
<1> QED BY <1>4, <1>6, <1>7, <1>8, <1>9, DeviceStep DEF FlushStart

\* A flush that goes on in phase pc with the queue it had.
LEMMA GoesOn ==
  ASSUME IInv, NEW d \in Devices, flush[d].pc # "idle",
         UNCHANGED <<outbox, entries, manifest, history, used, faults, bumps>>,
         appview' = appview \/ Project,
         \A e \in Devices \ {d} : flush'[e] = flush[e], flush' \in [Devices -> Flush],
         flush'[d].batch = flush[d].batch, RevKnown(flush'[d].remote),
         flush'[d].pc \in {"baseline", "upgrading"} => flush'[d].remote.version = 1,
         flush'[d].pc \in {"publishing", "acknowledging"} => flush'[d].remote.version = 2,
         flush'[d].pc \in {"acknowledging", "swapped", "confirmed"} =>
           outbox[d].acked + flush'[d].count <= manifest.devices[d].count,
         flush'[d].pc = "confirmed" => Project
  PROVE  IInv'
<1>1. TypeOK'
  BY ProjectShows DEF IInv, TypeOK
<1>2. FlushInv(d)'
  BY DEF IInv, Inv, FlushInv, Selected
<1>3. ASSUME flush'[d].pc = "confirmed", NEW c \in 1..outbox[d].acked + flush'[d].count
      PROVE  InLog(ActOf(d, c), appview'.last)
  <2>1. c \in 1..manifest.devices[d].count
    <3>1. outbox[d].acked \in Nat /\ flush'[d].count \in Nat /\ manifest.devices[d].count \in Nat
      BY Fields DEF IInv, Flush
    <3> QED BY <1>3, <3>1
  <2>2. InLog(ActOf(d, c), Len(history))
    BY <2>1, MadeRange DEF IInv, Inv, LoggedInv
  <2>3. appview'.last = Len(history)
    BY <1>3, ProjectShows DEF IInv, Inv, HistoryInv
  <2> QED BY <2>2, <2>3
<1> QED BY <1>1, <1>2, <1>3, DeviceStep

LEMMA LoadStep == ASSUME IInv, NEW d \in Devices, Load(d) PROVE IInv'
<1>1. CASE Reject(d)
  <2>1. /\ UNCHANGED <<entries, manifest, history, used, bumps>> /\ appview' = appview
        /\ flush[d].pc # "idle" /\ faults' \in 0..MaxFaults
    BY DEF Load, IInv, TypeOK
  <2> QED BY <1>1, <2>1, EndStep DEF Ends
<1>2. CASE /\ ~(manifest.version = 2 /\ ~Verified(d, manifest.devices[d]))
           /\ flush' = [flush EXCEPT ![d].remote = manifest,
                          ![d].count = Acknowledged(d, manifest.devices[d]),
                          ![d].pc = CASE manifest.version = 1 -> "baseline"
                                      [] Acknowledged(d, manifest.devices[d]) > 0 -> "acknowledging"
                                      [] OTHER -> "publishing"]
           /\ UNCHANGED outbox
  <2> DEFINE ack == manifest.devices[d].count - outbox[d].acked
             pc == CASE manifest.version = 1 -> "baseline" [] ack > 0 -> "acknowledging" [] OTHER -> "publishing"
  <2>1. ack \in Nat
    BY Fields DEF IInv, Inv, QueueInv
  <2>2. manifest.version \in {1, 2} /\ manifest \in Manifest
    BY ManifestFields DEF IInv, TypeOK
  <2>3. /\ pc \in {"baseline", "acknowledging", "publishing"}
        /\ pc = "baseline" => manifest.version = 1
        /\ pc \in {"publishing", "acknowledging"} => manifest.version = 2
    <3>1. CASE manifest.version = 1
      <4>1. manifest.devices[d] = NoReceipt
        BY <3>1, FirstManifestType DEF IInv, Inv, FirstStands
      <4>2. ~(ack > 0)
        BY <4>1, Fields DEF IInv, NoReceipt
      <4> QED BY <3>1, <4>2
    <3>2. CASE manifest.version = 2 /\ ack > 0
      BY <3>2
    <3>3. CASE manifest.version = 2 /\ ~(ack > 0)
      BY <3>3
    <3> QED BY <2>2, <3>1, <3>2, <3>3
  <2> HIDE DEF pc
  <2>4. flush'[d] = [flush[d] EXCEPT !.remote = manifest, !.count = ack, !.pc = pc]
    BY <1>2 DEF IInv, TypeOK, Acknowledged, pc
  <2> HIDE DEF ack
  <2>5. /\ flush'[d] \in Flush /\ flush'[d].remote = manifest /\ flush'[d].count = ack /\ flush'[d].pc = pc
        /\ flush'[d].batch = flush[d].batch
    <3>1. pc \in Phases
      BY <2>3 DEF Phases
    <3> QED BY <2>1, <2>2, <2>4, <3>1, Fields DEF IInv, Flush
  <2>6. \A e \in Devices \ {d} : flush'[e] = flush[e]
    BY <1>2 DEF IInv, TypeOK
  <2>7. flush' \in [Devices -> Flush]
    BY <1>2, <2>5 DEF IInv, TypeOK
  <2>8. RevKnown(manifest)
    BY <2>2, ManifestFields DEF RevKnown
  <2>9. outbox[d].acked + ack <= manifest.devices[d].count
    BY Fields DEF IInv, ack
  <2> QED BY <1>2, <2>3, <2>5, <2>6, <2>7, <2>8, <2>9, GoesOn DEF Load
<1> QED BY <1>1, <1>2 DEF Load

\* A phase that only moves on, once the AppView has confirmed the manifest.
LEMMA MovesOn ==
  ASSUME IInv, NEW d \in Devices, NEW pc \in {"upgrading", "marked", "confirmed"},
         flush' = [flush EXCEPT ![d].pc = pc], flush[d].pc # "idle", Project,
         UNCHANGED <<outbox, entries, manifest, history, used, faults, bumps>>,
         pc = "upgrading" => flush[d].pc = "baseline",
         pc = "confirmed" => flush[d].pc \in {"acknowledging", "swapped"}
  PROVE  IInv'
<1>1. flush'[d] = [flush[d] EXCEPT !.pc = pc]
  BY DEF IInv, TypeOK
<1>2. /\ flush'[d] \in Flush /\ flush'[d].pc = pc /\ flush'[d].batch = flush[d].batch
      /\ flush'[d].count = flush[d].count /\ flush'[d].remote = flush[d].remote
  <2>1. pc \in Phases
    BY DEF Phases
  <2> QED BY <1>1, <2>1, Fields DEF IInv, Flush
<1>3. flush' \in [Devices -> Flush] /\ \A e \in Devices \ {d} : flush'[e] = flush[e]
  BY <1>2 DEF IInv, TypeOK
<1>4. RevKnown(flush'[d].remote) /\ FlushInv(d)
  BY <1>2 DEF IInv, Inv, RevsNameManifests
<1> QED BY <1>2, <1>3, <1>4, GoesOn DEF FlushInv

LEMMA ConfirmSteps ==
  ASSUME IInv, NEW d \in Devices,
         ConfirmBaseline(d) \/ ConfirmUpgrade(d) \/ ConfirmSwap(d) \/ ConfirmLoaded(d)
  PROVE  IInv'
<1>1. CASE Ends(d) /\ UNCHANGED appview
  <2>1. /\ UNCHANGED <<entries, manifest, history, used, faults, bumps>> /\ flush[d].pc # "idle"
        /\ faults' \in 0..MaxFaults
    BY DEF ConfirmBaseline, ConfirmUpgrade, ConfirmSwap, ConfirmLoaded, IInv, TypeOK
  <2> QED BY <1>1, <2>1, EndStep
<1>2. CASE ConfirmBaseline(d) /\ Project /\ flush' = [flush EXCEPT ![d].pc = "upgrading"] /\ UNCHANGED outbox
  BY <1>2, MovesOn DEF ConfirmBaseline
<1>3. CASE ConfirmUpgrade(d) /\ Project /\ flush' = [flush EXCEPT ![d].pc = "marked"] /\ UNCHANGED outbox
  BY <1>3, MovesOn DEF ConfirmUpgrade
<1>4. CASE /\ ConfirmSwap(d) \/ ConfirmLoaded(d)
           /\ Project /\ flush' = [flush EXCEPT ![d].pc = "confirmed"] /\ UNCHANGED outbox
  BY <1>4, MovesOn DEF ConfirmSwap, ConfirmLoaded
<1> QED BY <1>1, <1>2, <1>3, <1>4 DEF ConfirmBaseline, ConfirmUpgrade, ConfirmSwap, ConfirmLoaded, Ends

LEMMA FailStep == ASSUME IInv, NEW d \in Devices, Fail(d) PROVE IInv'
<1>1. flush[d].pc # "idle" /\ Ends(d) /\ appview' = appview
  BY DEF Fail, Idle, Ends
<1>2. faults' \in 0..MaxFaults
  BY BoundAssumption DEF Fail, IInv, TypeOK
<1> QED BY <1>1, <1>2, EndStep DEF Fail
-----------------------------------------------------------------------------
(* A new mark. *)

\* It replaces no mark that is published, and none a flush has selected.
LEMMA SlotFree ==
  ASSUME IInv, NEW d \in Devices, NEW a \in Acts, Enqueue(d, a),
         NEW slot, slot = IF Replaces(d, a) THEN outbox[d].next - 1 ELSE outbox[d].next
  PROVE  /\ slot \in Counters /\ slot \in {outbox[d].next - 1, outbox[d].next}
         /\ slot > manifest.devices[d].count
         /\ flush[d].pc # "idle" => slot > outbox[d].acked + flush[d].batch
<1>1. slot \in Counters /\ slot \in {outbox[d].next - 1, outbox[d].next}
  BY DEF Enqueue
<1>2. QueueInv(d) /\ FlushInv(d)
  BY DEF IInv, Inv
<1>3. /\ outbox[d].acked \in Nat /\ outbox[d].next \in Nat /\ manifest.devices[d].count \in Nat
      /\ flush[d].batch \in Nat
  BY Fields DEF IInv
<1>4. CASE Replaces(d, a)
  <2>1. slot = outbox[d].next - 1 /\ slot > outbox[d].acked /\ ~entries[d][slot].attempted
    BY <1>4 DEF Replaces
  <2> QED BY <1>1, <1>2, <1>3, <2>1 DEF QueueInv, FlushInv, Selected
<1>5. CASE ~Replaces(d, a)
  BY <1>1, <1>2, <1>3, <1>5 DEF QueueInv, FlushInv
<1> QED BY <1>4, <1>5

LEMMA EnqueueStep == ASSUME IInv, NEW d \in Devices, NEW a \in Acts, Enqueue(d, a) PROVE IInv'
<1>0. PICK slot : slot = IF Replaces(d, a) THEN outbox[d].next - 1 ELSE outbox[d].next
  OBVIOUS
<1>1. /\ a \notin used /\ used' = used \cup {a}
      /\ entries' = [entries EXCEPT ![d][slot] = [Free EXCEPT !.act = a]]
      /\ outbox' = [outbox EXCEPT ![d].next = slot + 1]
      /\ UNCHANGED <<flush, manifest, appview, history, faults, bumps>>
  BY <1>0 DEF Enqueue
<1>2. /\ slot \in Counters /\ slot \in {outbox[d].next - 1, outbox[d].next}
      /\ slot > manifest.devices[d].count
      /\ flush[d].pc # "idle" => slot > outbox[d].acked + flush[d].batch
  BY <1>0, SlotFree
<1>3. slot \in Nat /\ slot <= MaxMarks /\ slot > 0
  BY <1>2, BoundAssumption DEF Counters
<1>4. outbox'[d] = [outbox[d] EXCEPT !.next = slot + 1]
  BY <1>1 DEF IInv, TypeOK
<1>5. /\ outbox'[d] \in Box /\ outbox'[d].acked = outbox[d].acked /\ outbox'[d].prefix = outbox[d].prefix
      /\ outbox'[d].next = slot + 1
  <2>1. outbox[d] \in Box /\ slot + 1 \in Nat
    BY <1>3, Fields DEF IInv
  <2> QED BY <1>4, <2>1 DEF Box
<1>6. [Free EXCEPT !.act = a] \in Entry /\ [Free EXCEPT !.act = a].act = a
  BY DEF Free, Entry
<1>7. /\ entries' \in [Devices -> [Counters -> Entry]] /\ entries'[d][slot].act = a
      /\ \A e \in Devices : \A c \in Counters : e # d \/ c # slot => entries'[e][c] = entries[e][c]
  BY <1>1, <1>2, <1>6, Fields DEF IInv, TypeOK
<1>8. \A e \in Devices \ {d} : outbox'[e] = outbox[e]
  BY <1>1 DEF IInv, TypeOK
<1>9. TypeOK'
  BY <1>1, <1>5, <1>7 DEF IInv, TypeOK
<1>10. /\ \A e \in Devices \ {d} : Made(e)' = Made(e)
       /\ Made(d)' = Made(d) \cup {slot} /\ \A c \in Made(d) : c <= slot
  <2>1. outbox[d].next \in Nat
    BY Fields DEF IInv
  <2> QED BY <1>2, <1>3, <1>5, <1>8, <2>1 DEF Made
<1>11. /\ ActOf(d, slot)' = a
       /\ \A e \in Devices : \A c \in Made(e) : e # d \/ c # slot => ActOf(e, c)' = ActOf(e, c)
  BY <1>7, MadeRange DEF ActOf
<1>12. \A e \in Devices : \A c \in 1..manifest.devices[e].count : ActOf(e, c)' = ActOf(e, c)
  <2>1. manifest.devices[d].count \in Nat
    BY Fields DEF IInv
  <2>2. slot \notin 1..manifest.devices[d].count
    BY <1>2, <1>3, <2>1
  <2> QED BY <1>11, <2>2, MadeRange
<1>13. ASSUME NEW e \in Devices PROVE QueueInv(e)'
  <2>1. QueueInv(e) /\ outbox[e].acked \in Nat /\ manifest.devices[e].count \in Nat
    BY Fields DEF IInv, Inv
  <2>2. /\ outbox'[e].acked = outbox[e].acked /\ outbox'[e].prefix = outbox[e].prefix
        /\ outbox'[e].next <= MaxMarks + 1 /\ manifest.devices[e].count < outbox'[e].next
    BY <1>2, <1>3, <1>5, <1>8, <2>1, BoundAssumption DEF QueueInv
  <2>3. \A n \in {outbox[e].acked, manifest.devices[e].count} : Prefix(e, n)' = Prefix(e, n)
    BY <1>12, <2>1 DEF QueueInv, Prefix
  <2>4. \A c \in Made(e)' : ActOf(e, c)' \in Acts
    BY <1>10, <1>11, MadeRange
  <2>5. \A c \in outbox[e].acked + 1 .. manifest.devices[e].count : entries'[e][c].attempted
    <3>1. 1..manifest.devices[e].count \subseteq Counters
      BY MadeRange
    <3> QED BY <1>2, <1>7, <2>1, <3>1 DEF QueueInv
  <2> QED BY <1>1, <2>1, <2>2, <2>3, <2>4, <2>5 DEF QueueInv
<1>14. ASSUME NEW e \in Devices PROVE FlushInv(e)'
  <2>1. FlushInv(e) /\ outbox[e].acked \in Nat /\ flush[e].batch \in Nat /\ outbox[e].next \in Nat
    BY Fields DEF IInv, Inv
  <2>2. CASE e # d
    BY <1>1, <1>7, <1>8, <2>1, <2>2, MadeRange DEF FlushInv, Selected, Made
  <2>3. CASE e = d
    <3>1. Selected(d)' = Selected(d)
      BY <1>1, <1>5 DEF Selected
    <3>2. flush[d].pc # "idle" => \A c \in Selected(d) : c \in Counters /\ c # slot
      BY <1>2, <1>3, <2>1, <2>3, MadeRange DEF FlushInv, Selected, Made
    <3> QED BY <1>1, <1>2, <1>3, <1>5, <1>7, <2>1, <2>3, <3>1, <3>2 DEF FlushInv
  <2> QED BY <2>2, <2>3
<1>15. RevsNameManifests' /\ FirstStands' /\ HistoryInv'
  BY <1>1 DEF IInv, Inv, RevsNameManifests, RevKnown, FirstStands, HistoryInv
<1>16. ShownInv'
  <2>1. \A e \in Devices : outbox'[e].acked = outbox[e].acked
    BY <1>5, <1>8
  <2>2. \A e \in Devices : \A c \in 1..outbox[e].acked : ActOf(e, c)' = ActOf(e, c)
    <3>1. \A e \in Devices : outbox[e].acked \in Nat /\ manifest.devices[e].count \in Nat
                             /\ outbox[e].acked <= manifest.devices[e].count
      BY Fields DEF IInv, Inv, QueueInv
    <3> QED BY <1>12, <3>1
  <2>3. \A e \in Devices : flush[e].pc = "confirmed" =>
           \A c \in 1..outbox[e].acked + flush[e].count : ActOf(e, c)' = ActOf(e, c)
    <3>1. \A e \in Devices : /\ outbox[e].acked \in Nat /\ manifest.devices[e].count \in Nat /\ flush[e].count \in Nat
                             /\ flush[e].pc = "confirmed" =>
                                  outbox[e].acked + flush[e].count <= manifest.devices[e].count
      BY Fields DEF IInv, Inv, FlushInv
    <3> QED BY <1>12, <3>1
  <2> QED BY <1>1, <2>1, <2>2, <2>3 DEF IInv, Inv, ShownInv, InLog
<1>17. \A b : InLog(b, Len(history)) => b \in used
  BY DEF IInv, Inv, LoggedInv, InLog, TypeOK
<1>18. ASSUME NEW e \in Devices, NEW c \in Made(e)' PROVE \/ e = d /\ c = slot /\ ActOf(e, c)' = a
                                                         \/ /\ c \in Made(e) /\ ~(e = d /\ c = slot)
                                                            /\ ActOf(e, c)' = ActOf(e, c)
                                                            /\ ActOf(e, c) \in used
  BY <1>10, <1>11, <1>18 DEF IInv, Inv, LoggedInv
<1>19. LoggedInv'
  <2>1. \A b \in manifest'.legacy : InLog(b, Len(history))'
    BY <1>1 DEF IInv, Inv, LoggedInv, InLog
  <2>2. \A i \in DOMAIN history' : history'[i] \in used'
    BY <1>1 DEF IInv, Inv, LoggedInv
  <2> SUFFICES ASSUME NEW e \in Devices, NEW c \in Made(e)'
               PROVE  /\ ActOf(e, c)' \in used'
                      /\ \A f \in Devices : \A b \in Made(f)' : ActOf(e, c)' = ActOf(f, b)' => e = f /\ c = b
                      /\ c <= manifest'.devices[e].count => InLog(ActOf(e, c), Len(history))'
                      /\ /\ manifest'.version = 2 /\ c > manifest'.devices[e].count
                         /\ InLog(ActOf(e, c), Len(history))'
                         => ActOf(e, c)' \in manifest'.legacy
    BY <2>1, <2>2 DEF LoggedInv
  <2>3. \A b : InLog(b, Len(history))' <=> InLog(b, Len(history))
    BY <1>1 DEF InLog
  <2>4. CASE e = d /\ c = slot
    <3>1. ActOf(e, c)' = a
      BY <1>11, <2>4
    <3>2. \A f \in Devices : \A b \in Made(f)' : ActOf(f, b)' = a => e = f /\ c = b
      BY <1>1, <1>18, <2>4
    <3>3. ~InLog(a, Len(history))
      BY <1>1, <1>17
    <3>4. ~(c <= manifest'.devices[e].count)
      BY <1>1, <1>2, <1>3, <2>4, Fields DEF IInv
    <3>5. ~InLog(ActOf(e, c), Len(history))'
      BY <1>1, <3>1, <3>3 DEF InLog
    <3> QED BY <1>1, <3>1, <3>2, <3>4, <3>5
  <2>5. CASE ~(e = d /\ c = slot)
    <3>1. c \in Made(e) /\ ActOf(e, c)' = ActOf(e, c) /\ ActOf(e, c) \in used
      BY <1>18, <2>5
    <3>2. \A f \in Devices : \A b \in Made(f)' : ActOf(f, b)' = ActOf(e, c) => e = f /\ c = b
      BY <1>1, <1>18, <3>1 DEF IInv, Inv, LoggedInv
    <3>3. InLog(ActOf(e, c), Len(history))' <=> InLog(ActOf(e, c), Len(history))
      BY <1>1, <3>1 DEF InLog
    <3> QED BY <1>1, <3>1, <3>2, <3>3 DEF IInv, Inv, LoggedInv
  <2> QED BY <2>4, <2>5
<1> QED BY <1>9, <1>13, <1>14, <1>15, <1>16, <1>19 DEF IInv, Inv
-----------------------------------------------------------------------------
(* The confirmed prefix leaves the queue. *)

LEMMA AcknowledgeStep == ASSUME IInv, NEW d \in Devices, Acknowledge(d) PROVE IInv'
<1>0. PICK acked : acked = outbox[d].acked + flush[d].count
  OBVIOUS
<1>1. /\ outbox' = [outbox EXCEPT ![d].acked = acked, ![d].error = "none",
                      ![d].prefix = [c \in 1..acked |-> IF c <= outbox[d].acked THEN @[c] ELSE entries[d][c].act]]
      /\ flush' = [flush EXCEPT ![d] = NoFlush] /\ flush[d].pc = "confirmed"
      /\ UNCHANGED <<entries, manifest, appview, history, used, faults, bumps>>
  BY <1>0 DEF Acknowledge, Unlock
<1>2. /\ acked \in Nat /\ outbox[d].acked \in Nat /\ outbox[d].acked <= acked
      /\ acked <= manifest.devices[d].count /\ manifest.devices[d].count \in Nat
      /\ QueueInv(d)
  BY <1>0, <1>1, Fields DEF IInv, Inv, FlushInv
<1>3. 1..acked \subseteq Made(d)
  BY <1>2, MadeRange
<1>4. [c \in 1..acked |-> IF c <= outbox[d].acked THEN outbox[d].prefix[c] ELSE entries[d][c].act]
        = Prefix(d, acked)
  BY <1>2 DEF QueueInv, Prefix, ActOf
<1>5. Prefix(d, acked) \in Seq(Acts)
  <2>1. \A c \in 1..acked : ActOf(d, c) \in Acts
    BY <1>3, MadeRange
  <2> QED BY <1>2, <2>1 DEF Prefix
<1>6. outbox'[d] = [outbox[d] EXCEPT !.acked = acked, !.error = "none", !.prefix = Prefix(d, acked)]
  BY <1>1, <1>4, Fields DEF IInv, TypeOK, Box
<1>7. /\ outbox'[d] \in Box /\ outbox'[d].acked = acked /\ outbox'[d].next = outbox[d].next
      /\ outbox'[d].prefix = Prefix(d, acked)
  <2>1. "none" \in Errors
    BY DEF Errors
  <2> QED BY <1>2, <1>5, <1>6, <2>1, Fields DEF IInv, Box
<1>8. \A e \in Devices \ {d} : outbox'[e] = outbox[e] /\ flush'[e] = flush[e]
  BY <1>1 DEF IInv, TypeOK
<1>9. flush'[d] = NoFlush
  BY <1>1 DEF IInv, TypeOK
<1>10. TypeOK'
  BY <1>1, <1>7, NoFlushType DEF IInv, TypeOK
<1>11. ASSUME NEW e \in Devices PROVE QueueInv(e)'
  <2>1. \A n : Prefix(e, n)' = Prefix(e, n)
    BY <1>1 DEF Prefix, ActOf
  <2>2. Made(e)' = Made(e)
    BY <1>7, <1>8 DEF Made
  <2>3. CASE e = d
    <3>1. \A c \in acked + 1 .. manifest.devices[d].count : entries[d][c].attempted
      BY <1>2 DEF QueueInv
    <3>2. outbox'[d].prefix = Prefix(d, outbox[d].acked)'
      BY <1>1, <1>7 DEF Prefix, ActOf
    <3> QED BY <1>1, <1>2, <1>7, <2>1, <2>2, <2>3, <3>1, <3>2 DEF QueueInv, ActOf
  <2>4. CASE e # d
    <3>1. QueueInv(e) /\ outbox'[e] = outbox[e] /\ UNCHANGED <<manifest, entries>>
      BY <1>1, <1>8, <2>4 DEF IInv, Inv
    <3> QED BY <2>1, <2>2, <3>1 DEF QueueInv, ActOf
  <2> QED BY <2>3, <2>4
<1>12. ASSUME NEW e \in Devices PROVE FlushInv(e)'
  <2>1. CASE e = d
    BY <1>9, <2>1, NoFlushType DEF FlushInv
  <2>2. CASE e # d
    BY <1>1, <1>8, <2>2 DEF IInv, Inv, FlushInv, Selected
  <2> QED BY <2>1, <2>2
<1>13. RevsNameManifests' /\ FirstStands' /\ HistoryInv'
  BY <1>1, <1>8, <1>9, NoFlushType DEF IInv, Inv, RevsNameManifests, RevKnown, FirstStands, HistoryInv
<1>14. ShownInv'
  <2>1. \A c \in 1..acked : InLog(ActOf(d, c), appview.last)
    BY <1>0, <1>1 DEF IInv, Inv, ShownInv
  <2>2. ASSUME NEW e \in Devices, NEW c \in 1..outbox'[e].acked PROVE InLog(ActOf(e, c), appview.last)
    BY <1>7, <1>8, <2>1 DEF IInv, Inv, ShownInv
  <2>3. ASSUME NEW e \in Devices, flush'[e].pc = "confirmed", NEW c \in 1..outbox'[e].acked + flush'[e].count
        PROVE  InLog(ActOf(e, c), appview.last)
    BY <1>8, <1>9, <2>3, NoFlushType DEF IInv, Inv, ShownInv
  <2>4. \A e \in Devices : \A c : InLog(ActOf(e, c), appview.last)' <=> InLog(ActOf(e, c), appview.last)
    BY <1>1 DEF InLog, ActOf
  <2>5. /\ appview'.last <= manifest'.last
        /\ \A i \in 1..appview'.last : \E f \in appview'.fragments :
             SelectionOf[f.act] = SelectionOf[history'[i]] /\ i <= f.seq
    BY <1>1 DEF IInv, Inv, ShownInv
  <2> QED BY <2>2, <2>3, <2>4, <2>5 DEF ShownInv
<1>15. LoggedInv'
  <2>1. \A e \in Devices : Made(e)' = Made(e) /\ \A c : ActOf(e, c)' = ActOf(e, c)
    BY <1>1, <1>7, <1>8 DEF Made, ActOf
  <2> QED BY <1>1, <2>1 DEF IInv, Inv, LoggedInv, InLog
<1> QED BY <1>10, <1>11, <1>12, <1>13, <1>14, <1>15 DEF IInv, Inv
-----------------------------------------------------------------------------
(* Steps that write the manifest. *)

LEMMA RevsMove ==
  ASSUME IInv, TypeOK', manifest'.rev > manifest.rev, appview' = appview,
         \A e \in Devices : flush'[e].remote \in {flush[e].remote, FirstManifest}
  PROVE  RevsNameManifests'
<1>1. manifest.rev \in Nat /\ manifest'.rev \in Nat
  BY ManifestFields DEF IInv, TypeOK
<1>2. \A m \in Manifest : RevKnown(m) => RevKnown(m)'
  BY <1>1, ManifestFields DEF RevKnown
<1>3. FirstManifest \in Manifest /\ RevKnown(FirstManifest)'
  BY <1>2, FirstManifestType DEF IInv, Inv, RevsNameManifests
<1>4. RevKnown(appview)'
  BY <1>2 DEF IInv, Inv, RevsNameManifests, TypeOK, RevKnown
<1>5. ASSUME NEW e \in Devices PROVE RevKnown(flush[e].remote)'
  <2>1. flush[e].remote \in Manifest /\ RevKnown(flush[e].remote)
    BY Fields DEF IInv, Inv, RevsNameManifests
  <2>2. CASE flush'[e].remote = flush[e].remote
    BY <1>1, <2>1, <2>2, ManifestFields DEF RevKnown
  <2>3. CASE flush'[e].remote = FirstManifest
    BY <1>3, <2>3 DEF RevKnown
  <2> QED BY <2>2, <2>3
<1> QED BY <1>3, <1>4, <1>5 DEF RevsNameManifests

LEMMA BumpStep == ASSUME IInv, Bump PROVE IInv'
<1>1. manifest \in Manifest /\ manifest.rev \in Nat
  BY ManifestFields DEF IInv, TypeOK
<1>2. /\ manifest' \in Manifest /\ manifest'.rev = manifest.rev + 1 /\ manifest'.version = manifest.version
      /\ manifest'.last = manifest.last /\ manifest'.fragments = manifest.fragments
      /\ manifest'.devices = manifest.devices /\ manifest'.legacy = manifest.legacy
  BY <1>1 DEF Bump, Manifest
<1>3. TypeOK'
  BY <1>2, BoundAssumption DEF Bump, IInv, TypeOK
<1>4. manifest'.rev > manifest.rev /\ \A e \in Devices : flush'[e].remote = flush[e].remote
  BY <1>1, <1>2 DEF Bump
<1>5. RevsNameManifests'
  BY <1>3, <1>4, RevsMove DEF Bump
<1>6. FirstStands' /\ HistoryInv' /\ ShownInv' /\ LoggedInv'
  BY <1>2 DEF Bump, IInv, Inv, FirstStands, HistoryInv, ShownInv, LoggedInv, InLog, Made, ActOf
<1>7. \A d \in Devices : QueueInv(d)' /\ FlushInv(d)'
  BY <1>2 DEF Bump, IInv, Inv, QueueInv, FlushInv, Selected, Made, ActOf, Prefix
<1> QED BY <1>3, <1>5, <1>6, <1>7 DEF IInv, Inv

\* Pruning all but the newest fragment of every selection keeps what a manifest tells.
LEMMA CompactedTells ==
  ASSUME NEW F \in SUBSET Fragment, NEW h \in Seq(Acts), Tells(F, h)
  PROVE  Tells(Compacted(F), h) /\ Compacted(F) \subseteq F
<1>1. Compacted(F) \subseteq F
  BY DEF Compacted
<1>2. ASSUME NEW i \in DOMAIN h, Newest(h, i) PROVE [act |-> h[i], seq |-> i] \in Compacted(F)
  <2> DEFINE f == [act |-> h[i], seq |-> i]
  <2>1. f \in F
    BY <1>2 DEF Tells
  <2>2. ASSUME NEW g \in F, SelectionOf[g.act] = SelectionOf[f.act] PROVE g.seq <= i
    BY <1>2, <2>2 DEF Tells, Newest
  <2>3. \A n \in SeqsOf(F, SelectionOf[f.act]) : n <= f.seq
    BY <2>2 DEF SeqsOf
  <2> QED BY <2>1, <2>3 DEF Compacted
<1> QED BY <1>1, <1>2 DEF Tells

LEMMA UpgradeStep == ASSUME IInv, NEW d \in Devices, Upgrade(d) PROVE IInv'
<1>1. CASE Conflicted(d) /\ UNCHANGED manifest
  <2>1. /\ UNCHANGED <<entries, manifest, history, used, bumps>> /\ appview' = appview
        /\ flush[d].pc # "idle" /\ faults' \in 0..MaxFaults
    BY <1>1 DEF Upgrade, IInv, TypeOK
  <2> QED BY <1>1, <2>1, EndStep DEF Ends
<1>2. CASE /\ Current(flush[d].remote.rev)
           /\ manifest' = [flush[d].remote EXCEPT !.version = 2, !.rev = flush[d].remote.last + 1,
                             !.fragments = Compacted(@),
                             !.legacy = {f.act : f \in flush[d].remote.fragments}]
           /\ flush' = [flush EXCEPT ![d].pc = "upgraded", ![d].ref = flush[d].remote.last + 1]
           /\ UNCHANGED outbox
  <2>1. flush[d].remote = manifest /\ manifest.version = 1
    BY <1>2 DEF Upgrade, Current, IInv, Inv, RevsNameManifests, RevKnown, FlushInv
  <2>2. manifest = FirstManifest /\ history = SequenceOf(Old)
    BY <2>1 DEF IInv, Inv, FirstStands
  <2>3. /\ manifest \in Manifest /\ manifest.rev = manifest.last /\ manifest.last \in Nat
        /\ manifest.fragments \in SUBSET Fragment
    BY <2>2, FirstManifestType, OldListed, ManifestFields
  <2>4. manifest' = [manifest EXCEPT !.version = 2, !.rev = manifest.last + 1,
                       !.fragments = Compacted(manifest.fragments),
                       !.legacy = {f.act : f \in manifest.fragments}]
    BY <1>2, <2>1, <2>3 DEF Manifest
  <2>5. Tells(manifest.fragments, history) /\ history \in Seq(Acts) /\ manifest.last = Len(history)
    BY DEF IInv, Inv, HistoryInv, TypeOK
  <2>6. Tells(Compacted(manifest.fragments), history) /\ Compacted(manifest.fragments) \subseteq Fragment
    BY <2>3, <2>5, CompactedTells
  <2>7. {f.act : f \in manifest.fragments} \subseteq Acts
    BY <2>3, ManifestFields
  <2>8. /\ manifest' \in Manifest /\ manifest'.rev = manifest.rev + 1 /\ manifest'.version = 2
        /\ manifest'.last = manifest.last /\ manifest'.fragments = Compacted(manifest.fragments)
        /\ manifest'.devices = manifest.devices /\ manifest'.legacy = {f.act : f \in manifest.fragments}
    <3>1. manifest.last + 1 \in Nat
      BY <2>3
    <3> QED BY <2>3, <2>4, <2>6, <2>7, <3>1 DEF Manifest
  <2>9. flush'[d] = [flush[d] EXCEPT !.pc = "upgraded", !.ref = manifest.last + 1]
    BY <1>2, <2>1 DEF IInv, TypeOK
  <2>10. /\ flush'[d] \in Flush /\ flush'[d].pc = "upgraded" /\ flush'[d].batch = flush[d].batch
         /\ flush'[d].remote = flush[d].remote
    <3>1. "upgraded" \in Phases /\ manifest.last + 1 \in Nat
      BY <2>3 DEF Phases
    <3> QED BY <2>9, <3>1, Fields DEF IInv, Flush
  <2>11. \A e \in Devices \ {d} : flush'[e] = flush[e]
    BY <1>2 DEF IInv, TypeOK
  <2>12. UNCHANGED <<outbox, entries, appview, history, used, faults, bumps>>
    BY <1>2 DEF Upgrade
  <2>13. TypeOK'
    BY <1>2, <2>8, <2>10, <2>12 DEF IInv, TypeOK
  <2>14. manifest'.rev > manifest.rev /\ \A e \in Devices : flush'[e].remote = flush[e].remote
    BY <2>3, <2>8, <2>10, <2>11
  <2>15. RevsNameManifests' /\ FirstStands' /\ HistoryInv'
    BY <2>5, <2>6, <2>8, <2>12, <2>13, <2>14, RevsMove DEF FirstStands, HistoryInv
  <2>16. ASSUME NEW e \in Devices PROVE QueueInv(e)'
    BY <2>8, <2>12 DEF IInv, Inv, QueueInv, Prefix, Made, ActOf
  <2>17. ASSUME NEW e \in Devices PROVE FlushInv(e)'
    <3>1. CASE e = d
      BY <2>8, <2>10, <2>12, <3>1 DEF Upgrade, IInv, Inv, FlushInv, Selected
    <3>2. CASE e # d
      BY <2>8, <2>11, <2>12, <3>2 DEF IInv, Inv, FlushInv, Selected
    <3> QED BY <3>1, <3>2
  <2>18. ShownInv'
    <3>1. \A e \in Devices : \A c : InLog(ActOf(e, c), appview.last)' <=> InLog(ActOf(e, c), appview.last)
      BY <2>12 DEF InLog, ActOf
    <3>2. \A e \in Devices : flush'[e].pc = "confirmed" => flush'[e] = flush[e]
      BY <2>10, <2>11
    <3> QED BY <2>8, <2>12, <3>1, <3>2 DEF IInv, Inv, ShownInv
  <2>19. \A a : InLog(a, Len(history)) <=> a \in manifest'.legacy
    <3>1. ASSUME NEW i \in 1..Len(history) PROVE history[i] \in manifest'.legacy
      <4>1. [act |-> history[i], seq |-> i] \in manifest.fragments
        BY <2>2, FirstManifestType, OldListed
      <4> QED BY <2>8, <4>1
    <3>2. ASSUME NEW f \in manifest.fragments PROVE InLog(f.act, Len(history))
      BY <2>5 DEF Tells, InLog
    <3> QED BY <2>8, <3>1, <3>2 DEF InLog
  <2>20. LoggedInv'
    <3>1. /\ \A e \in Devices : Made(e)' = Made(e) /\ \A c : ActOf(e, c)' = ActOf(e, c)
          /\ \A a : InLog(a, Len(history))' <=> InLog(a, Len(history))
          /\ history' = history /\ used' = used
      BY <2>12 DEF Made, ActOf, InLog
    <3> QED BY <2>8, <2>19, <3>1 DEF IInv, Inv, LoggedInv
  <2> QED BY <2>13, <2>15, <2>16, <2>17, <2>18, <2>20 DEF IInv, Inv
<1> QED BY <1>1, <1>2 DEF Upgrade

\* What a publication appends: each new mark once, at the place its fragment names.
Place(d, c) == Len(history) + Rank(NewMarks(d), c)

LEMMA NewMarksRange ==
  ASSUME IInv, NEW d \in Devices, flush[d].pc = "publishing"
  PROVE  /\ NewMarks(d) \in SUBSET Nat /\ NewMarks(d) \subseteq Selected(d) /\ Selected(d) \subseteq Made(d)
         /\ IsFiniteSet(NewMarks(d)) /\ Cardinality(NewMarks(d)) \in Nat
         /\ Cardinality(Selected(d)) = flush[d].batch
<1>1. /\ outbox[d].acked \in Nat /\ flush[d].batch \in Nat /\ outbox[d].next \in Nat
      /\ outbox[d].acked + flush[d].batch < outbox[d].next /\ flush[d].batch > 0
  BY Fields DEF IInv, Inv, FlushInv
<1>2. Selected(d) \in SUBSET Nat /\ Selected(d) \subseteq Made(d)
  BY <1>1 DEF Selected, Made
<1>3. IsFiniteSet(Selected(d)) /\ Cardinality(Selected(d)) = flush[d].batch
  <2>1. PICK lo \in Int, hi \in Int : /\ lo = outbox[d].acked + 1 /\ hi = outbox[d].acked + flush[d].batch
                                      /\ Selected(d) = lo..hi
    BY <1>1 DEF Selected
  <2>2. IsFiniteSet(lo..hi) /\ Cardinality(lo..hi) = IF lo > hi THEN 0 ELSE hi - lo + 1
    BY FS_Interval
  <2> QED BY <1>1, <2>1, <2>2
<1>4. NewMarks(d) \in SUBSET Selected(d)
  BY DEF NewMarks
<1>5. IsFiniteSet(NewMarks(d))
  BY <1>3, <1>4, FS_Subset
<1> QED BY <1>2, <1>3, <1>4, <1>5, FS_CardinalityType

LEMMA AppendedMarks ==
  ASSUME IInv, NEW d \in Devices, flush[d].pc = "publishing"
  PROVE  /\ Appended(d) \in Seq(Acts) /\ Len(Appended(d)) = Len(history) + Cardinality(NewMarks(d))
         /\ Len(history) \in Nat /\ Cardinality(NewMarks(d)) \in Nat
         /\ \A i \in 1..Len(history) : Appended(d)[i] = history[i]
         /\ \A c \in NewMarks(d) : /\ Place(d, c) \in Len(history) + 1 .. Len(Appended(d))
                                   /\ Appended(d)[Place(d, c)] = ActOf(d, c)
         /\ \A i \in Len(history) + 1 .. Len(Appended(d)) : \E c \in NewMarks(d) : i = Place(d, c)
<1> DEFINE S == NewMarks(d)
           n == Len(history)
           k == Cardinality(S)
<1>1. S \in SUBSET Nat /\ IsFiniteSet(S) /\ k \in Nat /\ S \subseteq Made(d)
  BY NewMarksRange
<1>2. history \in Seq(Acts) /\ n \in Nat
  BY DEF IInv, TypeOK
<1>3. ASSUME NEW c \in S PROVE (CHOOSE b \in S : Rank(S, b) = Rank(S, c)) = c
  <2>1. PICK b \in S : b = CHOOSE x \in S : Rank(S, x) = Rank(S, c)
    OBVIOUS
  <2>2. Rank(S, b) = Rank(S, c)
    BY <2>1
  <2>3. Rank(S, c) \in Nat /\ b \in Nat /\ c \in Nat
    BY <1>1, RankRange
  <2>4. ~(b < c) /\ ~(c < b)
    BY <1>1, <2>2, <2>3, RankGrows
  <2> QED BY <2>1, <2>3, <2>4
<1>4. Appended(d) = [i \in 1 .. n + k |-> IF i <= n THEN history[i]
                                          ELSE ActOf(d, CHOOSE c \in S : Rank(S, c) = i - n)]
  BY DEF Appended, ActOf, Rank
<1> HIDE DEF S, n, k
<1>5. ASSUME NEW c \in S PROVE /\ Rank(S, c) \in 1..k /\ n + Rank(S, c) \in n + 1 .. n + k
                               /\ Appended(d)[n + Rank(S, c)] = ActOf(d, c)
  <2>1. Rank(S, c) \in 1..k
    BY <1>1, RankRange DEF k
  <2>2. n + Rank(S, c) \in n + 1 .. n + k /\ n + Rank(S, c) \in 1 .. n + k /\ (n + Rank(S, c)) - n = Rank(S, c)
    BY <1>1, <1>2, <2>1
  <2>3. ~(n + Rank(S, c) <= n)
    BY <1>2, <2>1
  <2> QED BY <1>3, <1>4, <2>1, <2>2, <2>3
<1>6. ASSUME NEW i \in n + 1 .. n + k PROVE \E c \in S : i = n + Rank(S, c)
  <2>1. i - n \in 1..k
    BY <1>1, <1>2
  <2>2. PICK c \in S : Rank(S, c) = i - n
    BY <1>1, <2>1, RankOnto DEF k
  <2> QED BY <1>1, <1>2, <2>1, <2>2
<1>7. \A i \in 1..n : Appended(d)[i] = history[i]
  BY <1>1, <1>2, <1>4
<1>8. ASSUME NEW i \in 1 .. n + k PROVE Appended(d)[i] \in Acts
  <2>1. CASE i <= n
    BY <1>2, <1>7, <2>1 DEF n
  <2>2. CASE i > n
    <3>1. PICK c \in S : i = n + Rank(S, c)
      BY <1>1, <1>2, <1>6, <2>2
    <3>2. ActOf(d, c) \in Acts
      BY <1>1, MadeRange
    <3> QED BY <1>5, <3>1, <3>2
  <2> QED BY <1>1, <1>2, <2>1, <2>2
<1>9. Appended(d) \in Seq(Acts) /\ Len(Appended(d)) = n + k
  <2>1. n + k \in Nat
    BY <1>1, <1>2
  <2>2. DOMAIN Appended(d) = 1 .. n + k /\ Appended(d) = [i \in DOMAIN Appended(d) |-> Appended(d)[i]]
    BY <1>4
  <2>3. Appended(d) \in [1 .. n + k -> Acts]
    BY <1>8, <2>2
  <2> QED BY <2>1, <2>3
<1> QED BY <1>1, <1>2, <1>5, <1>6, <1>7, <1>9 DEF S, n, k, Place

\* All its fragments with those of the manifest tell the history it leaves.
LEMMA NewFragmentsTell ==
  ASSUME IInv, NEW d \in Devices, flush[d].pc = "publishing", flush[d].remote = manifest
  PROVE  /\ NewFragments(d) \subseteq Fragment
         /\ Tells(manifest.fragments \cup NewFragments(d), Appended(d))
<1>1. manifest.last = Len(history) /\ Tells(manifest.fragments, history) /\ history \in Seq(Acts)
  BY DEF IInv, Inv, HistoryInv, TypeOK
<1>2. NewFragments(d) = {[act |-> ActOf(d, c), seq |-> Place(d, c)] : c \in NewMarks(d)}
  BY <1>1 DEF NewFragments, Sequence, Place, Rank, ActOf
<1>3. NewFragments(d) \subseteq Fragment
  <2>1. \A c \in NewMarks(d) : ActOf(d, c) \in Acts
    BY MadeRange, NewMarksRange
  <2>2. \A c \in NewMarks(d) : Place(d, c) \in Nat
    BY AppendedMarks
  <2> QED BY <1>2, <2>1, <2>2 DEF Fragment
<1>4. DOMAIN Appended(d) = 1..Len(Appended(d)) /\ DOMAIN history = 1..Len(history)
  BY <1>1, AppendedMarks
<1>5. ASSUME NEW f \in manifest.fragments \cup NewFragments(d)
      PROVE  f.seq \in DOMAIN Appended(d) /\ Appended(d)[f.seq] = f.act
  <2>1. CASE f \in manifest.fragments
    BY <1>1, <1>4, <2>1, AppendedMarks DEF Tells
  <2>2. CASE f \in NewFragments(d)
    <3>1. PICK c \in NewMarks(d) : f = [act |-> ActOf(d, c), seq |-> Place(d, c)]
      BY <1>2, <2>2
    <3> QED BY <1>4, <3>1, AppendedMarks
  <2> QED BY <2>1, <2>2
<1>6. ASSUME NEW i \in DOMAIN Appended(d), Newest(Appended(d), i)
      PROVE  [act |-> Appended(d)[i], seq |-> i] \in manifest.fragments \cup NewFragments(d)
  <2>1. CASE i <= Len(history)
    <3>1. i \in DOMAIN history /\ Appended(d)[i] = history[i]
      BY <1>4, <2>1, AppendedMarks
    <3>2. Newest(history, i)
      <4> SUFFICES ASSUME NEW j \in DOMAIN history, SelectionOf[history[j]] = SelectionOf[history[i]]
                   PROVE  j <= i
        BY DEF Newest
      <4>1. j \in DOMAIN Appended(d) /\ Appended(d)[j] = history[j]
        BY <1>4, AppendedMarks
      <4> QED BY <1>6, <3>1, <4>1 DEF Newest
    <3> QED BY <1>1, <3>1, <3>2 DEF Tells
  <2>2. CASE ~(i <= Len(history))
    <3>1. PICK c \in NewMarks(d) : i = Place(d, c)
      BY <1>4, <2>2, AppendedMarks
    <3>2. [act |-> Appended(d)[i], seq |-> i] = [act |-> ActOf(d, c), seq |-> Place(d, c)]
      BY <3>1, AppendedMarks
    <3> QED BY <1>2, <3>2
  <2> QED BY <2>1, <2>2
<1> QED BY <1>3, <1>5, <1>6 DEF Tells

\* The receipt a publication leaves covers the batch after what it covered before.
LEMMA NextReceiptCovers ==
  ASSUME IInv, NEW d \in Devices, flush[d].pc = "publishing", flush[d].remote = manifest, ~Misaligned(d)
  PROVE  /\ NextReceipt(d) \in Receipt /\ NextReceipt(d).count = outbox[d].acked + flush[d].batch
         /\ NextReceipt(d).hash = Prefix(d, outbox[d].acked + flush[d].batch)
         /\ manifest.devices[d].count = outbox[d].acked
<1>1. manifest.devices[d].count = outbox[d].acked
  BY DEF Misaligned
<1>2. PICK count \in Nat : count = outbox[d].acked + flush[d].batch
  BY Fields DEF IInv
<1>3. manifest.devices[d].count + Cardinality(Selected(d)) = count
  BY <1>1, <1>2, NewMarksRange
<1>4. manifest.devices[d].hash = Prefix(d, manifest.devices[d].count)
  BY DEF IInv, Inv, QueueInv
<1>5. /\ NextReceipt(d).count = count
      /\ NextReceipt(d).hash = [c \in 1..count |-> IF c <= manifest.devices[d].count
                                                   THEN manifest.devices[d].hash[c] ELSE ActOf(d, c)]
      /\ NextReceipt(d) = [count |-> NextReceipt(d).count, hash |-> NextReceipt(d).hash]
  BY <1>3 DEF NextReceipt, ActOf
<1>6. NextReceipt(d).hash = Prefix(d, count)
  <2>1. \A c \in 1..count : c <= manifest.devices[d].count => manifest.devices[d].hash[c] = ActOf(d, c)
    BY <1>4, Fields DEF IInv, Prefix
  <2> QED BY <1>5, <2>1 DEF Prefix
<1>7. Prefix(d, count) \in Seq(Acts)
  <2>1. \A c \in 1..count : c \in Made(d)
    BY <1>2, Fields DEF IInv, Inv, FlushInv, Made
  <2>2. \A c \in 1..count : ActOf(d, c) \in Acts
    BY <2>1, MadeRange
  <2> QED BY <2>2 DEF Prefix
<1> QED BY <1>1, <1>2, <1>5, <1>6, <1>7 DEF Receipt

\* The manifest a publication leaves, and the phase its flush goes to.
LEMMA PublishedManifest ==
  ASSUME IInv, NEW d \in Devices, flush[d].pc = "publishing", flush[d].remote = manifest, ~Misaligned(d),
         NEW fragments \in {manifest.fragments \cup NewFragments(d),
                            Compacted(manifest.fragments \cup NewFragments(d))},
         manifest' = Published(d, fragments)
  PROVE  /\ manifest' \in Manifest /\ manifest'.rev = manifest.rev + 1
         /\ manifest'.version = manifest.version /\ manifest'.legacy = manifest.legacy
         /\ manifest'.last = Len(Appended(d))
         /\ Tells(manifest'.fragments, Appended(d))
         /\ manifest'.devices[d] = NextReceipt(d)
         /\ \A e \in Devices \ {d} : manifest'.devices[e] = manifest.devices[e]
<1>1. manifest \in Manifest /\ manifest.last = Len(history)
  BY DEF IInv, Inv, TypeOK, HistoryInv
<1>2. /\ manifest.rev + 1 \in Nat /\ manifest.last + Cardinality(NewMarks(d)) \in Nat
      /\ manifest.last + Cardinality(NewMarks(d)) = Len(Appended(d))
  BY <1>1, AppendedMarks, ManifestFields
<1>3. fragments \subseteq Fragment /\ Tells(fragments, Appended(d))
  <2> DEFINE all == manifest.fragments \cup NewFragments(d)
  <2>1. all \in SUBSET Fragment /\ Tells(all, Appended(d)) /\ Appended(d) \in Seq(Acts)
    BY <1>1, ManifestFields, NewFragmentsTell, AppendedMarks
  <2>2. Tells(Compacted(all), Appended(d)) /\ Compacted(all) \subseteq all
    BY <2>1, CompactedTells
  <2> QED BY <2>1, <2>2
<1>4. NextReceipt(d) \in Receipt
  BY NextReceiptCovers
<1>5. [manifest.devices EXCEPT ![d] = NextReceipt(d)] \in [Devices -> Receipt]
  BY <1>1, <1>4, ManifestFields
<1>6. manifest' = [manifest EXCEPT !.rev = manifest.rev + 1, !.last = Len(Appended(d)), !.fragments = fragments,
                     !.devices = [manifest.devices EXCEPT ![d] = NextReceipt(d)]]
  BY <1>1, <1>2 DEF Published, Manifest
<1>7. /\ manifest' \in Manifest /\ manifest'.rev = manifest.rev + 1 /\ manifest'.last = Len(Appended(d))
      /\ manifest'.version = manifest.version /\ manifest'.legacy = manifest.legacy
      /\ manifest'.fragments = fragments
      /\ manifest'.devices = [manifest.devices EXCEPT ![d] = NextReceipt(d)]
  <2>1. manifest.rev + 1 \in Nat /\ Len(Appended(d)) \in Nat /\ fragments \in SUBSET Fragment
    BY <1>2, <1>3
  <2> QED BY <1>1, <1>5, <1>6, <2>1 DEF Manifest
<1>8. manifest.devices \in [Devices -> Receipt]
  BY <1>1, ManifestFields
<1> QED BY <1>3, <1>7, <1>8

LEMMA PublicationStep ==
  ASSUME IInv, TypeOK', NEW d \in Devices, flush[d].pc = "publishing", flush[d].remote = manifest, ~Misaligned(d),
         NEW fragments \in {manifest.fragments \cup NewFragments(d),
                            Compacted(manifest.fragments \cup NewFragments(d))},
         manifest' = Published(d, fragments), history' = Appended(d), UNCHANGED <<appview, used>>,
         \A e \in Devices \ {d} : outbox'[e] = outbox[e] /\ entries'[e] = entries[e] /\ flush'[e] = flush[e],
         outbox'[d].acked = outbox[d].acked, outbox'[d].next = outbox[d].next,
         outbox'[d].prefix = outbox[d].prefix,
         \A c \in Counters : /\ entries'[d][c].act = entries[d][c].act
                             /\ entries'[d][c].attempted = entries[d][c].attempted,
         flush'[d].remote \in {flush[d].remote, FirstManifest}, flush'[d].pc \in {"swapped", "idle"},
         flush'[d].pc = "swapped" => flush'[d].batch = flush[d].batch /\ flush'[d].count = flush[d].batch
  PROVE  IInv'
<1> DEFINE Later(a) == \E i \in 1..Len(history') : history'[i] = a
<1>0. PICK count : count = outbox[d].acked + flush[d].batch
  OBVIOUS
<1>1. /\ manifest' \in Manifest /\ manifest'.rev = manifest.rev + 1
      /\ manifest'.version = manifest.version /\ manifest'.legacy = manifest.legacy
      /\ manifest'.last = Len(history') /\ Tells(manifest'.fragments, history')
      /\ manifest'.devices[d] = NextReceipt(d)
      /\ \A e \in Devices \ {d} : manifest'.devices[e] = manifest.devices[e]
  BY PublishedManifest
<1>2. /\ history' \in Seq(Acts) /\ Len(history) \in Nat /\ Len(history') \in Nat /\ Len(history) <= Len(history')
      /\ \A i \in 1..Len(history) : history'[i] = history[i]
      /\ \A c \in NewMarks(d) : Place(d, c) \in 1..Len(history') /\ history'[Place(d, c)] = ActOf(d, c)
      /\ \A i \in Len(history) + 1 .. Len(history') : \E c \in NewMarks(d) : i = Place(d, c)
  BY AppendedMarks
<1>3. /\ manifest.version = 2 /\ manifest.rev \in Nat /\ manifest.last = Len(history)
      /\ history \in Seq(Acts) /\ FlushInv(d) /\ QueueInv(d)
  BY ManifestFields DEF IInv, Inv, FlushInv, TypeOK, HistoryInv
<1>4. /\ NextReceipt(d).count = count /\ NextReceipt(d).hash = Prefix(d, count)
      /\ manifest.devices[d].count = outbox[d].acked
  BY <1>0, NextReceiptCovers
<1>5. /\ outbox[d].acked \in Nat /\ flush[d].batch \in Nat /\ outbox[d].next \in Nat /\ flush[d].batch > 0
      /\ count \in Nat /\ outbox[d].acked <= count /\ count < outbox[d].next
  BY <1>0, <1>3, Fields DEF IInv, FlushInv
<1>6. \A e \in Devices : /\ outbox'[e].acked = outbox[e].acked /\ outbox'[e].next = outbox[e].next
                         /\ outbox'[e].prefix = outbox[e].prefix
                         /\ \A c \in Counters : /\ entries'[e][c].act = entries[e][c].act
                                                /\ entries'[e][c].attempted = entries[e][c].attempted
  OBVIOUS
<1>7. /\ \A e \in Devices : Made(e)' = Made(e) /\ \A c \in Counters : ActOf(e, c)' = ActOf(e, c)
      /\ 1..count \subseteq Made(d) /\ \A e \in Devices : Made(e) \subseteq Counters
  BY <1>5, <1>6, MadeRange DEF Made, ActOf
<1>8. RevsNameManifests'
  <2>1. manifest'.rev > manifest.rev /\ \A e \in Devices : flush'[e].remote \in {flush[e].remote, FirstManifest}
    BY <1>1, <1>3
  <2> QED BY <2>1, RevsMove
<1>9. FirstStands' /\ HistoryInv'
  BY <1>1, <1>3 DEF FirstStands, HistoryInv
<1>10. ASSUME NEW e \in Devices PROVE QueueInv(e)'
  <2>1. CASE e = d
    <3>1. Prefix(d, count)' = Prefix(d, count)
      <4>1. \A c \in 1..count : c \in Counters
        BY <1>7
      <4> QED BY <1>7, <4>1 DEF Prefix
    <3>4. outbox'[d].prefix = Prefix(d, outbox[d].acked)'
      <4>1. \A c \in 1..outbox[d].acked : c \in Counters
        BY <1>5, <1>7
      <4> QED BY <1>3, <1>6, <4>1 DEF QueueInv, Prefix, ActOf
    <3>2. \A c \in Made(d)' : ActOf(d, c)' \in Acts
      BY <1>7, MadeRange
    <3>3. \A c \in outbox[d].acked + 1 .. count : entries'[d][c].attempted
      BY <1>0, <1>3, <1>5, <1>6, <1>7 DEF FlushInv, Selected
    <3> QED BY <1>1, <1>3, <1>4, <1>5, <1>6, <2>1, <3>1, <3>2, <3>3, <3>4 DEF QueueInv
  <2>2. CASE e # d
    <3>1. /\ manifest'.devices[e] = manifest.devices[e] /\ outbox'[e] = outbox[e] /\ entries'[e] = entries[e]
          /\ Made(e)' = Made(e)
      BY <1>1, <1>7, <2>2
    <3> QED BY <3>1 DEF IInv, Inv, QueueInv, Prefix, ActOf
  <2> QED BY <2>1, <2>2
<1>11. ASSUME NEW e \in Devices PROVE FlushInv(e)'
  <2>1. CASE e = d
    <3>1. CASE flush'[d].pc = "idle"
      BY <2>1, <3>1 DEF FlushInv
    <3>2. CASE flush'[d].pc = "swapped"
      <4>1. Selected(d)' = Selected(d) /\ Selected(d) \subseteq Counters
        BY <1>6, <1>7, <3>2, NewMarksRange DEF Selected
      <4>2. \A c \in Selected(d)' : entries'[d][c].attempted
        BY <1>3, <1>6, <4>1 DEF FlushInv
      <4> QED BY <1>0, <1>1, <1>4, <1>5, <1>6, <2>1, <3>2, <4>2 DEF FlushInv
    <3> QED BY <3>1, <3>2
  <2>2. CASE e # d
    BY <1>1, <2>2 DEF IInv, Inv, FlushInv, Selected
  <2> QED BY <2>1, <2>2
<1>13. ShownInv'
  <2>1. appview.last \in Nat /\ appview.last <= manifest.last
    BY ManifestFields DEF IInv, Inv, ShownInv, TypeOK
  <2>2. \A i \in 1..appview.last : history'[i] = history[i]
    BY <1>2, <1>3, <2>1
  <2>3. ASSUME NEW e \in Devices, NEW c \in 1..outbox'[e].acked PROVE InLog(ActOf(e, c), appview.last)'
    <3>1. c \in Counters /\ InLog(ActOf(e, c), appview.last)
      BY <1>6, <1>7, MadeRange DEF IInv, Inv, ShownInv
    <3> QED BY <1>6, <2>2, <3>1 DEF InLog, ActOf
  <2>4. ASSUME NEW e \in Devices, flush'[e].pc = "confirmed", NEW c \in 1..outbox'[e].acked + flush'[e].count
        PROVE  InLog(ActOf(e, c), appview.last)'
    <3>1. e # d /\ flush'[e] = flush[e] /\ entries'[e] = entries[e]
      BY <2>4
    <3>2. InLog(ActOf(e, c), appview.last)
      BY <1>6, <2>4, <3>1 DEF IInv, Inv, ShownInv
    <3> QED BY <2>2, <3>1, <3>2 DEF InLog, ActOf
  <2>5. appview'.last <= manifest'.last
    BY <1>1, <1>2, <1>3, <2>1
  <2>6. \A i \in 1..appview'.last : \E f \in appview'.fragments :
          SelectionOf[f.act] = SelectionOf[history'[i]] /\ i <= f.seq
    BY <2>2 DEF IInv, Inv, ShownInv
  <2> QED BY <2>3, <2>4, <2>5, <2>6 DEF ShownInv
<1>14. ASSUME NEW a, InLog(a, Len(history)) PROVE Later(a)
  BY <1>2, <1>14 DEF InLog
<1>15. ASSUME NEW a, Later(a), ~InLog(a, Len(history))
       PROVE  \E c \in NewMarks(d) : a = ActOf(d, c)
  <2>1. PICK i \in 1..Len(history') : history'[i] = a
    BY <1>15
  <2>2. ~(i <= Len(history))
    BY <1>2, <1>15, <2>1 DEF InLog
  <2>3. PICK c \in NewMarks(d) : i = Place(d, c)
    BY <1>2, <2>1, <2>2
  <2> QED BY <1>2, <2>1, <2>3
<1>16. LoggedInv'
  <2>1. \A a \in manifest'.legacy : InLog(a, Len(history))'
    BY <1>1, <1>14 DEF IInv, Inv, LoggedInv, InLog
  <2>2. ASSUME NEW i \in DOMAIN history' PROVE history'[i] \in used'
    <3>1. DOMAIN history' = 1..Len(history') /\ DOMAIN history = 1..Len(history)
      BY <1>2, <1>3
    <3>2. CASE i <= Len(history)
      BY <1>2, <2>2, <3>1, <3>2 DEF IInv, Inv, LoggedInv
    <3>3. CASE ~(i <= Len(history))
      <4>1. PICK c \in NewMarks(d) : i = Place(d, c)
        BY <1>2, <2>2, <3>1, <3>3
      <4>2. history'[i] = ActOf(d, c) /\ c \in Made(d)
        BY <1>2, <4>1, NewMarksRange
      <4> QED BY <4>2 DEF IInv, Inv, LoggedInv
    <3> QED BY <3>2, <3>3
  <2> SUFFICES ASSUME NEW e \in Devices, NEW c \in Made(e)
               PROVE  /\ ActOf(e, c) \in used
                      /\ \A f \in Devices : \A b \in Made(f) : ActOf(e, c) = ActOf(f, b) => e = f /\ c = b
                      /\ c <= manifest'.devices[e].count => Later(ActOf(e, c))
                      /\ /\ manifest'.version = 2 /\ c > manifest'.devices[e].count
                         /\ Later(ActOf(e, c))
                         => ActOf(e, c) \in manifest'.legacy
    BY <1>7, <2>1, <2>2 DEF LoggedInv, InLog
  <2>3. /\ ActOf(e, c) \in used
        /\ \A f \in Devices : \A b \in Made(f) : ActOf(e, c) = ActOf(f, b) => e = f /\ c = b
    BY DEF IInv, Inv, LoggedInv
  <2>4. ASSUME c <= manifest'.devices[e].count PROVE Later(ActOf(e, c))
    <3>1. CASE c <= manifest.devices[e].count
      BY <1>14, <3>1 DEF IInv, Inv, LoggedInv
    <3>2. CASE e = d /\ ~(c <= manifest.devices[d].count)
      <4>1. c \in Selected(d)
        BY <1>0, <1>1, <1>4, <1>5, <2>4, <3>2 DEF Selected, Made
      <4>2. CASE c \in NewMarks(d)
        BY <1>2, <3>2, <4>2
      <4>3. CASE c \notin NewMarks(d)
        <5>1. ActOf(d, c) \in manifest.legacy
          BY <4>1, <4>3 DEF NewMarks, ActOf
        <5> QED BY <1>14, <3>2, <5>1 DEF IInv, Inv, LoggedInv
      <4> QED BY <4>2, <4>3
    <3> QED BY <1>1, <2>4, <3>1, <3>2
  <2>5. ASSUME c > manifest'.devices[e].count, Later(ActOf(e, c))
        PROVE  ActOf(e, c) \in manifest.legacy
    <3>1. c > manifest.devices[e].count
      BY <1>1, <1>4, <1>5, <2>5, MadeRange DEF Made
    <3>2. CASE InLog(ActOf(e, c), Len(history))
      BY <1>3, <3>1, <3>2 DEF IInv, Inv, LoggedInv
    <3>3. CASE ~InLog(ActOf(e, c), Len(history))
      <4>1. PICK b \in NewMarks(d) : ActOf(e, c) = ActOf(d, b)
        BY <1>15, <2>5, <3>3
      <4>2. e = d /\ c = b /\ c \in Selected(d)
        BY <2>3, <4>1, NewMarksRange
      <4> QED BY <1>0, <1>1, <1>4, <1>5, <2>5, <4>2 DEF Selected
    <3> QED BY <3>2, <3>3
  <2> QED BY <1>1, <2>3, <2>4, <2>5
<1> QED BY <1>8, <1>9, <1>10, <1>11, <1>13, <1>16 DEF IInv, Inv

LEMMA SwapStep == ASSUME IInv, NEW d \in Devices, Swap(d) PROVE IInv'
<1>1. flush[d].pc = "publishing" /\ UNCHANGED <<appview, used, bumps>>
  BY DEF Swap
<1>2. CASE Ends(d) /\ UNCHANGED <<entries, manifest, history, faults>>
  <2>1. flush[d].pc # "idle" /\ faults' \in 0..MaxFaults
    BY <1>1, <1>2 DEF IInv, TypeOK
  <2> QED BY <1>1, <1>2, <2>1, EndStep
<1>3. CASE /\ ~Misaligned(d) /\ Current(flush[d].remote.rev)
           /\ LET all == flush[d].remote.fragments \cup NewFragments(d) IN
              \E fragments \in {all, Compacted(all)} : manifest' = Published(d, fragments)
           /\ history' = Appended(d)
           /\ \/ /\ MarkCommitted(d)
                 /\ flush' = [flush EXCEPT ![d].pc = "swapped", ![d].count = Cardinality(Selected(d)),
                                           ![d].ref = flush[d].remote.rev + 1]
                 /\ UNCHANGED <<outbox, faults>>
              \/ /\ faults < MaxFaults /\ faults' = faults + 1
                 /\ RetryLater(d)
                 /\ UNCHANGED entries
  <2>1. flush[d].remote = manifest /\ manifest \in Manifest /\ manifest.rev + 1 \in Nat
    BY <1>3, ManifestFields DEF Current, IInv, Inv, RevsNameManifests, RevKnown, TypeOK
  <2>2. PICK fragments \in {manifest.fragments \cup NewFragments(d),
                            Compacted(manifest.fragments \cup NewFragments(d))} :
               manifest' = Published(d, fragments)
    BY <1>3, <2>1
  <2>3. manifest' \in Manifest /\ history' \in Seq(Acts)
    BY <1>1, <1>3, <2>1, <2>2, PublishedManifest, AppendedMarks
  <2>4. Cardinality(Selected(d)) = flush[d].batch /\ flush[d].batch \in Nat
    BY <1>1, NewMarksRange, Fields DEF IInv
  <2>5. CASE /\ MarkCommitted(d)
             /\ flush' = [flush EXCEPT ![d].pc = "swapped", ![d].count = Cardinality(Selected(d)),
                                       ![d].ref = flush[d].remote.rev + 1]
             /\ UNCHANGED <<outbox, faults>>
    <3>1. \A c \in Counters : entries'[d][c] = IF c \in Selected(d) THEN [entries[d][c] EXCEPT !.committed = TRUE]
                                               ELSE entries[d][c]
      BY <2>5 DEF MarkCommitted, IInv, TypeOK
    <3>2. \A c \in Counters : /\ entries'[d][c] \in Entry /\ entries'[d][c].act = entries[d][c].act
                              /\ entries'[d][c].attempted = entries[d][c].attempted
      <4> SUFFICES ASSUME NEW c \in Counters
                   PROVE  /\ entries'[d][c] \in Entry /\ entries'[d][c].act = entries[d][c].act
                          /\ entries'[d][c].attempted = entries[d][c].attempted
        OBVIOUS
      <4>1. entries[d][c] \in Entry
        BY Fields DEF IInv
      <4>2. CASE entries'[d][c] = [entries[d][c] EXCEPT !.committed = TRUE]
        BY <4>1, <4>2 DEF Entry
      <4>3. CASE entries'[d][c] = entries[d][c]
        BY <4>1, <4>3
      <4> QED BY <3>1, <4>2, <4>3
    <3>3. entries' \in [Devices -> [Counters -> Entry]] /\ \A e \in Devices \ {d} : entries'[e] = entries[e]
      <4>1. entries'[d] \in [Counters -> Entry]
        BY <2>5, <3>2 DEF MarkCommitted, IInv, TypeOK
      <4> QED BY <2>5, <4>1 DEF MarkCommitted, IInv, TypeOK
    <3>4. flush'[d] = [flush[d] EXCEPT !.pc = "swapped", !.count = flush[d].batch, !.ref = manifest.rev + 1]
      BY <2>1, <2>4, <2>5 DEF IInv, TypeOK
    <3>5. /\ flush'[d] \in Flush /\ flush'[d].pc = "swapped" /\ flush'[d].count = flush[d].batch
          /\ flush'[d].batch = flush[d].batch /\ flush'[d].remote = flush[d].remote
      <4>1. "swapped" \in Phases
        BY DEF Phases
      <4> QED BY <2>1, <2>4, <3>4, <4>1, Fields DEF IInv, Flush
    <3>6. flush' \in [Devices -> Flush] /\ \A e \in Devices \ {d} : flush'[e] = flush[e]
      BY <2>5, <3>5 DEF IInv, TypeOK
    <3>7. TypeOK'
      BY <1>1, <2>3, <2>5, <3>3, <3>6 DEF IInv, TypeOK
    <3>8. /\ \A e \in Devices \ {d} : outbox'[e] = outbox[e] /\ entries'[e] = entries[e] /\ flush'[e] = flush[e]
          /\ outbox'[d].acked = outbox[d].acked /\ outbox'[d].next = outbox[d].next
          /\ outbox'[d].prefix = outbox[d].prefix
      BY <2>5, <3>3, <3>6
    <3>9. UNCHANGED <<appview, used>> /\ history' = Appended(d) /\ ~Misaligned(d)
      BY <1>1, <1>3
    <3> QED BY <1>1, <2>1, <2>2, <3>2, <3>5, <3>7, <3>8, <3>9, PublicationStep
  <2>6. CASE faults < MaxFaults /\ faults' = faults + 1 /\ RetryLater(d) /\ UNCHANGED entries
    <3>1. outbox'[d] = [outbox[d] EXCEPT !.waiting = TRUE]
      BY <2>6 DEF RetryLater, IInv, TypeOK
    <3>2. /\ outbox'[d] \in Box /\ outbox'[d].acked = outbox[d].acked
          /\ outbox'[d].next = outbox[d].next /\ outbox'[d].prefix = outbox[d].prefix
      BY <3>1, Fields DEF IInv, Box
    <3>3. outbox' \in [Devices -> Box] /\ \A e \in Devices \ {d} : outbox'[e] = outbox[e]
      BY <2>6, <3>2 DEF RetryLater, IInv, TypeOK
    <3>4. flush' \in [Devices -> Flush] /\ flush'[d] = NoFlush /\ \A e \in Devices \ {d} : flush'[e] = flush[e]
      BY <2>6, NoFlushType DEF RetryLater, Unlock, IInv, TypeOK
    <3>5. faults' \in 0..MaxFaults
      BY <2>6, BoundAssumption DEF IInv, TypeOK
    <3>6. TypeOK'
      BY <1>1, <2>3, <2>6, <3>3, <3>4, <3>5 DEF IInv, TypeOK
    <3> QED BY <1>1, <1>3, <2>1, <2>2, <2>6, <3>2, <3>3, <3>4, <3>6, NoFlushType, PublicationStep
  <2> QED BY <1>3, <2>5, <2>6
<1> QED BY <1>2, <1>3 DEF Swap, Ends
-----------------------------------------------------------------------------
(* Every reachable state. *)

LEMMA IInvInit == Init => IInv
<1> SUFFICES ASSUME Init PROVE IInv
  OBVIOUS
<1>1. /\ outbox = [d \in Devices |-> [acked |-> 0, prefix |-> <<>>, waiting |-> FALSE, error |-> "none",
                                      next |-> IF Legacy[d] = NoAct THEN 1 ELSE 2]]
      /\ entries = [d \in Devices |-> FirstEntries(d)]
      /\ manifest = FirstManifest /\ appview = FirstManifest
      /\ flush = [d \in Devices |-> NoFlush]
      /\ history = SequenceOf(Old)
      /\ used = (Old \cup {Legacy[d] : d \in Devices}) \ {NoAct}
      /\ faults = 0 /\ bumps = 0
  BY DEF Init
<1>2. \A d \in Devices : /\ outbox[d].acked = 0 /\ outbox[d].prefix = <<>> /\ outbox[d] \in Box
                         /\ outbox[d].next = IF Legacy[d] = NoAct THEN 1 ELSE 2
  BY <1>1 DEF Box, Errors
<1>3. \A d \in Devices : FirstEntries(d) \in [Counters -> Entry]
  <2>1. ASSUME NEW d \in Devices PROVE [Free EXCEPT !.act = Legacy[d], !.attempted = TRUE] \in Entry
    BY ActAssumption DEF Free, Entry
  <2> QED BY <2>1, FreeType DEF FirstEntries
<1>4. TypeOK
  <2>1. used \subseteq Acts
    BY <1>1, ActAssumption
  <2>2. outbox \in [Devices -> Box]
    BY <1>1, <1>2
  <2> QED BY <1>1, <1>3, <2>1, <2>2, NoFlushType, FirstManifestType, OldListed, BoundAssumption DEF TypeOK
<1>5. ASSUME NEW d \in Devices, NEW c \in Made(d)
      PROVE  c = 1 /\ Legacy[d] \in Acts /\ ActOf(d, c) = Legacy[d]
  <2>1. c = 1 /\ Legacy[d] # NoAct
    BY <1>2 DEF Made
  <2>2. 1 \in Counters
    BY BoundAssumption DEF Counters
  <2>3. [Free EXCEPT !.act = Legacy[d], !.attempted = TRUE].act = Legacy[d]
    BY DEF Free
  <2> QED BY <1>1, <2>1, <2>2, <2>3, ActAssumption DEF ActOf, FirstEntries
<1>6. \A d \in Devices : manifest.devices[d].count = 0 /\ manifest.devices[d].hash = <<>>
  BY <1>1, FirstManifestType DEF NoReceipt
<1>7. RevsNameManifests /\ FirstStands
  BY <1>1, FirstManifestType, NoFlushType, ManifestFields DEF RevsNameManifests, RevKnown, FirstStands
<1>8. ASSUME NEW d \in Devices PROVE QueueInv(d)
  <2>1. Prefix(d, 0) = <<>>
    BY DEF Prefix
  <2>2. \A c \in Made(d) : ActOf(d, c) \in Acts
    BY <1>5
  <2> QED BY <1>2, <1>6, <2>1, <2>2, BoundAssumption DEF QueueInv
<1>9. ASSUME NEW d \in Devices PROVE FlushInv(d)
  BY <1>1, NoFlushType DEF FlushInv
<1>10. HistoryInv
  <2>1. /\ manifest.last = Len(history) /\ Len(history) \in Nat
        /\ DOMAIN history = 1..Len(history) /\ Len(history) = Cardinality(Old)
        /\ manifest.fragments = {[act |-> history[i], seq |-> i] : i \in 1..Len(history)}
    BY <1>1, FirstManifestType, OldListed
  <2> QED BY <2>1 DEF HistoryInv, Tells
<1>11. ShownInv
  <2>1. /\ appview.last = Cardinality(Old) /\ Cardinality(Old) \in Nat /\ appview = manifest
        /\ appview.fragments = {[act |-> history[i], seq |-> i] : i \in 1..Cardinality(Old)}
    BY <1>1, FirstManifestType, OldListed
  <2>2. ASSUME NEW i \in 1..appview.last
        PROVE  \E f \in appview.fragments : SelectionOf[f.act] = SelectionOf[history[i]] /\ i <= f.seq
    <3>1. [act |-> history[i], seq |-> i] \in appview.fragments
      BY <2>1
    <3> QED BY <2>1, <3>1
  <2> QED BY <1>1, <1>2, <2>1, <2>2, NoFlushType DEF ShownInv
<1>12. LoggedInv
  <2>1. manifest.legacy = {} /\ manifest.version = 1
    BY <1>1, FirstManifestType
  <2>2. \A i \in DOMAIN history : history[i] \in used
    BY <1>1, OldListed, ActAssumption
  <2>3. ASSUME NEW d \in Devices, NEW c \in Made(d) PROVE ActOf(d, c) \in used
    <3>1. ActOf(d, c) = Legacy[d] /\ Legacy[d] # NoAct
      BY <1>5, <2>3, ActAssumption
    <3> QED BY <1>1, <3>1
  <2>4. ASSUME NEW d \in Devices, NEW c \in Made(d), NEW e \in Devices, NEW b \in Made(e), ActOf(d, c) = ActOf(e, b)
        PROVE  d = e /\ c = b
    <3>1. /\ c = 1 /\ ActOf(d, c) = Legacy[d] /\ Legacy[d] # NoAct
          /\ b = 1 /\ ActOf(e, b) = Legacy[e]
      BY <1>5, <2>4, ActAssumption
    <3> QED BY <2>4, <3>1, ActAssumption
  <2>5. ASSUME NEW d \in Devices, NEW c \in Made(d) PROVE ~(c <= manifest.devices[d].count)
    BY <1>5, <1>6, <2>5
  <2> QED BY <2>1, <2>2, <2>3, <2>4, <2>5 DEF LoggedInv
<1> QED BY <1>4, <1>7, <1>8, <1>9, <1>10, <1>11, <1>12 DEF IInv, Inv

LEMMA IInvStep == IInv /\ [Next]_vars => IInv'
<1> SUFFICES ASSUME IInv, [Next]_vars PROVE IInv'
  OBVIOUS
<1>1. CASE UNCHANGED vars
  BY <1>1 DEF vars, IInv, TypeOK, Inv, RevsNameManifests, RevKnown, FirstStands, QueueInv, FlushInv, Selected,
     HistoryInv, ShownInv, LoggedInv, InLog, Made, ActOf, Prefix
<1>2. ASSUME NEW d \in Devices, FlushStep(d) PROVE IInv'
  BY <1>2, LoadStep, ConfirmSteps, UpgradeStep, SwapStep, AcknowledgeStep DEF FlushStep
<1>3. ASSUME NEW d \in Devices, (\E a \in Acts : Enqueue(d, a)) \/ Wake(d) \/ FlushStart(d) \/ Fail(d) PROVE IInv'
  BY <1>3, EnqueueStep, WakeStep, FlushStartStep, FailStep
<1> QED BY <1>1, <1>2, <1>3, ReconcileStep, BumpStep DEF Next

LEMMA IInvAlways == Spec => []IInv
<1> QED BY IInvInit, IInvStep, PTL DEF Spec

\* Every variable keeps its type: no counter, revision or sequence leaves the naturals and every
\* hash chain is one of marks, whatever order the devices' steps come in.
THEOREM TypeCorrect == Spec => []TypeOK
<1> QED BY IInvAlways, PTL DEF IInv

\* What a device has on the PDS is a prefix of the marks its user made, in order, at least those
\* it took out of its queue: v2Repository.ts publishes and v2Outbox.ts acknowledges by count and hash.
THEOREM ReceiptsCorrect == Spec => []ReceiptsTruthful
<1>1. IInv => ReceiptsTruthful
  BY DEF IInv, Inv, QueueInv, ReceiptsTruthful, ReceiptTruthful, Prefix
<1> QED BY <1>1, IInvAlways, PTL

LEMMA MaxOfIs ==
  ASSUME NEW S \in SUBSET Nat, NEW m \in S, \A k \in S : k <= m
  PROVE  MaxOf(S) = m
<1>1. PICK n \in S : n = MaxOf(S) /\ \A k \in S : k <= n
  BY DEF MaxOf
<1> QED BY <1>1

\* Compaction and the upgrade from version 1 lose no answer: for every selection the manifest's
\* newest fragment is the last mark of the history about it.
THEOREM CompactionKeepsAnswers == Spec => []ManifestMeansHistory
<1>1. ASSUME IInv, NEW s \in Selections
      PROVE  /\ SeqsOf(manifest.fragments, s) = {} <=> PlacesOf(s) = {}
             /\ PlacesOf(s) # {} =>
                  /\ MaxOf(SeqsOf(manifest.fragments, s)) = MaxOf(PlacesOf(s))
                  /\ [act |-> history[MaxOf(PlacesOf(s))], seq |-> MaxOf(PlacesOf(s))] \in manifest.fragments
  <2>1. Tells(manifest.fragments, history) /\ history \in Seq(Acts)
    BY <1>1 DEF IInv, Inv, HistoryInv, TypeOK
  <2>2. SeqsOf(manifest.fragments, s) \subseteq PlacesOf(s)
    BY <2>1 DEF SeqsOf, PlacesOf, Tells
  <2>3. Len(history) \in Nat /\ PlacesOf(s) \in SUBSET (1..Len(history)) /\ PlacesOf(s) \in SUBSET Nat
    BY <2>1 DEF PlacesOf
  <2>4. CASE PlacesOf(s) # {}
    <3>1. PICK m \in PlacesOf(s) : \A k \in PlacesOf(s) : k <= m
      BY <2>3, <2>4, GreatestExists
    <3>2. m \in DOMAIN history /\ Newest(history, m) /\ SelectionOf[history[m]] = s
      BY <3>1 DEF Newest, PlacesOf
    <3>3. [act |-> history[m], seq |-> m] \in manifest.fragments
      BY <2>1, <3>2 DEF Tells
    <3>4. m \in SeqsOf(manifest.fragments, s)
      BY <3>2, <3>3 DEF SeqsOf
    <3>5. MaxOf(PlacesOf(s)) = m
      BY <2>3, <3>1, MaxOfIs
    <3>6. MaxOf(SeqsOf(manifest.fragments, s)) = m
      BY <2>2, <2>3, <3>1, <3>4, MaxOfIs
    <3> QED BY <2>4, <3>3, <3>4, <3>5, <3>6
  <2>5. CASE PlacesOf(s) = {}
    BY <2>2, <2>5
  <2> QED BY <2>4, <2>5
<1>2. IInv => ManifestMeansHistory
  BY <1>1 DEF ManifestMeansHistory
<1> QED BY <1>2, IInvAlways, PTL

\* A mark that left its queue is answered by the AppView: v2Outbox.ts removes it only after the
\* AppView confirmed a manifest that covers it, and no later projection takes the answer back.
THEOREM AcknowledgedShown == Spec => []AckedIsShown
<1>1. ASSUME IInv, NEW d \in Devices, NEW c \in 1..outbox[d].acked
      PROVE  \E f \in appview.fragments, i \in Places(ActOf(d, c)) :
               SelectionOf[f.act] = SelectionOf[ActOf(d, c)] /\ i <= f.seq
  <2>1. PICK i \in 1..appview.last : history[i] = ActOf(d, c)
    BY <1>1 DEF IInv, Inv, ShownInv, InLog
  <2>2. PICK f \in appview.fragments : SelectionOf[f.act] = SelectionOf[history[i]] /\ i <= f.seq
    BY <1>1 DEF IInv, Inv, ShownInv
  <2>3. appview.last \in Nat /\ appview.last <= Len(history) /\ history \in Seq(Acts)
    BY <1>1, ManifestFields DEF IInv, Inv, ShownInv, HistoryInv, TypeOK
  <2>4. i \in Places(ActOf(d, c))
    BY <2>1, <2>3 DEF Places
  <2> QED BY <2>1, <2>2, <2>4
<1>2. IInv => AckedIsShown
  BY <1>1 DEF AckedIsShown
<1> QED BY <1>2, IInvAlways, PTL
-----------------------------------------------------------------------------
(* The outbox implements the log. *)

Issued == [d \in Devices |-> [c \in Made(d) |-> ActOf(d, c)]]
Done   == [d \in Devices |-> manifest.devices[d].count]

LEMMA IssuedMarks ==
  ASSUME IInv
  PROVE  /\ Issued \in [Devices -> Seq(Acts)] /\ Done \in [Devices -> Nat]
         /\ \A d \in Devices : /\ Len(Issued[d]) = outbox[d].next - 1 /\ outbox[d].next - 1 \in Nat
                               /\ Made(d) = 1 .. outbox[d].next - 1
                               /\ \A c \in Made(d) : Issued[d][c] = ActOf(d, c)
                               /\ Done[d] = manifest.devices[d].count /\ Done[d] < outbox[d].next
<1>1. ASSUME NEW d \in Devices
      PROVE  /\ Made(d) = 1 .. outbox[d].next - 1 /\ outbox[d].next - 1 \in Nat
             /\ [c \in Made(d) |-> ActOf(d, c)] \in Seq(Acts)
             /\ Len([c \in Made(d) |-> ActOf(d, c)]) = outbox[d].next - 1
             /\ manifest.devices[d].count \in Nat /\ manifest.devices[d].count < outbox[d].next
  <2>1. /\ manifest.devices[d].count \in Nat /\ outbox[d].next \in Nat
        /\ manifest.devices[d].count < outbox[d].next
    BY Fields DEF IInv, Inv, QueueInv
  <2>2. PICK n \in Nat : n = outbox[d].next - 1
    BY <2>1
  <2>3. Made(d) = 1..n /\ \A c \in 1..n : ActOf(d, c) \in Acts
    BY <2>2, MadeRange DEF Made
  <2>4. [c \in 1..n |-> ActOf(d, c)] \in Seq(Acts) /\ Len([c \in 1..n |-> ActOf(d, c)]) = n
    BY <2>3
  <2> QED BY <2>1, <2>2, <2>3, <2>4
<1> QED BY <1>1 DEF Issued, Done

\* A step that neither makes nor publishes a mark shows at most more of the log.
LEMMA ShowsMore ==
  ASSUME IInv, UNCHANGED history, appview' = appview \/ Project,
         \A e \in Devices : /\ outbox'[e].next = outbox[e].next
                            /\ manifest'.devices[e].count = manifest.devices[e].count
                            /\ \A c \in Counters : entries'[e][c].act = entries[e][c].act
  PROVE  Promise!Next
<1>1. Issued' = Issued /\ Done' = Done
  <2>1. \A e \in Devices : Made(e)' = Made(e) /\ \A c \in Made(e) : ActOf(e, c)' = ActOf(e, c)
    BY MadeRange DEF Made, ActOf
  <2> QED BY <2>1 DEF Issued, Done
<1>2. /\ appview.last \in Nat /\ appview'.last \in Nat /\ appview.last <= appview'.last
      /\ appview'.last <= Len(history) /\ Len(history) \in Nat
  BY ProjectShows, ManifestFields DEF IInv, Inv, HistoryInv, TypeOK
<1>3. Promise!Show(appview'.last)
  BY <1>1, <1>2 DEF Promise!Show, Issued, Done
<1> QED BY <1>2, <1>3 DEF Promise!Next

LEMMA IssueStep == ASSUME IInv, NEW d \in Devices, NEW a \in Acts, Enqueue(d, a) PROVE Promise!Next
<1>0. PICK slot : slot = IF Replaces(d, a) THEN outbox[d].next - 1 ELSE outbox[d].next
  OBVIOUS
<1>1. /\ entries' = [entries EXCEPT ![d][slot] = [Free EXCEPT !.act = a]]
      /\ outbox' = [outbox EXCEPT ![d].next = slot + 1]
      /\ UNCHANGED <<manifest, appview, history>>
  BY <1>0 DEF Enqueue
<1>2. /\ slot \in Counters /\ slot \in {outbox[d].next - 1, outbox[d].next}
      /\ slot > manifest.devices[d].count
  BY <1>0, SlotFree
<1>3. /\ outbox[d].next - 1 \in Nat /\ Len(Issued[d]) = outbox[d].next - 1 /\ Issued[d] \in Seq(Acts)
      /\ Issued \in [Devices -> Seq(Acts)] /\ Done[d] = manifest.devices[d].count
  BY IssuedMarks
<1>4. /\ outbox'[d].next = slot + 1 /\ \A e \in Devices \ {d} : outbox'[e] = outbox[e]
  BY <1>1, Fields DEF IInv, TypeOK, Box
<1>5. /\ entries'[d][slot].act = a
      /\ \A e \in Devices : \A c \in Counters : e # d \/ c # slot => entries'[e][c] = entries[e][c]
  <2>1. [Free EXCEPT !.act = a].act = a
    BY DEF Free
  <2> QED BY <1>1, <1>2, <2>1, Fields DEF IInv, TypeOK
<1>6. /\ Issued' = [e \in Devices |-> IF e = d THEN Issued'[d] ELSE Issued[e]]
  <2>1. ASSUME NEW e \in Devices \ {d} PROVE Issued'[e] = Issued[e]
    <3>1. Made(e)' = Made(e) /\ \A c \in Made(e) : ActOf(e, c)' = ActOf(e, c)
      BY <1>4, <1>5, MadeRange DEF Made, ActOf
    <3> QED BY <3>1 DEF Issued
  <2> QED BY <2>1 DEF Issued
<1>7. /\ Issued'[d] = [c \in 1..slot |-> IF c = slot THEN a ELSE Issued[d][c]]
  <2>1. Made(d)' = 1..slot /\ slot \in Nat
    <3>1. slot \in Nat
      BY <1>2, BoundAssumption DEF Counters
    <3> QED BY <1>4, <3>1 DEF Made
  <2>2. ActOf(d, slot)' = a
    BY <1>5 DEF ActOf
  <2>3. ASSUME NEW c \in 1..slot, c # slot PROVE ActOf(d, c)' = Issued[d][c]
    <3>1. c \in Made(d)
      <4>1. PICK n \in Nat : n = outbox[d].next - 1
        BY <1>3
      <4>2. outbox[d].next \in Nat
        BY Fields DEF IInv
      <4>3. slot \in {n, n + 1} /\ c \in 1..n
        BY <1>2, <2>3, <4>1, <4>2
      <4> QED BY <4>1, <4>3 DEF Made
    <3>2. Issued[d][c] = ActOf(d, c)
      BY <3>1, IssuedMarks
    <3> QED BY <1>5, <2>3, <3>1, <3>2, MadeRange DEF ActOf
  <2>4. Issued'[d] = [c \in 1..slot |-> ActOf(d, c)']
    BY <2>1 DEF Issued
  <2> QED BY <2>2, <2>3, <2>4
<1>8. CASE slot = outbox[d].next
  <2>1. Issued'[d] = Append(Issued[d], a)
    <3>1. PICK s \in Seq(Acts) : s = Issued[d]
      BY <1>3
    <3>2. PICK n \in Nat : n = slot - 1 /\ n = Len(s) /\ slot = n + 1
      <4>1. outbox[d].next \in Nat
        BY Fields DEF IInv
      <4> QED BY <1>3, <1>8, <3>1, <4>1
    <3>3. Append(s, a) = [c \in 1..n + 1 |-> IF c = n + 1 THEN a ELSE s[c]]
      <4>1. Append(s, a) \in Seq(Acts) /\ Len(Append(s, a)) = n + 1
        BY <3>2
      <4>2. Append(s, a)[n + 1] = a /\ \A c \in 1..n : Append(s, a)[c] = s[c]
        BY <3>2, AppendProperties
      <4>3. \A c \in 1..n + 1 : c = n + 1 \/ c \in 1..n
        OBVIOUS
      <4>4. Append(s, a) \in [1..n + 1 -> Acts]
        BY <4>1, LenProperties
      <4> QED BY <4>2, <4>3, <4>4
    <3> QED BY <1>7, <3>1, <3>2, <3>3
  <2>2. Issued' = [Issued EXCEPT ![d] = Append(@, a)]
    BY <1>3, <1>6, <2>1
  <2>3. Promise!Issue(d, a)
    BY <1>1, <2>2 DEF Promise!Issue, Issued
  <2> QED BY <2>3 DEF Promise!Next
<1>9. CASE slot = outbox[d].next - 1
  <2>1. Done[d] < Len(Issued[d]) /\ slot = Len(Issued[d]) /\ DOMAIN Issued[d] = 1..slot
    BY <1>2, <1>3, <1>9
  <2>2. Issued'[d] = [Issued[d] EXCEPT ![Len(Issued[d])] = a]
    BY <1>3, <1>7, <2>1
  <2>3. Issued' = [Issued EXCEPT ![d][Len(Issued[d])] = a]
    BY <1>3, <1>6, <2>2
  <2>4. Promise!Issue(d, a)
    BY <1>1, <2>1, <2>3 DEF Promise!Issue, Issued, Done
  <2> QED BY <2>4 DEF Promise!Next
<1> QED BY <1>2, <1>8, <1>9

\* The log lists a set in the order of ranks.  (Promise has its own copy of FiniteSets.)
LEMMA ListsInOrder ==
  ASSUME NEW S
  PROVE  /\ Promise!Cardinality(S) = Cardinality(S)
         /\ Promise!InOrder(S) = [i \in 1..Cardinality(S) |-> CHOOSE c \in S : Rank(S, c) = i]
<1>1. Promise!Cardinality(S) = Cardinality(S)
  BY DEF Promise!Cardinality, Cardinality
<1>2. Promise!InOrder(S) = [i \in 1..Cardinality(S) |-> CHOOSE c \in S : Rank(S, c) = i]
  BY Zenon DEF Promise!InOrder, Rank, Promise!Cardinality, Cardinality
<1> QED BY <1>1, <1>2

\* A compare-and-swap that succeeds publishes the next marks of the batch.
LEMMA PublishStep ==
  ASSUME IInv, NEW d \in Devices, flush[d].pc = "publishing", flush[d].remote = manifest, ~Misaligned(d),
         NEW fragments \in {manifest.fragments \cup NewFragments(d),
                            Compacted(manifest.fragments \cup NewFragments(d))},
         manifest' = Published(d, fragments), history' = Appended(d), UNCHANGED appview,
         \A e \in Devices : /\ outbox'[e].next = outbox[e].next
                            /\ \A c \in Counters : entries'[e][c].act = entries[e][c].act
  PROVE  Promise!Next
<1>0. PICK n : n = flush[d].batch
  OBVIOUS
<1> DEFINE S == NewMarks(d)
           new == {c \in Done[d] + 1 .. Done[d] + n : ~Promise!Element(history, Issued[d][c])}
           added == [i \in 1..Promise!Cardinality(new) |-> Issued[d][Promise!InOrder(new)[i]]]
<1>1. Issued' = Issued
  <2>1. \A e \in Devices : Made(e)' = Made(e) /\ \A c \in Made(e) : ActOf(e, c)' = ActOf(e, c)
    BY MadeRange DEF Made, ActOf
  <2> QED BY <2>1 DEF Issued
<1>2. /\ manifest'.devices[d].count = outbox[d].acked + n /\ Done[d] = outbox[d].acked
      /\ \A e \in Devices \ {d} : manifest'.devices[e] = manifest.devices[e]
  BY <1>0, PublishedManifest, NextReceiptCovers DEF Done
<1>3. /\ Done' = [Done EXCEPT ![d] = @ + n]
  BY <1>2 DEF Done
<1>4. /\ n \in Nat \ {0} /\ outbox[d].acked \in Nat /\ outbox[d].next \in Nat
      /\ outbox[d].acked + n < outbox[d].next
  BY <1>0, Fields DEF IInv, Inv, FlushInv
<1>5. n \in 1..Len(Issued[d]) /\ Done[d] + n <= Len(Issued[d])
  BY <1>2, <1>4, IssuedMarks
<1>6. Selected(d) = Done[d] + 1 .. Done[d] + n /\ Selected(d) \subseteq Made(d)
  BY <1>0, <1>2, NewMarksRange DEF Selected
<1>7. ASSUME NEW c \in Selected(d) PROVE c \in S <=> ~Promise!Element(history, Issued[d][c])
  <2>1. Issued[d][c] = ActOf(d, c) /\ c \in Made(d)
    BY <1>6, IssuedMarks
  <2>2. history \in Seq(Acts) /\ manifest.version = 2
    BY DEF IInv, Inv, FlushInv, TypeOK
  <2>3. Promise!Element(history, ActOf(d, c)) <=> InLog(ActOf(d, c), Len(history))
    BY <2>2 DEF Promise!Element, InLog
  <2>4. c > manifest.devices[d].count
    BY <1>2, <1>4, <1>6, IssuedMarks
  <2>5. InLog(ActOf(d, c), Len(history)) <=> ActOf(d, c) \in manifest.legacy
    BY <2>1, <2>2, <2>4 DEF IInv, Inv, LoggedInv
  <2> QED BY <2>1, <2>3, <2>5 DEF NewMarks, ActOf
<1>8. new = S
  <2>1. S \subseteq Selected(d)
    BY NewMarksRange
  <2> QED BY <1>6, <1>7, <2>1
<1>9. S \in SUBSET Nat /\ IsFiniteSet(S) /\ Cardinality(S) \in Nat /\ S \subseteq Made(d)
  BY NewMarksRange
<1>10. history' = history \o added
  <2> DEFINE k == Cardinality(S)
  <2>1. /\ Appended(d) \in Seq(Acts) /\ Len(Appended(d)) = Len(history) + k /\ Len(history) \in Nat
        /\ \A i \in 1..Len(history) : Appended(d)[i] = history[i]
        /\ history \in Seq(Acts)
    BY AppendedMarks DEF IInv, TypeOK
  <2>2. Promise!InOrder(S) = [i \in 1..k |-> CHOOSE c \in S : Rank(S, c) = i]
    BY ListsInOrder
  <2>3. Appended(d) = [i \in 1 .. Len(history) + k |-> IF i <= Len(history) THEN history[i]
                         ELSE ActOf(d, CHOOSE c \in S : Rank(S, c) = i - Len(history))]
    BY DEF Appended, ActOf, Rank
  <2> HIDE DEF S
  <2>7. ASSUME NEW i \in 1..k PROVE added[i] = Appended(d)[Len(history) + i] /\ added[i] \in Acts
    <3>1. \E c \in S : Rank(S, c) = i
      BY <1>9, RankOnto
    <3>2. PICK c \in S : c = Promise!InOrder(S)[i] /\ c = CHOOSE b \in S : Rank(S, b) = i
      BY <2>2, <3>1
    <3>3. added[i] = ActOf(d, c)
      <4>1. i \in 1..Promise!Cardinality(new) /\ Promise!InOrder(new)[i] = c
        BY <1>8, <3>2, ListsInOrder
      <4>2. added[i] = Issued[d][c]
        BY <4>1
      <4> QED BY <1>9, <4>2, IssuedMarks
    <3>4. (Len(history) + i) - Len(history) = i /\ ~(Len(history) + i <= Len(history))
          /\ Len(history) + i \in 1 .. Len(history) + k
      BY <1>9, <2>1
    <3>5. Appended(d)[Len(history) + i] = ActOf(d, c)
      BY <2>3, <3>2, <3>4
    <3> QED BY <1>9, <3>2, <3>3, <3>5, MadeRange
  <2>4. added \in Seq(Acts) /\ Len(added) = k
    <3>1. added = [i \in 1..k |-> added[i]] /\ k \in Nat
      BY <1>8, <1>9, ListsInOrder
    <3> HIDE DEF added
    <3> QED BY <2>7, <3>1
  <2> HIDE DEF added, k
  <2>5. /\ history \o added \in Seq(Acts) /\ Len(history \o added) = Len(history) + k
        /\ \A i \in 1 .. Len(history) + k : (history \o added)[i] =
              IF i <= Len(history) THEN history[i] ELSE added[i - Len(history)]
    BY <2>1, <2>4, ConcatProperties
  <2>6. ASSUME NEW i \in 1..Len(Appended(d)) PROVE Appended(d)[i] = (history \o added)[i]
    <3>1. CASE i <= Len(history)
      BY <2>1, <2>5, <3>1
    <3>2. CASE ~(i <= Len(history))
      <4>1. i - Len(history) \in 1..k /\ Len(history) + (i - Len(history)) = i
        BY <1>9, <2>1, <3>2 DEF k
      <4> QED BY <2>1, <2>5, <2>7, <3>2, <4>1
    <3> QED BY <3>1, <3>2
  <2> QED BY <2>1, <2>5, <2>6, SeqEqual
<1>11. Promise!Publish(d, n)
  <2>1. UNCHANGED Issued /\ UNCHANGED appview.last
    BY <1>1
  <2> QED BY <1>3, <1>5, <1>10, <2>1 DEF Promise!Publish, Issued, Done
<1> HIDE DEF S, new, added
<1>12. \E e \in Devices : \E m \in 1..Len(Issued[e]) : Promise!Publish(e, m)
  BY <1>5, <1>11
<1> QED BY <1>12 DEF Promise!Next, Issued

LEMMA PromiseInit == Init => Promise!Init
<1> SUFFICES ASSUME Init, IInv PROVE Promise!Init
  BY IInvInit
<1>1. Issued \in [Devices -> Seq(Acts)] /\ history \in Seq(Acts)
  BY IssuedMarks DEF IInv, TypeOK
<1>2. Done = [d \in Devices |-> 0]
  BY FirstManifestType DEF Init, Done, NoReceipt
<1>3. appview.last = Len(history)
  BY DEF Init, IInv, Inv, HistoryInv
<1> QED BY <1>1, <1>2, <1>3 DEF Promise!Init, Issued, Done

\* The end of a flush and the other steps on an outbox leave the marks made.
LEMMA EndsKeep ==
  ASSUME IInv, NEW d \in Devices, Ends(d) \/ Wake(d) \/ Acknowledge(d)
  PROVE  \A e \in Devices : outbox'[e].next = outbox[e].next
<1>1. outbox \in [Devices -> Box] /\ outbox[d] \in Box
  BY DEF IInv, TypeOK
<1>2. CASE UNCHANGED outbox
  BY <1>2
<1>3. CASE outbox' = [outbox EXCEPT ![d].waiting = TRUE]
  BY <1>1, <1>3 DEF Box
<1>4. CASE outbox' = [outbox EXCEPT ![d].waiting = TRUE, ![d].error = "conflicting_sequence"]
  BY <1>1, <1>4 DEF Box
<1>5. CASE Wake(d)
  BY <1>1, <1>5 DEF Wake, Box
<1>6. CASE Acknowledge(d)
  BY <1>1, <1>6 DEF Acknowledge, Box
<1> QED BY <1>2, <1>3, <1>4, <1>5, <1>6 DEF Ends, RetryLater, Reject, Conflicted

\* The steps of a flush but a successful compare-and-swap leave the queue's marks and the receipts.
LEMMA QuietStep ==
  ASSUME IInv, NEW d \in Devices,
         \/ Wake(d) \/ FlushStart(d) \/ Load(d) \/ ConfirmBaseline(d) \/ Upgrade(d) \/ ConfirmUpgrade(d)
         \/ ConfirmSwap(d) \/ ConfirmLoaded(d) \/ Acknowledge(d) \/ Fail(d)
         \/ Ends(d) /\ UNCHANGED <<entries, manifest, appview, history>>
  PROVE  Promise!Next
<1>1. UNCHANGED history /\ (appview' = appview \/ Project)
  BY DEF Wake, FlushStart, Load, ConfirmBaseline, Upgrade, ConfirmUpgrade, ConfirmSwap, ConfirmLoaded,
     Acknowledge, Fail
<1>2. \A e \in Devices : outbox'[e].next = outbox[e].next
  <2>1. CASE Ends(d) \/ Wake(d) \/ Acknowledge(d)
    BY <2>1, EndsKeep
  <2>2. CASE UNCHANGED outbox
    BY <2>2
  <2> QED BY <2>1, <2>2 DEF FlushStart, Load, ConfirmBaseline, Upgrade, ConfirmUpgrade, ConfirmSwap,
             ConfirmLoaded, Fail, Ends
<1>3. \A e \in Devices : manifest'.devices[e].count = manifest.devices[e].count
  <2>1. CASE UNCHANGED manifest
    BY <2>1
  <2>2. CASE Upgrade(d) /\ Current(flush[d].remote.rev)
    <3>1. flush[d].remote = manifest /\ manifest \in Manifest
      BY <2>2 DEF Current, IInv, Inv, RevsNameManifests, RevKnown, TypeOK
    <3>2. manifest'.devices = manifest.devices
      BY <2>2, <3>1 DEF Upgrade, Manifest
    <3> QED BY <3>2
  <2> QED BY <2>1, <2>2 DEF Wake, FlushStart, Load, ConfirmBaseline, Upgrade, ConfirmUpgrade, ConfirmSwap,
             ConfirmLoaded, Acknowledge, Fail
<1>4. \A e \in Devices : \A c \in Counters : entries'[e][c].act = entries[e][c].act
  <2>1. CASE UNCHANGED entries
    BY <2>1
  <2>2. CASE FlushStart(d)
    BY <2>2, Fields DEF FlushStart, IInv, TypeOK, Entry
  <2> QED BY <2>1, <2>2 DEF Wake, Load, ConfirmBaseline, Upgrade, ConfirmUpgrade, ConfirmSwap,
             ConfirmLoaded, Acknowledge, Fail
<1> QED BY <1>1, <1>2, <1>3, <1>4, ShowsMore

LEMMA SwapPublishes == ASSUME IInv, NEW d \in Devices, Swap(d) PROVE Promise!Next
<1>1. CASE Ends(d) /\ UNCHANGED <<entries, manifest, history>>
  BY <1>1, QuietStep DEF Swap
<1>2. CASE /\ ~Misaligned(d) /\ Current(flush[d].remote.rev)
           /\ LET all == flush[d].remote.fragments \cup NewFragments(d) IN
              \E fragments \in {all, Compacted(all)} : manifest' = Published(d, fragments)
           /\ history' = Appended(d)
           /\ \/ MarkCommitted(d) /\ outbox' = outbox
              \/ RetryLater(d) /\ entries' = entries
  <2>1. flush[d].remote = manifest /\ flush[d].pc = "publishing" /\ UNCHANGED appview
    BY <1>2 DEF Swap, Current, IInv, Inv, RevsNameManifests, RevKnown
  <2>2. PICK fragments \in {manifest.fragments \cup NewFragments(d),
                            Compacted(manifest.fragments \cup NewFragments(d))} :
               manifest' = Published(d, fragments)
    BY <1>2, <2>1
  <2>3. \A e \in Devices : outbox'[e].next = outbox[e].next
    BY <1>2, EndsKeep DEF Ends
  <2>4. \A e \in Devices : \A c \in Counters : entries'[e][c].act = entries[e][c].act
    <3>1. entries \in [Devices -> [Counters -> Entry]]
      BY DEF IInv, TypeOK
    <3>2. CASE entries' = entries
      BY <3>2
    <3>3. CASE MarkCommitted(d)
      BY <3>1, <3>3 DEF MarkCommitted, Entry
    <3> QED BY <1>2, <3>2, <3>3
  <2> QED BY <1>2, <2>1, <2>2, <2>3, <2>4, PublishStep
<1>3. \/ Ends(d) /\ UNCHANGED <<entries, manifest, history>>
      \/ /\ ~Misaligned(d) /\ Current(flush[d].remote.rev)
         /\ LET all == flush[d].remote.fragments \cup NewFragments(d) IN
            \E fragments \in {all, Compacted(all)} : manifest' = Published(d, fragments)
         /\ history' = Appended(d)
         /\ \/ MarkCommitted(d) /\ outbox' = outbox
            \/ RetryLater(d) /\ entries' = entries
  BY DEF Swap, Ends
<1> QED BY <1>1, <1>2, <1>3

LEMMA PromiseStep == IInv /\ [Next]_vars => [Promise!Next]_(Promise!vars)
<1> SUFFICES ASSUME IInv, [Next]_vars PROVE [Promise!Next]_(Promise!vars)
  OBVIOUS
<1>1. CASE UNCHANGED vars
  BY <1>1 DEF vars, Promise!vars, Made, ActOf
<1>2. ASSUME NEW d \in Devices, FlushStep(d) PROVE Promise!Next
  BY <1>2, QuietStep, SwapPublishes DEF FlushStep
<1>3. ASSUME NEW d \in Devices, (\E a \in Acts : Enqueue(d, a)) \/ Wake(d) \/ FlushStart(d) \/ Fail(d)
      PROVE  Promise!Next
  BY <1>3, IssueStep, QuietStep
<1>4. CASE Reconcile
  BY <1>4, ShowsMore DEF Reconcile
<1>5. CASE Bump
  <2>1. manifest'.devices = manifest.devices
    BY <1>5 DEF Bump, IInv, TypeOK, Manifest
  <2> QED BY <1>5, <2>1, ShowsMore DEF Bump
<1> QED BY <1>1, <1>2, <1>3, <1>4, <1>5 DEF Next

\* Queues, receipts, retries, conflicts, compaction and the upgrade implement the log of ReadLog:
\* a mark is published exactly once, in the order its device made it, and what the AppView shows
\* only grows.
THEOREM LogImplemented == Spec => ImplementsLog
<1> QED BY IInvAlways, PromiseInit, PromiseStep, PTL DEF ImplementsLog, Spec, Promise!Spec
=============================================================================
