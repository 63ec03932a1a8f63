------------------------------ MODULE ReadLog ------------------------------
(***************************************************************************)
(* What synchronised read marks promise, without queues, receipts,         *)
(* manifests or retries: every device issues its marks in order, each mark *)
(* enters the public log exactly once, in the order of its device, and the *)
(* AppView shows a prefix of the log that only grows.  A device may take   *)
(* back its last mark for another one of the same selection while the log  *)
(* does not hold it yet.                                                   *)
(***************************************************************************)
EXTENDS Naturals, FiniteSets, Sequences

CONSTANTS Devices, Acts

VARIABLES
  issued,  \* per device: the marks its user made
  done,    \* per device: how many of them were published
  log,     \* the marks in the order of their publication
  shown    \* how many of them the AppView shows

vars == <<issued, done, log, shown>>

Element(s, a) == \E i \in DOMAIN s : s[i] = a

TypeOK ==
  /\ issued \in [Devices -> Seq(Acts)]
  /\ done \in [Devices -> Nat]
  /\ log \in Seq(Acts)
  /\ shown \in 0..Len(log)

\* Old marks are in the log, and some of them may be pending on a device still.
Init ==
  /\ issued \in [Devices -> Seq(Acts)]
  /\ done = [d \in Devices |-> 0]
  /\ log \in Seq(Acts) /\ shown = Len(log)

Issue(d, a) ==
  /\ \/ issued' = [issued EXCEPT ![d] = Append(@, a)]
     \/ /\ done[d] < Len(issued[d])
        /\ issued' = [issued EXCEPT ![d][Len(issued[d])] = a]
  /\ UNCHANGED <<done, log, shown>>

\* The numbers of a set in increasing order.
InOrder(S) == [i \in 1..Cardinality(S) |-> CHOOSE c \in S : Cardinality({b \in S : b <= c}) = i]

\* The next n marks of device d enter the log, except those it holds already.
Publish(d, n) ==
  LET new == {c \in done[d] + 1 .. done[d] + n : ~Element(log, issued[d][c])} IN
  /\ done[d] + n <= Len(issued[d])
  /\ done' = [done EXCEPT ![d] = @ + n]
  /\ log' = log \o [i \in 1..Cardinality(new) |-> issued[d][InOrder(new)[i]]]
  /\ UNCHANGED <<issued, shown>>

Show(k) ==
  /\ k \in shown..Len(log)
  /\ shown' = k
  /\ UNCHANGED <<issued, done, log>>

Next == \/ \E d \in Devices : \/ \E a \in Acts : Issue(d, a)
                              \/ \E n \in 1..Len(issued[d]) : Publish(d, n)
        \/ \E k \in 0..Len(log) : Show(k)

Spec == Init /\ [][Next]_vars
=============================================================================
