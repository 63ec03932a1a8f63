-------------------------- MODULE MCDurableInbox --------------------------
(* Instances of DurableInbox for TLC. *)
EXTENDS DurableInbox, TLC

\* Two repositories, bob with event 2.
TwoRepos == [s \in 1..MaxSeq |-> IF s = 2 THEN "bob" ELSE "alice"]

\* Alice writes one record again and again, around the sync markers there are.
OneRecordEach == [s \in 1..MaxSeq |-> CASE s = 2 -> {"b1"} [] s \in Syncs -> {}
                                        [] OTHER -> {"a1"}]

\* Alice writes two records; her account is closed by event 5.
ClosingAccount == [s \in 1..MaxSeq |-> CASE s = 1 -> {"a1"} [] s = 2 -> {"b1"} [] s = 4 -> {"a2"}
                                         [] s = 5 -> {"a1", "a2"} [] OTHER -> {}]

WorkerSymmetry == Permutations(Worker)
=============================================================================
