----------------------------- MODULE MCSnapshots ------------------------------
(* A small instance of Snapshots for TLC: a pool of two accounts.          *)
EXTENDS Snapshots

TwoAccounts == {1, 2}

\* Any mix of the events: two switches, one of every other kind.
AnyEvent == [k \in Kinds |-> IF k = "switches" THEN 2 ELSE 1]

SwitchOnly == [k \in Kinds |-> IF k = "switches" THEN 1 ELSE 0]
===============================================================================
