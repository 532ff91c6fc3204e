--------------------------- MODULE WeightedRotation ---------------------------
(***************************************************************************)
(* Smooth weighted round-robin (routing.go weightedRotate) for one route   *)
(* key, with the ID cursor that rotate falls back to when the candidates   *)
(* have one weight. Candidates come and go between picks: accounts cool    *)
(* down, are excluded by a retry, or return.                               *)
(*                                                                         *)
(* An account is its position in the pool, which is the order of the       *)
(* candidates and, here, of the IDs. A running weight is kept only for the *)
(* candidates of the last weighted pick: the code's map has no other keys. *)
(***************************************************************************)
EXTENDS Integers, FiniteSets, Functions

CONSTANTS
  Accounts,  \* a set of positions in the pool
  Weight,    \* the effective weight of each account, at least 1
  MaxDebt    \* bound on the running weights, positive or negative

ASSUME RotationAssumption ==
  /\ Accounts \subseteq Nat /\ Accounts # {} /\ IsFiniteSet(Accounts)
  /\ Weight \in [Accounts -> Nat \ {0}]
  /\ MaxDebt \in Nat

VARIABLES
  wrr,     \* wrr: account -> running weight
  cursor,  \* the account picked last, 0 before the first pick
  \* history, read by properties only
  lastSet, \* the candidates of the last pick
  round,   \* the candidates, while they are what they were when all weights were zero; else {}
  served,  \* served[a]: picks of a in the round
  waited   \* waited[a]: picks that passed a by since the candidates last changed

rotationVars == <<wrr, cursor, lastSet, round, served, waited>>

Total(C) == SumFunctionOnSet(Weight, C)
Least(C) == CHOOSE a \in C : \A b \in C : a <= b
Uniform(C) == \A a, b \in C : Weight[a] = Weight[b]
NoWeights == [a \in {} |-> 0]

\* The running weights of the candidates; one that was not a candidate has none.
Running(C) == [a \in C |-> IF a \in DOMAIN wrr THEN wrr[a] ELSE 0]
Raised(C) == [a \in C |-> Running(C)[a] + Weight[a]]

\* The first candidate of the largest weight that is above zero, or else the first.
Best(C) ==
  LET up == Raised(C)
      leaders == {a \in C : up[a] > 0 /\ \A b \in C : up[b] <= up[a]}
  IN IF leaders = {} THEN Least(C) ELSE Least(leaders)

\* The ID cursor: the first candidate after the last pick, or the first.
After(C) ==
  LET later == {a \in C : a > cursor}
  IN IF later = {} THEN Least(C) ELSE Least(later)

RotationInit ==
  /\ wrr = NoWeights /\ cursor = 0
  /\ lastSet = {} /\ round = {}
  /\ served = [a \in Accounts |-> 0] /\ waited = [a \in Accounts |-> 0]

\* History: a round goes on while the candidates stay, starts where no candidate
\* has a running weight, and is over when every candidate had its weight of picks.
Observe(C, a) ==
  LET starts == \A b \in C : Running(C)[b] = 0
      goesOn == C = round /\ ~starts
      counted == [b \in Accounts |-> (IF goesOn THEN served[b] ELSE 0) + (IF b = a THEN 1 ELSE 0)]
  IN /\ lastSet' = C
     /\ round' = IF goesOn \/ starts THEN C ELSE {}
     /\ served' = IF goesOn \/ starts THEN counted ELSE [b \in Accounts |-> 0]
     /\ waited' = [b \in Accounts |->
                     IF C # lastSet THEN 0 ELSE IF b \in C /\ b # a THEN waited[b] + 1 ELSE 0]

\* Equal weights drop the running weights and follow the ID cursor.
PlainPick(C) ==
  /\ Uniform(C)
  /\ wrr' = NoWeights /\ cursor' = After(C)
  /\ lastSet' = C /\ round' = {}
  /\ served' = [a \in Accounts |-> 0] /\ waited' = [a \in Accounts |-> 0]

\* Mutant: the account picked pays its own weight and not the total.
WeightedPickCheap(C) ==
  /\ ~Uniform(C)
  /\ LET best == Best(C)
     IN /\ wrr' = [Raised(C) EXCEPT ![best] = @ - Weight[best]]
        /\ cursor' = best
        /\ Observe(C, best)
  /\ \A a \in C : wrr'[a] \in -MaxDebt..MaxDebt

WeightedPick(C) ==
  /\ ~Uniform(C)
  /\ LET best == Best(C)
     IN /\ wrr' = [Raised(C) EXCEPT ![best] = @ - Total(C)]
        /\ cursor' = best
        /\ Observe(C, best)
  /\ \A a \in C : wrr'[a] \in -MaxDebt..MaxDebt

RotationNext == \E C \in (SUBSET Accounts) \ {{}} : PlainPick(C) \/ WeightedPick(C)

RotationSpec == RotationInit /\ [][RotationNext]_rotationVars

-------------------------------------------------------------------------------
(* Properties                                                              *)

\* In a round, no account is picked more often than its weight, and the running
\* weights return to zero after as many picks as the weights add up to: each
\* account then had exactly its weight of them (routing.go 259-261, "receives
\* proportionally more requests").
ShareIsWeight ==
  round # {} =>
    /\ \A a \in round : served[a] <= Weight[a]
    /\ SumFunctionOnSet(served, round) = Total(round) => \A a \in round : wrr[a] = 0

\* Whatever the candidates were before, an account that stays a candidate of an
\* unchanged set is picked again within two rounds. The code says why it drops the
\* weights of those who left: a returning account is not to inherit a large one
\* (routing.go:339-340), and a heavier account is to be served "without bursting"
\* (routing.go:259-261).
BoundedWait == \A a \in lastSet : waited[a] <= 2 * Total(lastSet)
===============================================================================
