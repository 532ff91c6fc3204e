---------------------------- MODULE MCAccountPool -----------------------------
(* A small instance of AccountPool for TLC: two interchangeable tokens and two *)
(* admin requests at a time.                                                   *)
EXTENDS AccountPool, TLC

CONSTANTS h1, h2, t1, t2

TwoHandlers == {h1, h2}
OneHandler == {h1}
TwoTokens == {t1, t2}
Symmetric == Permutations(TwoHandlers) \cup Permutations(TwoTokens)
===============================================================================
