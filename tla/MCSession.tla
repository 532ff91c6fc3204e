------------------------------ MODULE MCSession -------------------------------
(* A small instance of Session for TLC: two callers of every operation.    *)
EXTENDS Session

CONSTANTS c1, c2

TwoCallers == {c1, c2}
AllOps == {"chat", "models", "probe"}
===============================================================================
