------------------------------- MODULE MCRouter -------------------------------
(* Small instances of Router for TLC: a CN pair beside a global account, and *)
(* three requests of two conversations.                                      *)
EXTENDS Router, TLC

CONSTANTS r1, r2, r3, c1, c2

TwoAccounts == {1, 2}
TwoCN == [a \in {1, 2} |-> "cn"]

OneCNOneGlobal == [a \in {1, 2} |-> IF a = 2 THEN "global" ELSE "cn"]

ThreeRequests == {r1, r2, r3}
TwoConversations == [r \in {r1, r2, r3} |-> IF r = r3 THEN c2 ELSE c1]
TwoRequests == {r1, r2}
OneConversation == [r \in {r1, r2} |-> c1]
DefaultFilter == [r \in {r1, r2, r3} |-> "default"]
MixedFilters == [r \in {r1, r2} |-> IF r = r2 THEN "auto" ELSE "default"]

TwinRequests == Permutations({r1, r2})
===============================================================================
