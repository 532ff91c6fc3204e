--------------------------- MODULE FailoverPromise ---------------------------
(***************************************************************************)
(* What one chat request is promised, whatever the pool does underneath:   *)
(* it is tried on distinct accounts, on no more of them than the retry     *)
(* budget allows, never again once a byte of a response has reached the    *)
(* client, and it is answered once, by the answer that fits what happened. *)
(* Router.tla implements this specification.                               *)
(***************************************************************************)
EXTENDS Naturals, FiniteSets

CONSTANTS Accounts,         \* account IDs of the pool
          Requests,         \* chat requests
          Budget            \* accounts one request may consume

VARIABLES tried,            \* tried[r]: accounts request r was sent to
          committed,        \* committed[r]: response bytes reached the client
          answer            \* answer[r]: how the request ended, "none" before

promiseVars == <<tried, committed, answer>>

(* "ok" and "broken" are committed responses (a full one, one that ends in *)
(* an error chunk), "failed" is an error status, "rejected" means that no  *)
(* account was ever tried and "gone" that the client left.                 *)
Answers == {"ok", "broken", "failed", "rejected", "gone"}

Fits(r, x) ==
  CASE x \in {"ok", "broken"} -> committed[r]
    [] x = "failed"           -> ~committed[r] /\ tried[r] # {}
    [] x = "rejected"         -> tried[r] = {}
    [] OTHER                  -> tried[r] # {}

Init == /\ tried = [r \in Requests |-> {}]
        /\ committed = [r \in Requests |-> FALSE]
        /\ answer = [r \in Requests |-> "none"]

Try(r, a) == /\ answer[r] = "none"
             /\ ~committed[r]
             /\ a \notin tried[r]
             /\ Cardinality(tried[r]) < Budget
             /\ tried' = [tried EXCEPT ![r] = @ \cup {a}]
             /\ UNCHANGED <<committed, answer>>

Commit(r) == /\ answer[r] = "none"
             /\ tried[r] # {}
             /\ committed' = [committed EXCEPT ![r] = TRUE]
             /\ UNCHANGED <<tried, answer>>

Answer(r, x) == /\ answer[r] = "none"
                /\ Fits(r, x)
                /\ answer' = [answer EXCEPT ![r] = x]
                /\ UNCHANGED <<tried, committed>>

Next == \E r \in Requests : \/ \E a \in Accounts : Try(r, a)
                            \/ Commit(r)
                            \/ \E x \in Answers : Answer(r, x)

Spec == Init /\ [][Next]_promiseVars
==============================================================================
