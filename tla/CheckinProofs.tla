---------------------------- MODULE CheckinProofs -----------------------------
(***************************************************************************)
(* Theorems about Checkin, for any accounts, campaigns, days, faults,      *)
(* manual runs and restarts: the type invariant, that one check-in at a    *)
(* time runs for an account, that a retry presents a newer token, that no  *)
(* claim is sent twice and that a record is true of the gateway. That the  *)
(* credits are claimed in the end stays with TLC.                          *)
(***************************************************************************)
EXTENDS Checkin, TLAPS

USE BoundAssumption DEF Workers, Of

Places == {"idle", "session", "bearer", "list", "claim", "relist", "renew", "record", "release"}

\* The locals of a check-in.
Locals == [at : Places, bearer : Nat, rejected : Nat, retried : BOOLEAN,
           todo : SUBSET Campaigns, sure : SUBSET Campaigns, claiming : SUBSET Campaigns,
           confirmed : BOOLEAN, unauthorized : BOOLEAN, result : Result, day : Nat]

-------------------------------------------------------------------------------
(* The steps of a check-in, as changes of its locals.                      *)

\* A check-in ends with a result, and keeps the rest.
LEMMA EndsFields ==
  ASSUME run \in [Workers -> Locals], NEW w \in Workers, NEW x \in Result
  PROVE  /\ Ends(w, x) \in Locals
         /\ Ends(w, x).at = "record" /\ Ends(w, x).result = x
         /\ Ends(w, x).day = run[w].day
         /\ Ends(w, x).rejected = run[w].rejected
<1>1. run[w] \in Locals
  OBVIOUS
<1> QED BY <1>1 DEF Ends, Locals, Places

\* A failure ends the check-in with an error, or the first 401 renews the session.
LEMMA FailedFields ==
  ASSUME run \in [Workers -> Locals], NEW w \in Workers, NEW u \in BOOLEAN
  PROVE  /\ Failed(w, u) \in Locals
         /\ Failed(w, u).day = run[w].day
         /\ \/ Failed(w, u).at = "record" /\ Failed(w, u).result = "error"
               /\ Failed(w, u).rejected = run[w].rejected
            \/ Failed(w, u).at = "renew" /\ Failed(w, u).rejected = run[w].bearer
<1>1. run[w] \in Locals
  OBVIOUS
<1>2. CASE u /\ ~run[w].retried
  BY <1>1, <1>2 DEF Failed, Locals, Places
<1>3. CASE ~(u /\ ~run[w].retried)
  BY <1>3, EndsFields DEF Failed, Result
<1> QED BY <1>2, <1>3

\* After a campaign the check-in goes on to the ones left, or ends well.
LEMMA ProceedFields ==
  ASSUME run \in [Workers -> Locals], NEW w \in Workers, NEW c \in Campaigns, NEW b \in BOOLEAN
  PROVE  /\ Proceed(w, c, b) \in Locals
         /\ Proceed(w, c, b).day = run[w].day
         /\ \/ /\ run[w].todo \subseteq {c}
               /\ Proceed(w, c, b).at = "record"
               /\ Proceed(w, c, b).result \in {"success", "already"}
            \/ /\ Proceed(w, c, b).at = "claim"
               /\ Proceed(w, c, b).todo = run[w].todo \ {c}
               /\ Proceed(w, c, b).sure = run[w].sure
               /\ Proceed(w, c, b).claiming = {}
               /\ Proceed(w, c, b).bearer = run[w].bearer
               /\ Proceed(w, c, b).rejected = run[w].rejected
               /\ Proceed(w, c, b).retried = run[w].retried
<1> DEFINE left == run[w].todo \ {c}
           any == run[w].confirmed \/ b
<1>1. run[w] \in Locals
  OBVIOUS
<1>2. CASE left = {}
  <2>1. Proceed(w, c, b) = Ends(w, IF any THEN "success" ELSE "already")
    BY <1>2 DEF Proceed, AllClaimed
  <2> QED BY <1>2, <2>1, EndsFields DEF Result
<1>3. CASE left # {}
  <2>1. Proceed(w, c, b) = [run[w] EXCEPT !.at = "claim", !.todo = left, !.confirmed = any, !.claiming = {}, !.unauthorized = FALSE]
    BY <1>3 DEF Proceed
  <2>2. left \in SUBSET Campaigns /\ any \in BOOLEAN
    BY <1>1 DEF Locals
  <2> HIDE DEF left, any
  <2>3. Proceed(w, c, b) \in Locals
    BY <1>1, <2>1, <2>2 DEF Locals, Places
  <2> QED BY <1>1, <2>1, <2>3 DEF Locals, left
<1> QED BY <1>2, <1>3

\* Session and bearer: the check-in goes on with no claim in hand, or ends.
LEMMA PreparingMoves ==
  ASSUME TypeOK, NEW w \in Workers, Ensure(w) \/ Bearer(w) \/ Renew(w)
  PROVE  \E r \in Locals :
           /\ run' = [run EXCEPT ![w] = r]
           /\ \/ r.at = "record" /\ r.result = "error" /\ r.day = run[w].day
              \/ /\ run[w].at \in {"session", "renew"} /\ r.at = "bearer"
                 /\ r.day \in {0, run[w].day} /\ r.claiming \in {{}, run[w].claiming}
                 /\ run[w].at = "renew" => r.claiming = {}
              \/ /\ run[w].at = "bearer" /\ r.at = "list"
                 /\ r.day = run[w].day /\ r.claiming = run[w].claiming
<1>0. run \in [Workers -> Locals] /\ run[w] \in Locals
  BY DEF TypeOK, Locals, Places
<1>1. ASSUME run' = [run EXCEPT ![w] = Ends(w, "error")]
      PROVE  \E r \in Locals : /\ run' = [run EXCEPT ![w] = r]
                               /\ r.at = "record" /\ r.result = "error" /\ r.day = run[w].day
  <2>1. "error" \in Result
    BY DEF Result
  <2>2. /\ Ends(w, "error") \in Locals /\ Ends(w, "error").at = "record"
        /\ Ends(w, "error").result = "error" /\ Ends(w, "error").day = run[w].day
    BY <1>0, <2>1, EndsFields
  <2> QED BY <1>1, <2>2
<1>2. CASE Ensure(w)
  <2>1. [run[w] EXCEPT !.at = "bearer"] \in Locals
    BY <1>0 DEF Locals, Places
  <2>2. /\ [run[w] EXCEPT !.at = "bearer"].at = "bearer" /\ [run[w] EXCEPT !.at = "bearer"].day = run[w].day
        /\ [run[w] EXCEPT !.at = "bearer"].claiming = run[w].claiming
    BY <1>0 DEF Locals
  <2> QED BY <1>1, <1>2, <2>1, <2>2 DEF Ensure, Step
<1>3. CASE Bearer(w)
  <2>1. ASSUME NEW b \in Nat
        PROVE  /\ [run[w] EXCEPT !.at = "list", !.bearer = b] \in Locals
               /\ [run[w] EXCEPT !.at = "list", !.bearer = b].at = "list"
               /\ [run[w] EXCEPT !.at = "list", !.bearer = b].day = run[w].day
               /\ [run[w] EXCEPT !.at = "list", !.bearer = b].claiming = run[w].claiming
    BY <1>0 DEF Locals, Places
  <2>2. bearer[Of(w)] \in Nat /\ minted + 1 \in Nat
    BY DEF TypeOK
  <2> QED BY <1>1, <1>3, <2>1, <2>2 DEF Bearer, Step
<1>4. CASE Renew(w)
  <2> DEFINE r == [Idle EXCEPT !.at = "bearer", !.rejected = run[w].rejected, !.retried = TRUE]
  <2>1. r \in Locals /\ r.at = "bearer" /\ r.day = 0 /\ r.claiming = {}
    BY <1>0 DEF Locals, Places, Idle, Result
  <2>2. /\ run[w].at = "renew"
        /\ run' = [run EXCEPT ![w] = r] \/ run' = [run EXCEPT ![w] = Ends(w, "error")]
    BY <1>4 DEF Renew, Step
  <2> HIDE DEF r
  <2> QED BY <1>1, <2>1, <2>2
<1> QED BY <1>2, <1>3, <1>4

\* The list of the campaigns: all that may be claimed are to be, or there is none.
LEMMA ListMoves ==
  ASSUME TypeOK, NEW w \in Workers, List(w)
  PROVE  \E r \in Locals :
           /\ run' = [run EXCEPT ![w] = r]
           /\ \/ /\ r.at = "claim" /\ r.day = day
                 /\ r.todo = Listed(Of(w), {"open", "pending"}) /\ r.todo # {}
                 /\ r.sure = Listed(Of(w), {"open"})
                 /\ r.claiming = run[w].claiming
                 /\ r.bearer = run[w].bearer /\ r.rejected = run[w].rejected
                 /\ r.retried = run[w].retried
              \/ /\ r.at = "record" /\ r.day = day
                 /\ Listed(Of(w), {"open", "pending"}) = {}
                 /\ r.result = IF Listed(Of(w), {"claimed"}) # {} THEN "already" ELSE "skipped"
              \/ /\ r.at = "record" /\ r.result = "error" /\ r.day = run[w].day
              \/ /\ r.at = "renew" /\ r.day = run[w].day /\ r.rejected = run[w].bearer
<1> DEFINE a == Of(w)
           claimable == Listed(a, {"open", "pending"})
           listed == [run[w] EXCEPT !.todo = claimable, !.sure = Listed(a, {"open"}), !.day = day]
           result == IF Listed(a, {"claimed"}) # {} THEN "already" ELSE "skipped"
           claims == [listed EXCEPT !.at = "claim"]
           ends == [listed EXCEPT !.at = "record", !.result = result]
<1>0. run \in [Workers -> Locals] /\ run[w] \in Locals /\ day \in Nat
  BY DEF TypeOK, Locals, Places
<1>1. claimable \in SUBSET Campaigns /\ Listed(a, {"open"}) \in SUBSET Campaigns /\ result \in Result
  BY DEF Listed, Result
<1>2. \/ run' = [run EXCEPT ![w] = claims] /\ claimable # {}
      \/ run' = [run EXCEPT ![w] = ends] /\ claimable = {}
      \/ \E u \in BOOLEAN : run' = [run EXCEPT ![w] = Failed(w, u)]
  BY DEF List, Step
<1> HIDE DEF claimable, result
<1>3. /\ claims \in Locals /\ claims.at = "claim" /\ claims.todo = claimable
      /\ claims.sure = Listed(a, {"open"}) /\ claims.day = day
      /\ claims.claiming = run[w].claiming /\ claims.bearer = run[w].bearer
      /\ claims.rejected = run[w].rejected /\ claims.retried = run[w].retried
  BY <1>0, <1>1 DEF Locals, Places
<1>4. ends \in Locals /\ ends.at = "record" /\ ends.result = result /\ ends.day = day
  BY <1>0, <1>1 DEF Locals, Places
<1>5. CASE run' = [run EXCEPT ![w] = claims] /\ claimable # {}
  BY <1>3, <1>5 DEF claimable
<1>6. CASE run' = [run EXCEPT ![w] = ends] /\ claimable = {}
  BY <1>4, <1>6 DEF claimable, result
<1>7. CASE \E u \in BOOLEAN : run' = [run EXCEPT ![w] = Failed(w, u)]
  BY <1>0, <1>7, FailedFields
<1> QED BY <1>2, <1>5, <1>6, <1>7

\* What a claim of c, or looking it up again, may make of the locals.
AfterClaim(w, c, r) ==
  /\ r.day = run[w].day
  /\ \/ /\ run[w].todo \subseteq {c}
        /\ r.at = "record" /\ r.result \in {"success", "already"}
     \/ /\ r.at = "claim" /\ r.claiming = {}
        /\ r.todo = run[w].todo \ {c} /\ r.sure = run[w].sure
        /\ r.bearer = run[w].bearer /\ r.rejected = run[w].rejected
        /\ r.retried = run[w].retried

\* A claim: confirmed, and on to the next; or looked up again.
LEMMA ClaimMoves ==
  ASSUME TypeOK, NEW w \in Workers, NEW c \in Campaigns, Claim(w, c)
  PROVE  \E r \in Locals :
           /\ run' = [run EXCEPT ![w] = r]
           /\ \/ AfterClaim(w, c, r) /\ campaign' = [campaign EXCEPT ![Of(w)][c] = "claimed"]
              \/ /\ r.at = "relist" /\ r.claiming = {c} /\ r.day = run[w].day
                 /\ r.todo = run[w].todo /\ r.sure = run[w].sure
                 /\ r.bearer = run[w].bearer /\ r.rejected = run[w].rejected
                 /\ r.retried = run[w].retried
                 /\ \/ UNCHANGED campaign
                    \/ \E s \in {"claimed", "pending"} : campaign' = [campaign EXCEPT ![Of(w)][c] = s]
<1> DEFINE looks(u) == [run[w] EXCEPT !.at = "relist", !.claiming = {c}, !.unauthorized = u]
<1>0. run \in [Workers -> Locals] /\ run[w] \in Locals
  BY DEF TypeOK, Locals, Places
<1>1. ASSUME NEW u \in BOOLEAN
      PROVE  /\ looks(u) \in Locals
             /\ looks(u).at = "relist" /\ looks(u).claiming = {c} /\ looks(u).day = run[w].day
             /\ looks(u).todo = run[w].todo /\ looks(u).sure = run[w].sure
             /\ looks(u).bearer = run[w].bearer /\ looks(u).rejected = run[w].rejected
             /\ looks(u).retried = run[w].retried
  BY <1>0 DEF Locals, Places
<1>2. \/ /\ run' = [run EXCEPT ![w] = Proceed(w, c, TRUE)]
         /\ campaign' = [campaign EXCEPT ![Of(w)][c] = "claimed"]
      \/ /\ \E u \in BOOLEAN : run' = [run EXCEPT ![w] = looks(u)]
         /\ \/ UNCHANGED campaign
            \/ \E s \in {"claimed", "pending"} : campaign' = [campaign EXCEPT ![Of(w)][c] = s]
  BY DEF Claim, Step
<1>3. Proceed(w, c, TRUE) \in Locals /\ AfterClaim(w, c, Proceed(w, c, TRUE))
  BY <1>0, ProceedFields DEF AfterClaim
<1> HIDE DEF looks
<1> QED BY <1>1, <1>2, <1>3

\* A campaign looked up again: claimed after all, and on to the next; or failed.
LEMMA RelistMoves ==
  ASSUME TypeOK, NEW w \in Workers, Relist(w)
  PROVE  \E c \in run[w].claiming, r \in Locals :
           /\ run' = [run EXCEPT ![w] = r]
           /\ \/ AfterClaim(w, c, r) /\ campaign[Of(w)][c] = "claimed"
              \/ r.at = "record" /\ r.result = "error" /\ r.day = run[w].day
              \/ r.at = "renew" /\ r.day = run[w].day /\ r.rejected = run[w].bearer
<1>0. run \in [Workers -> Locals] /\ run[w] \in Locals
  BY DEF TypeOK, Locals, Places
<1>1. PICK c \in run[w].claiming :
        \/ campaign[Of(w)][c] = "claimed" /\ run' = [run EXCEPT ![w] = Proceed(w, c, FALSE)]
        \/ run' = [run EXCEPT ![w] = Failed(w, run[w].unauthorized)]
  BY DEF Relist, Step
<1>2. c \in Campaigns /\ run[w].unauthorized \in BOOLEAN
  BY <1>0 DEF Locals
<1>3. Proceed(w, c, FALSE) \in Locals /\ AfterClaim(w, c, Proceed(w, c, FALSE))
  BY <1>0, <1>2, ProceedFields DEF AfterClaim
<1>4. CASE campaign[Of(w)][c] = "claimed" /\ run' = [run EXCEPT ![w] = Proceed(w, c, FALSE)]
  BY <1>3, <1>4
<1>5. CASE run' = [run EXCEPT ![w] = Failed(w, run[w].unauthorized)]
  BY <1>0, <1>2, <1>5, FailedFields
<1> QED BY <1>1, <1>4, <1>5

\* Record and release.
LEMMA EndingMoves ==
  ASSUME TypeOK, NEW w \in Workers, Record(w) \/ Release(w)
  PROVE  \E r \in Locals : /\ run' = [run EXCEPT ![w] = r]
                           /\ r.at = (IF run[w].at = "record" THEN "release" ELSE "idle")
                           /\ r.day = 0
<1>1. Idle \in Locals /\ Idle.at = "idle" /\ Idle.day = 0
  BY DEF Idle, Locals, Places, Result
<1>2. /\ [Idle EXCEPT !.at = "release"] \in Locals
      /\ [Idle EXCEPT !.at = "release"].at = "release" /\ [Idle EXCEPT !.at = "release"].day = 0
  BY DEF Idle, Locals, Places, Result
<1>3. CASE Record(w)
  BY <1>2, <1>3 DEF Record, Step
<1>4. CASE Release(w)
  <2>1. run[w].at = "release" /\ run' = [run EXCEPT ![w] = Idle]
    BY <1>4 DEF Release, Step
  <2> QED BY <1>1, <2>1
<1> QED BY <1>3, <1>4

\* A check-in starts with fresh locals.
LEMMA AcquireMoves ==
  ASSUME NEW w \in Workers, Acquire(w)
  PROVE  \E r \in Locals : /\ run' = [run EXCEPT ![w] = r]
                           /\ r.at = "session" /\ r.day = 0
                           /\ r.retried = FALSE /\ r.claiming = {}
<1>1. /\ [Idle EXCEPT !.at = "session"] \in Locals
      /\ [Idle EXCEPT !.at = "session"].at = "session" /\ [Idle EXCEPT !.at = "session"].day = 0
      /\ [Idle EXCEPT !.at = "session"].retried = FALSE /\ [Idle EXCEPT !.at = "session"].claiming = {}
  BY DEF Idle, Locals, Places, Result
<1> QED BY <1>1 DEF Acquire

-------------------------------------------------------------------------------
(* Type correctness.                                                       *)

\* A worker's step changes its locals alone, and gives up the account when it ends.
LEMMA WorkMoves ==
  ASSUME TypeOK, NEW w \in Workers, Work(w)
  PROVE  \E r \in Locals :
           /\ run' = [run EXCEPT ![w] = r] /\ run[w].at # "idle"
           /\ \/ r.at = "idle" /\ running' = running \ {Of(w)}
              \/ UNCHANGED running
<1>1. CASE Ensure(w) \/ Bearer(w) \/ Renew(w)
  <2>1. UNCHANGED running /\ run[w].at # "idle"
    BY <1>1 DEF Ensure, Bearer, Renew, Step
  <2> QED BY <1>1, <2>1, PreparingMoves
<1>2. CASE List(w)
  <2>1. UNCHANGED running /\ run[w].at # "idle"
    BY <1>2 DEF List, Step
  <2> QED BY <1>2, <2>1, ListMoves
<1>3. CASE \E c \in Campaigns : Claim(w, c)
  <2>1. UNCHANGED running /\ run[w].at # "idle"
    BY <1>3 DEF Claim
  <2> QED BY <1>3, <2>1, ClaimMoves
<1>4. CASE Relist(w)
  <2>1. UNCHANGED running /\ run[w].at # "idle"
    BY <1>4 DEF Relist
  <2> QED BY <1>4, <2>1, RelistMoves
<1>5. CASE Record(w)
  <2>1. UNCHANGED running /\ run[w].at # "idle"
    BY <1>5 DEF Record, Step
  <2> QED BY <1>5, <2>1, EndingMoves
<1>6. CASE Release(w)
  <2>1. run[w].at = "release" /\ running' = running \ {Of(w)}
    BY <1>6 DEF Release, Step
  <2> QED BY <1>6, <2>1, EndingMoves
<1> QED BY <1>1, <1>2, <1>3, <1>4, <1>5, <1>6 DEF Work

\* The gateway's campaigns keep their type when one of them changes.
LEMMA CampaignType ==
  ASSUME campaign \in [Accounts -> [Campaigns -> Status]], NEW a \in Accounts,
         NEW c \in Campaigns, NEW s \in Status
  PROVE  [campaign EXCEPT ![a][c] = s] \in [Accounts -> [Campaigns -> Status]]
<1>1. [campaign[a] EXCEPT ![c] = s] \in [Campaigns -> Status]
  OBVIOUS
<1> QED BY <1>1

\* Initially nobody has checked in.
LEMMA InitType == Init => TypeOK
<1> SUFFICES ASSUME Init PROVE TypeOK
  OBVIOUS
<1>1. Idle \in Locals
  BY DEF Idle, Locals, Places, Result
<1>2. Never \in [day : Nat, status : Result, rested : BOOLEAN]
  BY DEF Never, Result
<1>3. NoPass \in [left : SUBSET Accounts, day : Nat, due : SUBSET Accounts]
  BY DEF NoPass
<1>4. [c \in Campaigns |-> "open"] \in [Campaigns -> Status]
  BY DEF Status
<1>5. /\ campaign \in [Accounts -> [Campaigns -> Status]]
      /\ last \in [Accounts -> [day : Nat, status : Result, rested : BOOLEAN]]
      /\ sched \in [left : SUBSET Accounts, day : Nat, due : SUBSET Accounts]
      /\ run \in [Workers -> Locals]
  BY <1>1, <1>2, <1>3, <1>4 DEF Init
<1> QED BY <1>5 DEF Init, TypeOK, Locals, Places

\* A worker's step keeps the types.
LEMMA WorkType ==
  ASSUME TypeOK, NEW w \in Workers, Work(w)
  PROVE  TypeOK'
<1>0. Of(w) \in Accounts
  OBVIOUS
<1>1. run' \in [Workers -> Locals]
  <2>1. PICK r \in Locals : run' = [run EXCEPT ![w] = r]
    BY WorkMoves
  <2>2. run \in [Workers -> Locals]
    BY DEF TypeOK, Locals, Places
  <2> QED BY <2>1, <2>2
<1>2. campaign' \in [Accounts -> [Campaigns -> Status]]
  <2>1. CASE \E c \in Campaigns : Claim(w, c)
    <3>1. PICK c \in Campaigns :
            \/ UNCHANGED campaign
            \/ \E s \in {"claimed", "pending"} : campaign' = [campaign EXCEPT ![Of(w)][c] = s]
      BY <2>1, ClaimMoves
    <3>2. \A s \in {"claimed", "pending"} :
            [campaign EXCEPT ![Of(w)][c] = s] \in [Accounts -> [Campaigns -> Status]]
      BY <1>0, CampaignType DEF TypeOK, Status
    <3>3. campaign \in [Accounts -> [Campaigns -> Status]]
      BY DEF TypeOK
    <3> QED BY <3>1, <3>2, <3>3
  <2>2. CASE UNCHANGED campaign
    BY <2>2 DEF TypeOK
  <2> QED BY <2>1, <2>2 DEF Work, Ensure, Bearer, Renew, List, Relist, Record, Release
<1>3. bearer' \in [Accounts -> Nat] /\ minted' \in Nat
  <2>1. CASE Bearer(w) \/ Renew(w)
    BY <1>0, <2>1 DEF Bearer, Renew, TypeOK
  <2>2. CASE UNCHANGED <<bearer, minted>>
    BY <2>2 DEF TypeOK
  <2> QED BY <2>1, <2>2 DEF Work, Ensure, List, Claim, Relist, Record, Release
<1>4. /\ last' \in [Accounts -> [day : Nat, status : Result, rested : BOOLEAN]]
      /\ crossed' \in [Accounts -> BOOLEAN]
  <2>1. CASE Record(w)
    <3>1. run[w].result \in Result /\ day \in Nat
      BY DEF TypeOK
    <3>2. [day |-> day, status |-> run[w].result, rested |-> FALSE]
            \in [day : Nat, status : Result, rested : BOOLEAN]
      BY <3>1
    <3> QED BY <1>0, <2>1, <3>2 DEF Record, TypeOK
  <2>2. CASE UNCHANGED <<last, crossed>>
    BY <2>2 DEF TypeOK
  <2> QED BY <2>1, <2>2 DEF Work, Ensure, Bearer, Renew, List, Claim, Relist, Release
<1>5. /\ running' \subseteq Accounts /\ UNCHANGED <<day, reached, sched, manual, restarts>>
  <2>1. UNCHANGED running \/ running' = running \ {Of(w)}
    BY WorkMoves
  <2> QED BY <2>1 DEF TypeOK, Work, Ensure, Bearer, Renew, List, Claim, Relist, Record, Release, boundVars
<1>6. faults' \in Nat
  <2>1. Fault \/ UNCHANGED faults
    BY DEF Work, Ensure, Bearer, Renew, List, Claim, Relist, Record, Release, boundVars, NoFault
  <2> QED BY <2>1 DEF Fault, TypeOK
<1>7. again' \in BOOLEAN
  BY DEF TypeOK, Work, Ensure, Bearer, Renew, List, Claim, Relist, Record, Release
<1> QED BY <1>1, <1>2, <1>3, <1>4, <1>5, <1>6, <1>7 DEF TypeOK, Locals, Places

\* So does every other step.
LEMMA OthersType ==
  ASSUME TypeOK,
         \/ Scheduler \/ Clock \/ Midnight \/ Restart
         \/ \E a \in Accounts : ManualBegins(a) \/ ProbeMints(a)
         \/ UNCHANGED vars
  PROVE  TypeOK'
<1> USE DEF boundVars
<1>0. run \in [Workers -> Locals]
  BY DEF TypeOK, Locals, Places
<1>1. ASSUME NEW w \in Workers, Acquire(w)
      PROVE  run' \in [Workers -> Locals] /\ running' \subseteq Accounts
  <2>1. PICK r \in Locals : run' = [run EXCEPT ![w] = r]
    BY <1>1, AcquireMoves
  <2>2. running' = running \cup {Of(w)} /\ Of(w) \in Accounts
    BY <1>1 DEF Acquire
  <2> QED BY <1>0, <2>1, <2>2 DEF TypeOK
<1>2. CASE PassBegins
  <2>1. sched' \in [left : SUBSET Accounts, day : Nat, due : SUBSET Accounts]
    BY <1>2 DEF PassBegins, TypeOK
  <2> QED BY <1>2, <2>1 DEF PassBegins, TypeOK
<1>3. ASSUME NEW a \in Accounts, PassVisits(a)
      PROVE  TypeOK'
  <2>1. run' \in [Workers -> Locals] /\ running' \subseteq Accounts
    BY <1>0, <1>1, <1>3 DEF PassVisits, TypeOK
  <2>2. sched' \in [left : SUBSET Accounts, day : Nat, due : SUBSET Accounts]
    BY <1>3 DEF PassVisits, TypeOK
  <2> QED BY <1>3, <2>1, <2>2 DEF PassVisits, TypeOK, Locals, Places
<1>4. ASSUME NEW a \in Accounts, ManualBegins(a)
      PROVE  TypeOK'
  <2>1. run' \in [Workers -> Locals] /\ running' \subseteq Accounts
    BY <1>1, <1>4 DEF ManualBegins
  <2> QED BY <1>4, <2>1 DEF ManualBegins, TypeOK, Locals, Places
<1>5. ASSUME NEW a \in Accounts, ProbeMints(a)
      PROVE  TypeOK'
  BY <1>5 DEF ProbeMints, TypeOK
<1>6. ASSUME NEW a \in Accounts, SlotPasses(a) \/ RestOver(a)
      PROVE  TypeOK'
  <2>1. CASE SlotPasses(a)
    BY <2>1 DEF SlotPasses, TypeOK
  <2>2. CASE RestOver(a)
    <3>1. last' \in [Accounts -> [day : Nat, status : Result, rested : BOOLEAN]]
      BY <2>2 DEF RestOver, TypeOK
    <3> QED BY <2>2, <3>1 DEF RestOver, TypeOK
  <2> QED BY <1>6, <2>1, <2>2
<1>7. ASSUME NEW a \in Accounts, NEW c \in Campaigns, ConfirmPending(a, c)
      PROVE  TypeOK'
  <2>1. campaign' \in [Accounts -> [Campaigns -> Status]]
    BY <1>7, CampaignType DEF ConfirmPending, TypeOK, Status
  <2> QED BY <1>7, <2>1 DEF ConfirmPending, TypeOK
<1>8. CASE Midnight
  <2>1. \A s \in {"open", "none"} : [c \in Campaigns |-> s] \in [Campaigns -> Status]
    BY DEF Status
  <2>2. campaign' \in [Accounts -> [Campaigns -> Status]]
    BY <1>8, <2>1 DEF Midnight
  <2> QED BY <1>8, <2>2 DEF Midnight, TypeOK
<1>9. CASE Restart
  <2>1. Idle \in Locals
    BY DEF Idle, Locals, Places, Result
  <2>2. run' \in [Workers -> Locals] /\ bearer' \in [Accounts -> Nat] /\ restarts' \in Nat
    BY <1>9, <2>1 DEF Restart, TypeOK
  <2>3. sched' \in [left : SUBSET Accounts, day : Nat, due : SUBSET Accounts]
    BY <1>9 DEF Restart, NoPass
  <2> QED BY <1>9, <2>2, <2>3 DEF Restart, TypeOK, Locals, Places
<1>10. CASE UNCHANGED vars
  BY <1>10 DEF vars, TypeOK
<1> QED BY <1>2, <1>3, <1>4, <1>5, <1>6, <1>7, <1>8, <1>9, <1>10 DEF Scheduler, Clock

\* The types hold in every reachable state.
THEOREM TypeCorrect == Spec => []TypeOK
<1>1. TypeOK /\ [Next]_vars => TypeOK'
  BY WorkType, OthersType DEF Next
<1> QED BY <1>1, InitType, PTL DEF Spec

-------------------------------------------------------------------------------
(* One check-in at a time.                                                 *)

\* A check-in under way has marked its account, and no other of the account is
\* under way: neither a scheduled one beside a manual one nor the reverse.
Exclusive ==
  /\ \A w \in Workers : run[w].at # "idle" => Of(w) \in running
  /\ \A w, v \in Workers : Of(w) = Of(v) /\ w # v => run[w].at = "idle" \/ run[v].at = "idle"

\* Taking an account is only possible while no check-in of it is under way.
LEMMA AcquireExclusive ==
  ASSUME TypeOK, Exclusive, NEW w \in Workers, Acquire(w)
  PROVE  Exclusive'
<1>1. PICK r \in Locals : run' = [run EXCEPT ![w] = r]
  BY AcquireMoves
<1>2. Of(w) \notin running /\ running' = running \cup {Of(w)}
  BY DEF Acquire
<1>3. \A v \in Workers : Of(v) = Of(w) => run[v].at = "idle"
  BY <1>2 DEF Exclusive
<1>4. run \in [Workers -> Locals]
  BY DEF TypeOK, Locals, Places
<1>5. \A v \in Workers : v # w => run'[v] = run[v]
  BY <1>1, <1>4
<1> HIDE DEF Workers, Of
<1> QED BY <1>2, <1>3, <1>5 DEF Exclusive

\* A worker's step leaves the others alone, and its last one frees the account.
LEMMA WorkExclusive ==
  ASSUME TypeOK, Exclusive, NEW w \in Workers, Work(w)
  PROVE  Exclusive'
<1>1. PICK r \in Locals :
        /\ run' = [run EXCEPT ![w] = r] /\ run[w].at # "idle"
        /\ \/ r.at = "idle" /\ running' = running \ {Of(w)}
           \/ UNCHANGED running
  BY WorkMoves
<1>2. run \in [Workers -> Locals]
  BY DEF TypeOK, Locals, Places
<1>3. /\ run'[w] = r
      /\ \A v \in Workers : v # w => run'[v] = run[v]
      /\ \A v \in Workers : Of(v) = Of(w) /\ v # w => run[v].at = "idle"
      /\ Of(w) \in running
  BY <1>1, <1>2 DEF Exclusive
<1> HIDE DEF Workers, Of
<1> QED BY <1>1, <1>3 DEF Exclusive

\* Exclusion holds in every reachable state: running is the guard it is meant to be
\* (tryAcquireCheckin, releaseCheckin).
THEOREM ExclusiveHolds == Spec => []Exclusive
<1>1. Init => Exclusive
  BY DEF Init, Exclusive, Idle
<1>2. TypeOK /\ Exclusive /\ [Next]_vars => Exclusive'
  <2> SUFFICES ASSUME TypeOK, Exclusive, [Next]_vars PROVE Exclusive'
    OBVIOUS
  <2>1. CASE \E w \in Workers : Work(w)
    BY <2>1, WorkExclusive
  <2>2. CASE \E w \in Workers : Acquire(w)
    BY <2>2, AcquireExclusive
  <2>3. CASE Restart
    <3>1. \A w \in Workers : run'[w].at = "idle"
      BY <2>3 DEF Restart, Idle
    <3> HIDE DEF Workers, Of
    <3> QED BY <3>1 DEF Exclusive
  <2>4. CASE UNCHANGED <<run, running>>
    BY <2>4 DEF Exclusive
  <2> QED BY <2>1, <2>2, <2>3, <2>4 DEF Next, Scheduler, Clock, PassBegins, PassVisits, ManualBegins,
          ProbeMints, SlotPasses, RestOver, ConfirmPending, Midnight, vars
<1> QED BY <1>1, <1>2, TypeCorrect, PTL DEF Spec

-------------------------------------------------------------------------------
(* The retry's token.                                                      *)

\* A first attempt has not been retried; the rejected token was minted before; a
\* retry that asks for a token finds none cached, or one newer than the rejected;
\* and that is what it presents.
TokensOf(w) ==
  /\ run[w].at = "session" => ~run[w].retried
  /\ run[w].at = "renew" => run[w].rejected <= minted
  /\ run[w].at = "bearer" /\ run[w].retried =>
       /\ run[w].rejected <= minted
       /\ bearer[Of(w)] = 0 \/ bearer[Of(w)] > run[w].rejected
  /\ run[w].at \in {"list", "claim", "relist"} =>
       /\ run[w].bearer <= minted
       /\ run[w].retried => run[w].bearer > run[w].rejected

Tokens ==
  /\ \A a \in Accounts : bearer[a] <= minted
  /\ \A w \in Workers : TokensOf(w)

\* What a step may do to the cached tokens: nothing, mint a newer one, or drop one.
TokenStep ==
  \/ UNCHANGED <<bearer, minted>>
  \/ \E a \in Accounts : minted' = minted + 1 /\ bearer' = [bearer EXCEPT ![a] = minted + 1]
  \/ \E a \in Accounts : minted' = minted /\ bearer' = [bearer EXCEPT ![a] = 0]
  \/ minted' = minted /\ bearer' = [a \in Accounts |-> 0]

\* It leaves the cached tokens minted, and troubles no check-in that stands still.
LEMMA TokensFrame ==
  ASSUME TypeOK, Tokens, TokenStep
  PROVE  /\ \A a \in Accounts : bearer'[a] <= minted'
         /\ \A w \in Workers : run'[w] = run[w] => TokensOf(w)'
<1>0. /\ bearer \in [Accounts -> Nat] /\ minted \in Nat
      /\ \A a \in Accounts : bearer[a] <= minted
  BY DEF TypeOK, Tokens
<1>1. \A a \in Accounts : bearer'[a] <= minted' /\ minted <= minted'
  BY <1>0 DEF TokenStep
<1>2. \A a \in Accounts : bearer'[a] \in {bearer[a], 0, minted + 1}
  BY <1>0 DEF TokenStep
<1>3. ASSUME NEW w \in Workers, run'[w] = run[w]
      PROVE  TokensOf(w)'
  <2>1. TokensOf(w) /\ Of(w) \in Accounts
    BY DEF Tokens
  <2>2. run[w].bearer \in Nat /\ run[w].rejected \in Nat /\ minted' \in Nat
    BY <1>0 DEF TypeOK, TokenStep
  <2>3. bearer'[Of(w)] \in {bearer[Of(w)], 0, minted + 1} /\ bearer[Of(w)] \in Nat /\ minted <= minted'
    BY <1>0, <1>1, <1>2, <2>1
  <2> HIDE DEF Of
  <2> QED BY <1>0, <1>3, <2>1, <2>2, <2>3 DEF TokensOf
<1> QED BY <1>1, <1>3

\* A new check-in presents nothing yet.
LEMMA TokensAcquire ==
  ASSUME TypeOK, Tokens, NEW w \in Workers, Acquire(w), UNCHANGED <<bearer, minted>>
  PROVE  Tokens'
<1>1. PICK r \in Locals : run' = [run EXCEPT ![w] = r] /\ r.at = "session" /\ r.retried = FALSE
  BY AcquireMoves
<1>2. run \in [Workers -> Locals]
  BY DEF TypeOK, Locals, Places
<1>3. TokensOf(w)'
  BY <1>1, <1>2 DEF TokensOf
<1>4. \A v \in Workers : v # w => run'[v] = run[v]
  BY <1>1, <1>2
<1> HIDE DEF Workers, Of
<1> QED BY <1>3, <1>4, TokensFrame DEF Tokens, TokenStep

\* Getting ready: the token that is fetched or minted for a retry is newer than the
\* rejected one, since that was dropped when the session was renewed.
LEMMA TokensPreparing ==
  ASSUME TypeOK, Tokens, NEW w \in Workers, Ensure(w) \/ Bearer(w) \/ Renew(w)
  PROVE  Tokens'
<1>0. /\ run \in [Workers -> Locals] /\ run[w] \in Locals /\ TokensOf(w) /\ Of(w) \in Accounts
      /\ bearer \in [Accounts -> Nat] /\ minted \in Nat
      /\ bearer[Of(w)] <= minted
  BY DEF TypeOK, Locals, Places, Tokens
<1>1. TokenStep
  BY <1>0 DEF Ensure, Bearer, Renew, TokenStep
<1>2. \A v \in Workers : v # w => run'[v] = run[v]
  BY <1>0, PreparingMoves
<1>3. TokensOf(w)'
  <2>0. CASE run' = [run EXCEPT ![w] = Ends(w, "error")]
    <3>1. Ends(w, "error").at = "record"
      BY <1>0, EndsFields DEF Result
    <3> QED BY <1>0, <2>0, <3>1 DEF TokensOf
  <2>1. CASE /\ run[w].at = "session" /\ UNCHANGED <<bearer, minted>>
             /\ run' = [run EXCEPT ![w] = [run[w] EXCEPT !.at = "bearer"]]
    <3>1. run'[w].at = "bearer" /\ run'[w].retried = run[w].retried
      BY <1>0, <2>1 DEF Locals
    <3> QED BY <1>0, <2>1, <3>1 DEF TokensOf
  <2>2. CASE Bearer(w) /\ run' # [run EXCEPT ![w] = Ends(w, "error")]
    <3>1. PICK b \in Nat :
            /\ run' = [run EXCEPT ![w] = [run[w] EXCEPT !.at = "list", !.bearer = b]]
            /\ \/ b = bearer[Of(w)] /\ b # 0 /\ UNCHANGED minted
               \/ b = minted + 1 /\ minted' = minted + 1
      <4>1. CASE /\ bearer[Of(w)] # 0 /\ UNCHANGED minted
                 /\ run' = [run EXCEPT ![w] = [run[w] EXCEPT !.at = "list", !.bearer = bearer[Of(w)]]]
        <5>1. bearer[Of(w)] \in Nat
          BY <1>0
        <5> HIDE DEF Of, Workers
        <5> QED BY <4>1, <5>1
      <4>2. CASE /\ minted' = minted + 1
                 /\ run' = [run EXCEPT ![w] = [run[w] EXCEPT !.at = "list", !.bearer = minted + 1]]
        <5>1. minted + 1 \in Nat
          BY <1>0
        <5> HIDE DEF Of, Workers
        <5> QED BY <4>2, <5>1
      <4> QED BY <2>2, <4>1, <4>2 DEF Bearer, Step
    <3>2. /\ run'[w].at = "list" /\ run'[w].bearer = b
          /\ run'[w].rejected = run[w].rejected /\ run'[w].retried = run[w].retried
          /\ run[w].rejected \in Nat /\ run[w].at = "bearer"
      BY <1>0, <2>2, <3>1 DEF Locals, Bearer, Step
    <3>3. run[w].retried => run[w].rejected <= minted
                             /\ (bearer[Of(w)] = 0 \/ bearer[Of(w)] > run[w].rejected)
      BY <1>0, <3>2 DEF TokensOf
    <3>4. b <= minted' /\ (run[w].retried => b > run[w].rejected)
      BY <1>0, <3>1, <3>2, <3>3
    <3> QED BY <3>2, <3>4 DEF TokensOf
  <2>3. CASE /\ run[w].at = "renew"
             /\ run' = [run EXCEPT ![w] = [Idle EXCEPT !.at = "bearer", !.rejected = run[w].rejected, !.retried = TRUE]]
             /\ bearer' = [bearer EXCEPT ![Of(w)] = 0] /\ UNCHANGED minted
    <3>1. run'[w].at = "bearer" /\ run'[w].rejected = run[w].rejected /\ bearer'[Of(w)] = 0
      BY <1>0, <2>3 DEF Idle
    <3> QED BY <1>0, <2>3, <3>1 DEF TokensOf
  <2> QED BY <2>0, <2>1, <2>2, <2>3 DEF Ensure, Renew, Step
<1> HIDE DEF Workers, Of
<1> QED BY <1>1, <1>2, <1>3, TokensFrame DEF Tokens

\* From the list to the last campaign one token is presented.
LEMMA TokensClaiming ==
  ASSUME TypeOK, Tokens, NEW w \in Workers,
         List(w) \/ Relist(w) \/ Record(w) \/ Release(w) \/ \E c \in Campaigns : Claim(w, c)
  PROVE  Tokens'
<1>0. run \in [Workers -> Locals] /\ run[w] \in Locals /\ TokensOf(w)
  BY DEF TypeOK, Locals, Places, Tokens
<1>1. UNCHANGED <<bearer, minted>>
  BY DEF List, Relist, Record, Release, Claim
<1>2. PICK r \in Locals :
        /\ run' = [run EXCEPT ![w] = r]
        /\ \/ r.at \in {"record", "release", "idle"}
           \/ r.at = "renew" /\ r.rejected = run[w].bearer /\ run[w].at \in {"list", "claim", "relist"}
           \/ /\ r.at \in {"claim", "relist"} /\ run[w].at \in {"list", "claim", "relist"}
              /\ r.bearer = run[w].bearer /\ r.rejected = run[w].rejected
              /\ r.retried = run[w].retried
  <2>1. CASE List(w)
    BY <2>1, ListMoves DEF List, Step
  <2>2. CASE Relist(w)
    <3>1. run[w].at = "relist"
      BY <2>2 DEF Relist
    <3> QED BY <2>2, <3>1, RelistMoves DEF AfterClaim
  <2>3. CASE Record(w) \/ Release(w)
    BY <2>3, EndingMoves
  <2>4. CASE \E c \in Campaigns : Claim(w, c)
    <3>1. PICK c \in Campaigns : Claim(w, c)
      BY <2>4
    <3>2. run[w].at = "claim"
      BY <3>1 DEF Claim
    <3>3. PICK r \in Locals :
            /\ run' = [run EXCEPT ![w] = r]
            /\ \/ AfterClaim(w, c, r)
               \/ /\ r.at = "relist"
                  /\ r.bearer = run[w].bearer /\ r.rejected = run[w].rejected
                  /\ r.retried = run[w].retried
      BY <3>1, ClaimMoves
    <3>4. \/ r.at = "record"
          \/ /\ r.at \in {"claim", "relist"}
             /\ r.bearer = run[w].bearer /\ r.rejected = run[w].rejected
             /\ r.retried = run[w].retried
      BY <3>3 DEF AfterClaim
    <3> QED BY <3>2, <3>3, <3>4
  <2> QED BY <2>1, <2>2, <2>3, <2>4
<1>3. /\ run'[w] = r
      /\ \A v \in Workers : v # w => run'[v] = run[v]
  BY <1>0, <1>2
<1>4. TokensOf(w)'
  BY <1>0, <1>1, <1>2, <1>3 DEF TokensOf
<1> HIDE DEF Workers, Of
<1> QED BY <1>1, <1>3, <1>4, TokensFrame DEF Tokens, TokenStep

\* Every step keeps the tokens in order.
LEMMA TokensKept == TypeOK /\ Tokens /\ [Next]_vars => Tokens'
<1> SUFFICES ASSUME TypeOK, Tokens, [Next]_vars PROVE Tokens'
  OBVIOUS
<1>1. CASE \E w \in Workers : Work(w)
  BY <1>1, TokensPreparing, TokensClaiming DEF Work
<1>2. CASE \E w \in Workers : Acquire(w) /\ UNCHANGED <<bearer, minted>>
  BY <1>2, TokensAcquire
<1>3. CASE Restart
  <2>1. TokenStep
    BY <1>3 DEF Restart, TokenStep
  <2>2. \A w \in Workers : TokensOf(w)'
    BY <1>3 DEF Restart, Idle, TokensOf
  <2> HIDE DEF Workers, Of
  <2> QED BY <2>1, <2>2, TokensFrame DEF Tokens
<1>4. CASE UNCHANGED run /\ TokenStep
  <2> HIDE DEF Workers, Of
  <2> QED BY <1>4, TokensFrame DEF Tokens
<1> QED BY <1>1, <1>2, <1>3, <1>4 DEF Next, Scheduler, Clock, PassBegins, PassVisits, ManualBegins,
        ProbeMints, SlotPasses, RestOver, ConfirmPending, Midnight, vars, TokenStep

\* The one retry after a 401 presents a token minted after the rejected one, even
\* if other check-ins and quota probes share the cached token (checkin,
\* invalidateOpenAPIBearer, openAPIBearer).
THEOREM RetryFreshBearerHolds == Spec => []RetryFreshBearer
<1>1. Init => Tokens
  BY DEF Init, Tokens, TokensOf, Idle
<1>2. Tokens => RetryFreshBearer
  BY DEF Tokens, TokensOf, RetryFreshBearer
<1> QED BY <1>1, <1>2, TokensKept, TypeCorrect, PTL DEF Spec

-------------------------------------------------------------------------------
(* Claims and records.                                                     *)

\* What a check-in that is claiming may rely on: what it listed as untouched and
\* has not claimed nobody has; and if it listed today, then all that is left to
\* claim is its own to do, so that no record of today says otherwise.
Claims(w) ==
  /\ run[w].day # 0
  /\ run[w].at = "claim" => run[w].claiming = {}
  /\ run[w].at = "relist" => \E c \in run[w].todo : run[w].claiming = {c}
  /\ \A c \in (run[w].todo \cap run[w].sure) \ run[w].claiming :
       campaign[Of(w)][c] \in {"open", "none"}
  /\ run[w].day = day =>
       /\ \A c \in Campaigns \ run[w].todo : campaign[Of(w)][c] \notin {"open", "pending"}
       /\ last[Of(w)].day = day /\ ~crossed[Of(w)] => last[Of(w)].status = "error"

\* What its outcome tells, if it listed today.
Outcome(w) ==
  /\ run[w].day = 0 => run[w].result = "error"
  /\ run[w].day = day =>
       /\ run[w].result # "error" => Listed(Of(w), {"open", "pending"}) = {}
       /\ run[w].result \in {"success", "already"} => Listed(Of(w), {"claimed"}) # {}

\* What is known of a worker: when it listed, after the last record; and, by where
\* it stands, what it claims or is about to record.
Known(w) ==
  /\ run[w].day <= day
  /\ run[w].at = "idle" => run[w].day = 0
  /\ run[w].day # 0 => last[Of(w)].day <= run[w].day
  /\ run[w].at \in {"session", "bearer", "list"} => run[w].claiming = {}
  /\ run[w].at \in {"claim", "relist"} => Claims(w)
  /\ run[w].at = "record" => Outcome(w)

\* A record of today is true of the gateway.
Truthful(a) ==
  last[a].day = day /\ ~crossed[a] =>
    /\ last[a].status # "error" => Listed(a, {"open", "pending"}) = {}
    /\ last[a].status \in {"success", "already"} => Listed(a, {"claimed"}) # {}

Recorded == \A a \in Accounts : last[a].day <= day /\ Truthful(a)

ClaimsInv == day \in Nat \ {0} /\ (\A w \in Workers : Known(w)) /\ Recorded

\* What is known of a worker, and of an account's record, rests on nothing but the
\* account, the day and the worker itself; of an idle worker, on nothing.
LEMMA KnownFrame ==
  ASSUME TypeOK, UNCHANGED day
  PROVE  /\ \A w \in Workers :
              /\ Known(w) /\ run'[w] = run[w]
              /\ last'[Of(w)].day = last[Of(w)].day /\ last'[Of(w)].status = last[Of(w)].status
              /\ crossed'[Of(w)] = crossed[Of(w)] /\ campaign'[Of(w)] = campaign[Of(w)]
              => Known(w)'
         /\ \A w \in Workers : Known(w) /\ run'[w] = run[w] /\ run[w].at = "idle" => Known(w)'
         /\ \A a \in Accounts :
              /\ Truthful(a)
              /\ last'[a].day = last[a].day /\ last'[a].status = last[a].status
              /\ crossed'[a] = crossed[a] /\ campaign'[a] = campaign[a]
              => Truthful(a)'
<1> HIDE DEF Workers, Of
<1>1. ASSUME NEW w \in Workers, Known(w), run'[w] = run[w],
             last'[Of(w)].day = last[Of(w)].day, last'[Of(w)].status = last[Of(w)].status,
             crossed'[Of(w)] = crossed[Of(w)],
             campaign'[Of(w)] = campaign[Of(w)]
      PROVE  Known(w)'
  BY <1>1 DEF Known, Claims, Outcome, Listed
<1>2. ASSUME NEW w \in Workers, Known(w), run'[w] = run[w], run[w].at = "idle"
      PROVE  Known(w)'
  BY <1>2 DEF Known
<1>3. ASSUME NEW a \in Accounts, Truthful(a),
             last'[a].day = last[a].day, last'[a].status = last[a].status,
             crossed'[a] = crossed[a], campaign'[a] = campaign[a]
      PROVE  Truthful(a)'
  BY <1>3 DEF Truthful, Listed
<1> QED BY <1>1, <1>2, <1>3

\* A worker's step concerns its own account only, of which no other is at work.
LEMMA OneAtWork ==
  ASSUME TypeOK, Exclusive, ClaimsInv, NEW w \in Workers, NEW r \in Locals,
         run' = [run EXCEPT ![w] = r], run[w].at # "idle", UNCHANGED day,
         \A a \in Accounts \ {Of(w)} : /\ last'[a] = last[a] /\ crossed'[a] = crossed[a]
                                       /\ campaign'[a] = campaign[a],
         run'[w] = r => Known(w)', last'[Of(w)].day <= day /\ Truthful(Of(w))'
  PROVE  ClaimsInv'
<1>0. run \in [Workers -> Locals]
  BY DEF TypeOK, Locals, Places
<1>1. ASSUME NEW v \in Workers PROVE Known(v)'
  <2>1. CASE v = w
    BY <1>0, <2>1
  <2>2. CASE v # w
    <3>1. run'[v] = run[v] /\ Known(v)
      BY <1>0, <2>2 DEF ClaimsInv
    <3>2. CASE Of(v) = Of(w)
      <4>1. run[v].at = "idle"
        BY <2>2, <3>2 DEF Exclusive
      <4> HIDE DEF Workers, Of
      <4> QED BY <3>1, <4>1, KnownFrame
    <3>3. CASE Of(v) # Of(w)
      <4>1. Of(v) \in Accounts \ {Of(w)}
        BY <3>3
      <4> HIDE DEF Workers, Of
      <4> QED BY <3>1, <4>1, KnownFrame
    <3> QED BY <3>2, <3>3
  <2> QED BY <2>1, <2>2
<1>2. ASSUME NEW a \in Accounts PROVE last'[a].day <= day' /\ Truthful(a)'
  <2>1. CASE a = Of(w)
    BY <2>1
  <2>2. CASE a # Of(w)
    <3> HIDE DEF Workers, Of
    <3> QED BY <2>2, KnownFrame DEF ClaimsInv, Recorded
  <2> QED BY <2>1, <2>2
<1> HIDE DEF Workers, Of
<1> QED BY <1>1, <1>2 DEF ClaimsInv, Recorded

\* What stays as it was when a step leaves the gateway, the day and the records alone.
LEMMA QuietStep ==
  ASSUME TypeOK, ClaimsInv, NEW w \in Workers, UNCHANGED <<campaign, day, last, crossed>>
  PROVE  /\ \A a \in Accounts \ {Of(w)} : /\ last'[a] = last[a] /\ crossed'[a] = crossed[a]
                                          /\ campaign'[a] = campaign[a]
         /\ last'[Of(w)].day <= day /\ Truthful(Of(w))'
<1>1. Of(w) \in Accounts
  OBVIOUS
<1> HIDE DEF Workers, Of
<1> QED BY <1>1, KnownFrame DEF ClaimsInv, Recorded

\* Getting ready for the list learns nothing and claims nothing.
LEMMA ClaimsPreparing ==
  ASSUME TypeOK, Exclusive, ClaimsInv, NEW w \in Workers, Ensure(w) \/ Bearer(w) \/ Renew(w)
  PROVE  ClaimsInv'
<1>0. Known(w) /\ day \in Nat \ {0} /\ run \in [Workers -> Locals] /\ run[w] \in Locals
  BY DEF ClaimsInv, TypeOK, Locals, Places
<1>1. UNCHANGED <<campaign, day, last, crossed>> /\ run[w].at # "idle"
  BY DEF Ensure, Bearer, Renew, Step
<1>2. PICK r \in Locals :
        /\ run' = [run EXCEPT ![w] = r]
        /\ \/ r.at = "record" /\ r.result = "error" /\ r.day = run[w].day
           \/ /\ run[w].at \in {"session", "renew"} /\ r.at = "bearer"
              /\ r.day \in {0, run[w].day} /\ r.claiming \in {{}, run[w].claiming}
              /\ run[w].at = "renew" => r.claiming = {}
           \/ /\ run[w].at = "bearer" /\ r.at = "list"
              /\ r.day = run[w].day /\ r.claiming = run[w].claiming
  BY PreparingMoves
<1>3. r.day \in {0, run[w].day} /\ r.day \in Nat /\ r.at # "idle"
  BY <1>2 DEF Locals
<1>4. r.at \in {"session", "bearer", "list"} => r.claiming = {}
  BY <1>0, <1>2 DEF Known
<1>5. r.at \notin {"claim", "relist"} /\ (r.at = "record" => r.result = "error")
  BY <1>2
<1>6. ASSUME run'[w] = r PROVE Known(w)'
  <2> HIDE DEF Workers, Of
  <2> QED BY <1>0, <1>1, <1>3, <1>4, <1>5, <1>6 DEF Known, Outcome
<1> HIDE DEF Workers, Of
<1> QED BY <1>1, <1>2, <1>6, QuietStep, OneAtWork

\* A list of today finds something to claim only if no true record of today says
\* that it is done.
LEMMA ClaimsList ==
  ASSUME TypeOK, Exclusive, ClaimsInv, NEW w \in Workers, List(w)
  PROVE  ClaimsInv'
<1> DEFINE a == Of(w)
<1>0. /\ Known(w) /\ day \in Nat \ {0} /\ a \in Accounts /\ last[a].day \in Nat
      /\ run[w] \in Locals /\ Truthful(a) /\ last[a].day <= day
  BY DEF ClaimsInv, Recorded, TypeOK, Locals, Places
<1>1. UNCHANGED <<campaign, day, last, crossed>> /\ run[w].at = "list" /\ run[w].claiming = {}
  BY <1>0 DEF List, Step, Known
<1>2. PICK r \in Locals :
        /\ run' = [run EXCEPT ![w] = r]
        /\ \/ /\ r.at = "claim" /\ r.day = day
              /\ r.todo = Listed(a, {"open", "pending"}) /\ r.todo # {}
              /\ r.sure = Listed(a, {"open"})
              /\ r.claiming = run[w].claiming
           \/ /\ r.at = "record" /\ r.day = day
              /\ Listed(a, {"open", "pending"}) = {}
              /\ r.result = IF Listed(a, {"claimed"}) # {} THEN "already" ELSE "skipped"
           \/ /\ r.at = "record" /\ r.result = "error" /\ r.day = run[w].day
           \/ /\ r.at = "renew" /\ r.day = run[w].day
  BY ListMoves
<1>3. ASSUME run'[w] = r PROVE Known(w)'
  <2>1. CASE /\ r.at = "claim" /\ r.day = day
             /\ r.todo = Listed(a, {"open", "pending"}) /\ r.todo # {}
             /\ r.sure = Listed(a, {"open"}) /\ r.claiming = {}
    <3>1. \A c \in (r.todo \cap r.sure) \ r.claiming : campaign[a][c] \in {"open", "none"}
      BY <2>1 DEF Listed
    <3>2. \A c \in Campaigns \ r.todo : campaign[a][c] \notin {"open", "pending"}
      BY <2>1 DEF Listed
    <3>3. last[a].day = day /\ ~crossed[a] => last[a].status = "error"
      BY <1>0, <2>1 DEF Truthful
    <3> HIDE DEF Workers, Of
    <3> QED BY <1>0, <1>1, <1>3, <2>1, <3>1, <3>2, <3>3 DEF Known, Claims
  <2>2. CASE /\ r.at = "record" /\ r.day = day
             /\ Listed(a, {"open", "pending"}) = {}
             /\ r.result = IF Listed(a, {"claimed"}) # {} THEN "already" ELSE "skipped"
    <3> HIDE DEF Workers, Of
    <3> QED BY <1>0, <1>1, <1>3, <2>2 DEF Known, Outcome, Listed
  <2>3. CASE r.day = run[w].day /\ (r.at = "renew" \/ (r.at = "record" /\ r.result = "error"))
    <3> HIDE DEF Workers, Of
    <3> QED BY <1>0, <1>1, <1>3, <2>3 DEF Known, Outcome
  <2> QED BY <1>1, <1>2, <2>1, <2>2, <2>3
<1> HIDE DEF Workers, Of
<1> QED BY <1>1, <1>2, <1>3, QuietStep, OneAtWork

\* Going on after campaign c, which is claimed by now: none other has changed, so
\* the rest is as listed, and with nothing left the day is done.
LEMMA AfterClaimKnown ==
  ASSUME TypeOK, ClaimsInv, NEW w \in Workers, run[w].at \in {"claim", "relist"},
         NEW c \in run[w].todo, NEW r \in Locals, AfterClaim(w, c, r), run'[w] = r,
         run[w].claiming \in {{}, {c}}, UNCHANGED <<day, last, crossed>>,
         campaign'[Of(w)][c] = "claimed",
         \A k \in Campaigns \ {c} : campaign'[Of(w)][k] = campaign[Of(w)][k]
  PROVE  Known(w)'
<1> DEFINE a == Of(w)
<1>0. /\ Known(w) /\ Claims(w) /\ day \in Nat \ {0} /\ run[w] \in Locals /\ last[a].day \in Nat
      /\ c \in Campaigns
  BY DEF ClaimsInv, Known, TypeOK, Locals, Places
<1>1. run[w].day = day => \A k \in Campaigns \ run[w].todo : campaign[a][k] \notin {"open", "pending"}
  BY <1>0 DEF Claims
<1>2. CASE /\ run[w].todo \subseteq {c}
           /\ r.at = "record" /\ r.result \in {"success", "already"}
  <2>1. r.day = day => /\ \A k \in Campaigns : campaign'[a][k] \notin {"open", "pending"}
                       /\ campaign'[a][c] = "claimed"
    BY <1>0, <1>1, <1>2 DEF AfterClaim
  <2>2. Outcome(w)'
    BY <1>0, <1>2, <2>1 DEF Outcome, Listed, Claims, AfterClaim
  <2> HIDE DEF Workers, Of
  <2> QED BY <1>0, <1>2, <2>2 DEF Known, AfterClaim
<1>3. CASE /\ r.at = "claim" /\ r.claiming = {}
           /\ r.todo = run[w].todo \ {c} /\ r.sure = run[w].sure
  <2>1. \A k \in (r.todo \cap r.sure) \ r.claiming : campaign'[a][k] \in {"open", "none"}
    BY <1>0, <1>3 DEF Claims, Locals
  <2>2. r.day = day => \A k \in Campaigns \ r.todo : campaign'[a][k] \notin {"open", "pending"}
    BY <1>0, <1>1, <1>3 DEF AfterClaim
  <2>3. r.day = day => (last[a].day = day /\ ~crossed[a] => last[a].status = "error")
    BY <1>0 DEF Claims, AfterClaim
  <2>4. Claims(w)'
    BY <1>0, <1>3, <2>1, <2>2, <2>3 DEF Claims, AfterClaim
  <2> HIDE DEF Workers, Of
  <2> QED BY <1>0, <1>3, <2>4 DEF Known, AfterClaim
<1> QED BY <1>2, <1>3 DEF AfterClaim

\* A claim concerns one campaign of those left. No record of today, made by an
\* uncrossed run, says that there are none: the check-in that claims is the only one.
LEMMA ClaimsClaim ==
  ASSUME TypeOK, Exclusive, ClaimsInv, NEW w \in Workers, NEW c \in Campaigns, Claim(w, c)
  PROVE  ClaimsInv'
<1> DEFINE a == Of(w)
<1>0. /\ Known(w) /\ Claims(w) /\ day \in Nat \ {0} /\ a \in Accounts /\ last[a].day \in Nat
      /\ run[w] \in Locals /\ last[a].day <= day
      /\ campaign \in [Accounts -> [Campaigns -> Status]]
  BY DEF ClaimsInv, Recorded, TypeOK, Locals, Places, Known, Claim
<1>1. UNCHANGED <<day, last, crossed>> /\ run[w].at = "claim" /\ c \in run[w].todo /\ run[w].claiming = {}
  BY <1>0 DEF Claim, Claims
<1>2. PICK r \in Locals :
        /\ run' = [run EXCEPT ![w] = r]
        /\ \/ AfterClaim(w, c, r) /\ campaign' = [campaign EXCEPT ![a][c] = "claimed"]
           \/ /\ r.at = "relist" /\ r.claiming = {c} /\ r.day = run[w].day
              /\ r.todo = run[w].todo /\ r.sure = run[w].sure
              /\ \/ UNCHANGED campaign
                 \/ \E s \in {"claimed", "pending"} : campaign' = [campaign EXCEPT ![a][c] = s]
  <2>1. PICK r \in Locals :
          /\ run' = [run EXCEPT ![w] = r]
          /\ \/ AfterClaim(w, c, r) /\ campaign' = [campaign EXCEPT ![Of(w)][c] = "claimed"]
             \/ /\ r.at = "relist" /\ r.claiming = {c} /\ r.day = run[w].day
                /\ r.todo = run[w].todo /\ r.sure = run[w].sure
                /\ r.bearer = run[w].bearer /\ r.rejected = run[w].rejected
                /\ r.retried = run[w].retried
                /\ \/ UNCHANGED campaign
                   \/ \E s \in {"claimed", "pending"} : campaign' = [campaign EXCEPT ![Of(w)][c] = s]
    BY ClaimMoves
  <2> HIDE DEF Workers, Of
  <2>2. CASE AfterClaim(w, c, r) /\ campaign' = [campaign EXCEPT ![a][c] = "claimed"]
    BY <2>1, <2>2
  <2>3. CASE /\ r.at = "relist" /\ r.claiming = {c} /\ r.day = run[w].day
             /\ r.todo = run[w].todo /\ r.sure = run[w].sure
             /\ \/ UNCHANGED campaign
                \/ \E s \in {"claimed", "pending"} : campaign' = [campaign EXCEPT ![a][c] = s]
    BY <2>1, <2>3
  <2> QED BY <2>1, <2>2, <2>3
<1>3. \/ UNCHANGED campaign
      \/ \E s \in {"claimed", "pending"} : campaign' = [campaign EXCEPT ![a][c] = s]
  BY <1>2
<1>4. /\ \A b \in Accounts \ {a} : campaign'[b] = campaign[b]
      /\ \A k \in Campaigns \ {c} : campaign'[a][k] = campaign[a][k]
  BY <1>0, <1>3
<1>5. last'[a].day <= day /\ Truthful(a)'
  <2>1. last[a].day = day /\ ~crossed[a] => last[a].status = "error"
    BY <1>0 DEF Known, Claims, Locals
  <2> HIDE DEF a
  <2> QED BY <1>0, <1>1, <2>1 DEF Truthful
<1>6. ASSUME run'[w] = r PROVE Known(w)'
  <2>1. CASE AfterClaim(w, c, r) /\ campaign' = [campaign EXCEPT ![a][c] = "claimed"]
    <3>1. campaign'[a][c] = "claimed"
      BY <1>0, <2>1
    <3> HIDE DEF Workers, Of
    <3> QED BY <1>1, <1>4, <1>6, <2>1, <3>1, AfterClaimKnown
  <2>2. CASE /\ r.at = "relist" /\ r.claiming = {c} /\ r.day = run[w].day
             /\ r.todo = run[w].todo /\ r.sure = run[w].sure
    <3>1. \A k \in (r.todo \cap r.sure) \ r.claiming : campaign'[a][k] \in {"open", "none"}
      BY <1>0, <1>1, <1>4, <2>2 DEF Claims, Locals
    <3>2. r.day = day => \A k \in Campaigns \ r.todo : campaign'[a][k] \notin {"open", "pending"}
      BY <1>0, <1>1, <1>4, <2>2 DEF Claims
    <3>3. Claims(w)'
      BY <1>0, <1>1, <1>6, <2>2, <3>1, <3>2 DEF Claims
    <3> HIDE DEF Workers, Of
    <3> QED BY <1>0, <1>1, <1>6, <2>2, <3>3 DEF Known
  <2> QED BY <1>2, <2>1, <2>2
<1> HIDE DEF Workers, Of
<1> QED BY <1>1, <1>2, <1>4, <1>5, <1>6, OneAtWork

\* Looking a campaign up again: if it is claimed, the check-in goes on without it.
LEMMA ClaimsRelist ==
  ASSUME TypeOK, Exclusive, ClaimsInv, NEW w \in Workers, Relist(w)
  PROVE  ClaimsInv'
<1> DEFINE a == Of(w)
<1>0. /\ Known(w) /\ Claims(w) /\ day \in Nat \ {0} /\ run[w] \in Locals
  BY DEF ClaimsInv, TypeOK, Locals, Places, Known, Relist
<1>1. UNCHANGED <<campaign, day, last, crossed>> /\ run[w].at = "relist"
  BY DEF Relist, Step
<1>2. PICK c \in run[w].claiming, r \in Locals :
        /\ run' = [run EXCEPT ![w] = r]
        /\ \/ AfterClaim(w, c, r) /\ campaign[a][c] = "claimed"
           \/ r.at = "record" /\ r.result = "error" /\ r.day = run[w].day
           \/ r.at = "renew" /\ r.day = run[w].day
  BY RelistMoves
<1>3. c \in run[w].todo /\ run[w].claiming = {c}
  BY <1>0, <1>1, <1>2 DEF Claims
<1>4. ASSUME run'[w] = r PROVE Known(w)'
  <2>1. CASE AfterClaim(w, c, r) /\ campaign[a][c] = "claimed"
    <3> HIDE DEF Workers, Of
    <3> QED BY <1>1, <1>3, <1>4, <2>1, AfterClaimKnown
  <2>2. CASE r.day = run[w].day /\ (r.at = "renew" \/ (r.at = "record" /\ r.result = "error"))
    <3> HIDE DEF Workers, Of
    <3> QED BY <1>0, <1>1, <1>4, <2>2 DEF Known, Outcome, Claims
  <2> QED BY <1>2, <2>1, <2>2
<1> HIDE DEF Workers, Of
<1> QED BY <1>1, <1>2, <1>4, QuietStep, OneAtWork

\* The record of a run that listed today, or never listed, is true; one of a run that
\* listed on an earlier day is marked as crossed.
LEMMA ClaimsEnding ==
  ASSUME TypeOK, Exclusive, ClaimsInv, NEW w \in Workers, Record(w) \/ Release(w)
  PROVE  ClaimsInv'
<1> DEFINE a == Of(w)
<1>0. /\ Known(w) /\ day \in Nat \ {0} /\ a \in Accounts /\ run[w] \in Locals
      /\ last \in [Accounts -> [day : Nat, status : Result, rested : BOOLEAN]]
      /\ crossed \in [Accounts -> BOOLEAN]
  BY DEF ClaimsInv, TypeOK, Locals, Places
<1>1. UNCHANGED <<campaign, day>> /\ run[w].at # "idle"
  BY DEF Record, Release, Step
<1>2. PICK r \in Locals : /\ run' = [run EXCEPT ![w] = r]
                          /\ r.at = (IF run[w].at = "record" THEN "release" ELSE "idle")
                          /\ r.day = 0
  BY EndingMoves
<1>3. ASSUME run'[w] = r PROVE Known(w)'
  <2> HIDE DEF Workers, Of
  <2> QED BY <1>0, <1>1, <1>2, <1>3 DEF Known
<1>4. CASE Record(w)
  <2>1. /\ last'[a].day = day /\ last'[a].status = run[w].result
        /\ crossed'[a] = (run[w].day \notin {0, day})
        /\ \A b \in Accounts \ {a} : last'[b] = last[b] /\ crossed'[b] = crossed[b]
        /\ run[w].at = "record"
    BY <1>0, <1>4 DEF Record, Step
  <2>2. Truthful(a)'
    BY <1>0, <1>1, <2>1 DEF Truthful, Known, Outcome, Listed
  <2>3. \A b \in Accounts \ {a} : /\ last'[b] = last[b] /\ crossed'[b] = crossed[b]
                                  /\ campaign'[b] = campaign[b]
    BY <1>1, <2>1
  <2>4. last'[a].day <= day
    BY <1>0, <2>1
  <2> HIDE DEF Workers, Of
  <2> QED BY <1>1, <1>2, <1>3, <2>2, <2>3, <2>4, OneAtWork
<1>5. CASE Release(w)
  <2>1. UNCHANGED <<campaign, day, last, crossed>>
    BY <1>5 DEF Release
  <2> HIDE DEF Workers, Of
  <2> QED BY <1>1, <1>2, <1>3, <2>1, QuietStep, OneAtWork
<1> QED BY <1>4, <1>5

\* A check-in that starts knows nothing yet.
LEMMA ClaimsAcquire ==
  ASSUME TypeOK, ClaimsInv, NEW w \in Workers, Acquire(w), UNCHANGED <<campaign, day, last, crossed>>
  PROVE  ClaimsInv'
<1>1. PICK r \in Locals : /\ run' = [run EXCEPT ![w] = r]
                          /\ r.at = "session" /\ r.day = 0 /\ r.claiming = {}
  BY AcquireMoves
<1>2. run \in [Workers -> Locals] /\ day \in Nat \ {0}
  BY DEF TypeOK, Locals, Places, ClaimsInv
<1>3. run'[w] = r /\ \A v \in Workers : v # w => run'[v] = run[v]
  BY <1>1, <1>2
<1> HIDE DEF Workers, Of
<1>4. Known(w)'
  BY <1>1, <1>2, <1>3 DEF Known
<1>5. \A v \in Workers : v # w => Known(v)'
  BY <1>3, KnownFrame DEF ClaimsInv
<1>6. Recorded'
  BY KnownFrame DEF ClaimsInv, Recorded
<1> QED BY <1>2, <1>4, <1>5, <1>6 DEF ClaimsInv

\* A claim that the gateway confirms late was not untouched; it makes no record untrue.
LEMMA ClaimsConfirm ==
  ASSUME TypeOK, ClaimsInv, NEW a \in Accounts, NEW c \in Campaigns, ConfirmPending(a, c)
  PROVE  ClaimsInv'
<1>0. campaign \in [Accounts -> [Campaigns -> Status]] /\ day \in Nat \ {0}
  BY DEF TypeOK, ClaimsInv
<1>1. /\ UNCHANGED <<day, last, crossed, run>> /\ campaign[a][c] = "pending"
      /\ campaign'[a][c] = "claimed"
      /\ \A k \in Campaigns \ {c} : campaign'[a][k] = campaign[a][k]
      /\ \A b \in Accounts \ {a} : campaign'[b] = campaign[b]
  BY <1>0 DEF ConfirmPending
<1>2. /\ Listed(a, {"open", "pending"})' \subseteq Listed(a, {"open", "pending"})
      /\ Listed(a, {"claimed"}) \subseteq Listed(a, {"claimed"})'
  BY <1>1 DEF Listed
<1>3. ASSUME NEW w \in Workers PROVE Known(w)'
  <2>1. Known(w) /\ run[w] \in Locals /\ Of(w) \in Accounts
    BY DEF ClaimsInv, TypeOK, Locals, Places
  <2> HIDE DEF Workers, Of
  <2>2. CASE Of(w) # a
    BY <1>1, <2>1, <2>2, KnownFrame
  <2>3. CASE Of(w) = a
    <3>1. Claims(w) => Claims(w)'
      BY <1>1, <2>1, <2>3 DEF Claims, Locals
    <3>2. Outcome(w) => Outcome(w)'
      BY <1>1, <1>2, <2>3 DEF Outcome
    <3> QED BY <1>1, <2>1, <2>3, <3>1, <3>2 DEF Known
  <2> QED BY <2>2, <2>3
<1>4. ASSUME NEW b \in Accounts PROVE last'[b].day <= day' /\ Truthful(b)'
  <2>1. last[b].day <= day /\ Truthful(b)
    BY DEF ClaimsInv, Recorded
  <2>2. CASE b # a
    <3> HIDE DEF Workers, Of
    <3> QED BY <1>1, <2>1, <2>2, KnownFrame
  <2>3. CASE b = a
    BY <1>1, <1>2, <2>1, <2>3 DEF Truthful
  <2> QED BY <2>2, <2>3
<1> HIDE DEF Workers, Of
<1> QED BY <1>0, <1>1, <1>3, <1>4 DEF ClaimsInv, Recorded

\* At midnight every listing and every record becomes one of an earlier day, and
\* no campaign of the new day has been claimed.
LEMMA ClaimsMidnight ==
  ASSUME TypeOK, ClaimsInv, Midnight
  PROVE  ClaimsInv'
<1>0. day \in Nat \ {0} /\ day' = day + 1 /\ UNCHANGED <<last, run, crossed>>
  BY DEF ClaimsInv, Midnight
<1>1. \A a \in Accounts, c \in Campaigns : campaign'[a][c] \in {"open", "none"}
  BY DEF Midnight
<1>2. ASSUME NEW w \in Workers PROVE Known(w)'
  <2>1. Known(w) /\ run[w] \in Locals /\ Of(w) \in Accounts
    BY DEF ClaimsInv, TypeOK, Locals, Places
  <2>2. run[w].day \in Nat /\ run[w].todo \subseteq Campaigns /\ run[w].day # day' /\ run[w].day <= day'
    BY <1>0, <2>1 DEF Known, Locals
  <2> HIDE DEF Workers, Of
  <2>3. Claims(w) => Claims(w)'
    BY <1>0, <1>1, <2>1, <2>2 DEF Claims
  <2>4. Outcome(w) => Outcome(w)'
    BY <1>0, <2>2 DEF Outcome
  <2> QED BY <1>0, <2>1, <2>2, <2>3, <2>4 DEF Known
<1>3. ASSUME NEW a \in Accounts PROVE last'[a].day <= day' /\ Truthful(a)'
  <2>1. last[a].day <= day /\ last[a].day \in Nat
    BY DEF ClaimsInv, Recorded, TypeOK
  <2> QED BY <1>0, <2>1 DEF Truthful
<1> HIDE DEF Workers, Of
<1> QED BY <1>0, <1>2, <1>3 DEF ClaimsInv, Recorded

\* A restart forgets the check-ins in flight and keeps the records.
LEMMA ClaimsRestart ==
  ASSUME TypeOK, ClaimsInv, Restart
  PROVE  ClaimsInv'
<1>1. UNCHANGED <<campaign, day, last, crossed>> /\ day \in Nat \ {0}
  BY DEF Restart, ClaimsInv
<1>2. \A w \in Workers : run'[w].at = "idle" /\ run'[w].day = 0
  BY DEF Restart, Idle
<1> HIDE DEF Workers, Of
<1>3. \A w \in Workers : Known(w)'
  BY <1>1, <1>2 DEF Known
<1>4. Recorded'
  BY <1>1, KnownFrame DEF ClaimsInv, Recorded
<1> QED BY <1>1, <1>3, <1>4 DEF ClaimsInv

\* Steps that change no more of a record than its age.
LEMMA ClaimsQuiet ==
  ASSUME TypeOK, ClaimsInv, UNCHANGED <<campaign, day, crossed, run>>,
         \A a \in Accounts : last'[a].day = last[a].day /\ last'[a].status = last[a].status
  PROVE  ClaimsInv'
<1>1. \A w \in Workers : Of(w) \in Accounts
  OBVIOUS
<1> HIDE DEF Workers, Of
<1>2. \A w \in Workers : Known(w)'
  BY <1>1, KnownFrame DEF ClaimsInv
<1>3. Recorded'
  BY KnownFrame DEF ClaimsInv, Recorded
<1> QED BY <1>2, <1>3 DEF ClaimsInv

\* Every step keeps what is known of the claims and the records.
LEMMA ClaimsKept == TypeOK /\ Exclusive /\ ClaimsInv /\ [Next]_vars => ClaimsInv'
<1> SUFFICES ASSUME TypeOK, Exclusive, ClaimsInv, [Next]_vars PROVE ClaimsInv'
  OBVIOUS
<1>1. CASE \E w \in Workers : Work(w)
  BY <1>1, ClaimsPreparing, ClaimsList, ClaimsClaim, ClaimsRelist, ClaimsEnding DEF Work
<1>2. CASE \E w \in Workers : Acquire(w) /\ UNCHANGED <<campaign, day, last, crossed>>
  BY <1>2, ClaimsAcquire
<1>3. CASE \E a \in Accounts, c \in Campaigns : ConfirmPending(a, c)
  BY <1>3, ClaimsConfirm
<1>4. CASE \E a \in Accounts : RestOver(a)
  <2>1. /\ UNCHANGED <<campaign, day, crossed, run>>
        /\ \A a \in Accounts : last'[a].day = last[a].day /\ last'[a].status = last[a].status
    BY <1>4 DEF RestOver, TypeOK
  <2> HIDE DEF Workers, Of
  <2> QED BY <2>1, ClaimsQuiet
<1>5. CASE UNCHANGED <<campaign, day, last, crossed, run>>
  BY <1>5, ClaimsQuiet
<1> QED BY <1>1, <1>2, <1>3, <1>4, <1>5, ClaimsMidnight, ClaimsRestart
        DEF Next, Scheduler, Clock, PassBegins, PassVisits, ManualBegins, ProbeMints, SlotPasses, vars

\* It holds in every reachable state.
LEMMA ClaimsInvHolds == Spec => []ClaimsInv
<1>1. Init => ClaimsInv
  BY DEF Init, ClaimsInv, Known, Recorded, Truthful, Idle, Never
<1> QED BY <1>1, ClaimsKept, TypeCorrect, ExclusiveHolds, PTL DEF Spec

\* A record of today is true of the gateway, whatever answers were lost, runs
\* retried, processes restarted and check-ins started beside one another (checkin,
\* CheckinWithBearer, RecordCheckin).
THEOREM RecordedIsTrueHolds == Spec => []RecordedIsTrue
<1>1. ClaimsInv => RecordedIsTrue
  BY DEF ClaimsInv, Recorded, Truthful, RecordedIsTrue
<1> QED BY <1>1, ClaimsInvHolds, PTL

\* No claim is sent for a campaign that is claimed and was listed as untouched: what
\* a check-in has listed is its own to claim until it ends (CheckinWithBearer).
THEOREM NoClaimTwiceHolds == Spec => []NoClaimTwice
<1>1. Init => NoClaimTwice
  BY DEF Init, NoClaimTwice
<1>2. ClaimsInv /\ NoClaimTwice /\ [Next]_vars => NoClaimTwice'
  <2> SUFFICES ASSUME ClaimsInv, NoClaimTwice, [Next]_vars PROVE NoClaimTwice'
    OBVIOUS
  <2>1. ASSUME NEW w \in Workers, NEW c \in Campaigns, Claim(w, c)
        PROVE  NoClaimTwice'
    <3>1. Claims(w) /\ run[w].at = "claim" /\ c \in run[w].todo
      BY <2>1 DEF Claim, ClaimsInv, Known
    <3>2. c \in run[w].sure => campaign[Of(w)][c] \in {"open", "none"}
      BY <3>1 DEF Claims
    <3>3. again' = (again \/ (campaign[Of(w)][c] = "claimed" /\ c \in run[w].sure))
      BY <2>1 DEF Claim
    <3> QED BY <3>2, <3>3 DEF NoClaimTwice
  <2>2. CASE UNCHANGED again
    BY <2>2 DEF NoClaimTwice
  <2>3. CASE \E w \in Workers : Work(w)
    BY <2>1, <2>2, <2>3 DEF Work, Ensure, Bearer, Renew, List, Relist, Record, Release
  <2> QED BY <2>2, <2>3 DEF Next, Scheduler, Clock, PassBegins, PassVisits, ManualBegins, ProbeMints,
          SlotPasses, RestOver, ConfirmPending, Midnight, Restart, vars
<1> QED BY <1>1, <1>2, ClaimsInvHolds, PTL DEF Spec
===============================================================================
