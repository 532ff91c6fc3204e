------------------------------- MODULE Checkin --------------------------------
(***************************************************************************)
(* The daily check-in: main.go's scheduler and the panel's manual trigger, *)
(* the bridge's check-in with its one retry (bridge/checkin.go), the claim *)
(* of the day's campaigns (auth/checkin.go) and the record of the outcome  *)
(* on the account (store/store.go). The gateway keeps the campaigns; its   *)
(* answers can be lost, and it may confirm a claim later.                  *)
(*                                                                         *)
(* A day is a number. The time of day is abstracted to whether an account's*)
(* slot has passed and whether its last failure is 30 minutes old. The     *)
(* session is Session's: here it can be ensured or renewed, or cannot.     *)
(***************************************************************************)
EXTENDS Integers, FiniteSets

CONSTANTS
  Accounts,    \* accounts with automatic check-in
  Campaigns,   \* daily credit campaigns of an account
  MaxDays,     \* bound on the days
  MaxFaults,   \* bound on the calls of the gateway that do not go well
  MaxManual,   \* bound on the manual check-ins
  MaxRestarts  \* bound on the restarts

ASSUME BoundAssumption ==
  MaxDays \in Nat /\ MaxFaults \in Nat /\ MaxManual \in Nat /\ MaxRestarts \in Nat

Workers == Accounts \X {"scheduled", "manual"}
Of(w) == w[1]

VARIABLES
  campaign,  \* campaign[a][c]: what the gateway knows of campaign c today
  day,       \* today
  reached,   \* accounts whose slot has passed today
  last,      \* last[a]: LastCheckinAt and LastCheckinStatus
  running,   \* provider.checkinRunning
  bearer,    \* bearer[a]: the cached OpenAPI token, 0 for none
  minted,    \* OpenAPI tokens minted
  sched,     \* the scheduler's pass: the accounts left and its copy of the pool
  run,       \* run[w]: where a check-in stands and its locals
  faults, manual, restarts,
  \* history, read by properties only
  again,     \* a claim was sent for a campaign claimed since it was listed as untouched
  crossed    \* crossed[a]: the last record is of a run that listed on an earlier day

boundVars == <<faults, manual, restarts>>
vars == <<campaign, day, reached, last, running, bearer, minted, sched, run, boundVars, again, crossed>>

\* A campaign not open today is "none"; one whose claim the gateway has accepted
\* and not confirmed yet is "pending", and still listed as claimable.
Status == {"none", "open", "pending", "claimed"}
Result == {"success", "already", "skipped", "error"}
Never == [day |-> 0, status |-> "error", rested |-> TRUE]
NoPass == [left |-> {}, day |-> 0, due |-> {}]
Idle == [at |-> "idle", bearer |-> 0, rejected |-> 0, retried |-> FALSE, todo |-> {}, sure |-> {}, claiming |-> {},
         confirmed |-> FALSE, unauthorized |-> FALSE, result |-> "error", day |-> 0]

Fault == faults < MaxFaults /\ faults' = faults + 1
NoFault == UNCHANGED faults

Init ==
  /\ campaign \in [Accounts -> {[c \in Campaigns |-> "open"]}]
  /\ day = 1 /\ reached = {}
  /\ last = [a \in Accounts |-> Never]
  /\ running = {}
  /\ bearer = [a \in Accounts |-> 0] /\ minted = 0
  /\ sched = NoPass
  /\ run = [w \in Workers |-> Idle]
  /\ faults = 0 /\ manual = 0 /\ restarts = 0
  /\ again = FALSE
  /\ crossed = [a \in Accounts |-> FALSE]

-------------------------------------------------------------------------------
(* Who starts a check-in                                                   *)

\* checkinDue: today's slot has passed and today has no result but an error
\* that is 30 minutes old.
Due(a) ==
  /\ a \in reached
  /\ last[a].day = day => last[a].status = "error" /\ last[a].rested

\* A pass of runScheduledCheckins reads a copy of the pool.
PassBegins ==
  /\ sched.left = {}
  /\ \E a \in Accounts : Due(a)
  /\ sched' = [left |-> Accounts, day |-> day, due |-> {a \in Accounts : Due(a)}]
  /\ UNCHANGED <<campaign, day, reached, last, running, bearer, minted, run, boundVars, again, crossed>>

\* Mutant: a check-in that runs does not keep another from starting.
AcquireAnyway(w) ==
  /\ running' = running \cup {Of(w)}
  /\ run[w].at = "idle"
  /\ run' = [run EXCEPT ![w] = [Idle EXCEPT !.at = "session"]]

\* tryAcquireCheckin
Acquire(w) ==
  /\ Of(w) \notin running
  /\ running' = running \cup {Of(w)}
  /\ run' = [run EXCEPT ![w] = [Idle EXCEPT !.at = "session"]]

\* The pass comes to account a of its copy and starts a goroutine for it, unless
\* it is not due or its check-in is running.
PassVisits(a) ==
  /\ a \in sched.left
  /\ sched' = [sched EXCEPT !.left = @ \ {a}]
  /\ \/ a \in sched.due /\ Acquire(<<a, "scheduled">>)
     \/ (a \notin sched.due \/ a \in running) /\ UNCHANGED <<running, run>>
  /\ UNCHANGED <<campaign, day, reached, last, bearer, minted, boundVars, again, crossed>>

\* The panel's check-in; one that cannot acquire is refused.
ManualBegins(a) ==
  /\ run[<<a, "manual">>].at = "idle"
  /\ manual < MaxManual /\ manual' = manual + 1
  /\ Acquire(<<a, "manual">>)
  /\ UNCHANGED <<campaign, day, reached, last, bearer, minted, sched, faults, restarts, again, crossed>>

-------------------------------------------------------------------------------
(* The bridge: session, bearer and the retry                               *)

Step(w, from, r) == run[w].at = from /\ run' = [run EXCEPT ![w] = r]
Ends(w, result) == [run[w] EXCEPT !.at = "record", !.result = result]

Ensure(w) ==
  /\ \/ Step(w, "session", [run[w] EXCEPT !.at = "bearer"]) /\ NoFault
     \/ Step(w, "session", Ends(w, "error")) /\ Fault
  /\ UNCHANGED <<campaign, day, reached, last, running, bearer, minted, sched, manual, restarts, again, crossed>>

\* openAPIBearer: the cached token, or one minted by refresh or exchange.
Bearer(w) ==
  LET a == Of(w) IN
  /\ \/ /\ bearer[a] # 0
        /\ Step(w, "bearer", [run[w] EXCEPT !.at = "list", !.bearer = bearer[a]])
        /\ NoFault /\ UNCHANGED <<bearer, minted>>
     \/ /\ bearer[a] = 0
        /\ minted' = minted + 1
        /\ bearer' = [bearer EXCEPT ![a] = minted + 1]
        /\ Step(w, "bearer", [run[w] EXCEPT !.at = "list", !.bearer = minted + 1])
        /\ NoFault
     \/ /\ bearer[a] = 0
        /\ Step(w, "bearer", Ends(w, "error"))
        /\ Fault /\ UNCHANGED <<bearer, minted>>
  /\ UNCHANGED <<campaign, day, reached, last, running, sched, manual, restarts, again, crossed>>

\* A global account's quota probe uses the same cached token.
ProbeMints(a) ==
  /\ bearer[a] = 0 /\ \E w \in Workers : Of(w) = a /\ run[w].at = "bearer"
  /\ minted' = minted + 1
  /\ bearer' = [bearer EXCEPT ![a] = minted + 1]
  /\ UNCHANGED <<campaign, day, reached, last, running, sched, run, boundVars, again, crossed>>

\* The claim procedure returned an error: a 401 is retried once with a renewed
\* session, anything else is the result.
Failed(w, unauthorized) ==
  IF unauthorized /\ ~run[w].retried
    THEN [run[w] EXCEPT !.at = "renew", !.rejected = run[w].bearer]
    ELSE Ends(w, "error")

\* Mutant: the rejected token stays in the cache.
RenewKeepingBearer(w) ==
  /\ \/ /\ Step(w, "renew", [Idle EXCEPT !.at = "bearer", !.rejected = run[w].rejected, !.retried = TRUE])
        /\ NoFault
     \/ Step(w, "renew", Ends(w, "error")) /\ Fault
  /\ UNCHANGED <<campaign, day, reached, last, running, bearer, minted, sched, manual, restarts, again, crossed>>

\* forceRefresh and invalidateOpenAPIBearer
Renew(w) ==
  LET a == Of(w) IN
  /\ \/ /\ Step(w, "renew", [Idle EXCEPT !.at = "bearer", !.rejected = run[w].rejected, !.retried = TRUE])
        /\ bearer' = [bearer EXCEPT ![a] = 0]
        /\ NoFault
     \/ Step(w, "renew", Ends(w, "error")) /\ Fault /\ UNCHANGED bearer
  /\ UNCHANGED <<campaign, day, reached, last, running, minted, sched, manual, restarts, again, crossed>>

-------------------------------------------------------------------------------
(* CheckinWithBearer                                                       *)

Listed(a, what) == {c \in Campaigns : campaign[a][c] \in what}

List(w) ==
  LET a == Of(w)
      claimable == Listed(a, {"open", "pending"})
      listed == [run[w] EXCEPT !.todo = claimable, !.sure = Listed(a, {"open"}), !.day = day]
  IN
  /\ \/ /\ claimable # {}
        /\ Step(w, "list", [listed EXCEPT !.at = "claim"]) /\ NoFault
     \/ /\ claimable = {}
        /\ Step(w, "list", [listed EXCEPT !.at = "record",
                  !.result = IF Listed(a, {"claimed"}) # {} THEN "already" ELSE "skipped"])
        /\ NoFault
     \/ \E unauthorized \in BOOLEAN : Step(w, "list", Failed(w, unauthorized)) /\ Fault
  /\ UNCHANGED <<campaign, day, reached, last, running, bearer, minted, sched, manual, restarts, again, crossed>>

\* Every claimable campaign has been claimed.
AllClaimed(w, confirmed) == Ends(w, IF confirmed THEN "success" ELSE "already")

\* Mutant: the first claim ends the run.
ProceedOnce(w, c, confirmed) == AllClaimed(w, confirmed)

\* After campaign c: on to the next one.
Proceed(w, c, confirmed) ==
  LET left == run[w].todo \ {c}
      any == run[w].confirmed \/ confirmed
  IN  IF left = {} THEN AllClaimed(w, any)
      ELSE [run[w] EXCEPT !.at = "claim", !.todo = left, !.confirmed = any, !.claiming = {}, !.unauthorized = FALSE]

\* One claim: confirmed; accepted and answered without a confirmation, or with
\* the answer lost; or refused. All but the first look the campaign up again.
Claim(w, c) ==
  LET a == Of(w)
      Becomes(s) == campaign' = [campaign EXCEPT ![a][c] = s]
      Relist(unauthorized) == [run[w] EXCEPT !.at = "relist", !.claiming = {c}, !.unauthorized = unauthorized]
  IN
  /\ run[w].at = "claim" /\ c \in run[w].todo
  /\ again' = (again \/ (campaign[a][c] = "claimed" /\ c \in run[w].sure))
  /\ IF campaign[a][c] = "none"   \* yesterday's campaign
       THEN Step(w, "claim", Relist(FALSE)) /\ Fault /\ UNCHANGED campaign
       ELSE \/ Becomes("claimed") /\ Step(w, "claim", Proceed(w, c, TRUE)) /\ NoFault
            \/ Becomes("claimed") /\ Step(w, "claim", Relist(FALSE)) /\ Fault
            \/ Becomes("pending") /\ Step(w, "claim", Relist(FALSE)) /\ Fault
            \/ \E unauthorized \in BOOLEAN : Step(w, "claim", Relist(unauthorized)) /\ Fault /\ UNCHANGED campaign
  /\ UNCHANGED <<day, reached, last, running, bearer, minted, sched, manual, restarts, crossed>>

\* The campaign is listed as claimed after all, or the claim's error stands.
Relist(w) ==
  LET a == Of(w) IN
  /\ run[w].at = "relist"
  /\ \E c \in run[w].claiming :
       \/ campaign[a][c] = "claimed" /\ Step(w, "relist", Proceed(w, c, FALSE)) /\ NoFault
       \/ campaign[a][c] # "claimed" /\ Step(w, "relist", Failed(w, run[w].unauthorized)) /\ NoFault
       \/ Step(w, "relist", Failed(w, run[w].unauthorized)) /\ Fault
  /\ UNCHANGED <<campaign, day, reached, last, running, bearer, minted, sched, manual, restarts, again, crossed>>

\* RecordCheckin, with the time of this moment.
Record(w) ==
  LET a == Of(w) IN
  /\ Step(w, "record", [Idle EXCEPT !.at = "release"])
  /\ last' = [last EXCEPT ![a] = [day |-> day, status |-> run[w].result, rested |-> FALSE]]
  /\ crossed' = [crossed EXCEPT ![a] = run[w].day \notin {0, day}]
  /\ UNCHANGED <<campaign, day, reached, running, bearer, minted, sched, boundVars, again>>

\* Mutant: the account stays marked as running.
ReleaseLeaking(w) ==
  /\ Step(w, "release", Idle)
  /\ UNCHANGED <<campaign, day, reached, last, running, bearer, minted, sched, boundVars, again, crossed>>

\* releaseCheckin
Release(w) ==
  /\ Step(w, "release", Idle)
  /\ running' = running \ {Of(w)}
  /\ UNCHANGED <<campaign, day, reached, last, bearer, minted, sched, boundVars, again, crossed>>

-------------------------------------------------------------------------------
(* The gateway, the clock and the process                                  *)

ConfirmPending(a, c) ==
  /\ campaign[a][c] = "pending"
  /\ campaign' = [campaign EXCEPT ![a][c] = "claimed"]
  /\ UNCHANGED <<day, reached, last, running, bearer, minted, sched, run, boundVars, again, crossed>>

SlotPasses(a) ==
  /\ a \notin reached
  /\ reached' = reached \cup {a}
  /\ UNCHANGED <<campaign, day, last, running, bearer, minted, sched, run, boundVars, again, crossed>>

RestOver(a) ==
  /\ last[a].status = "error" /\ ~last[a].rested
  /\ last' = [last EXCEPT ![a].rested = TRUE]
  /\ UNCHANGED <<campaign, day, reached, running, bearer, minted, sched, run, boundVars, again, crossed>>

\* Midnight: the gateway opens the day's campaigns, or has none for an account.
Midnight ==
  /\ day < MaxDays /\ day' = day + 1
  /\ campaign' \in [Accounts -> {[c \in Campaigns |-> s] : s \in {"open", "none"}}]
  /\ reached' = {}
  /\ UNCHANGED <<last, running, bearer, minted, sched, run, boundVars, again, crossed>>

\* The records survive, the check-ins in flight do not.
Restart ==
  /\ restarts < MaxRestarts /\ restarts' = restarts + 1
  /\ running' = {} /\ sched' = NoPass
  /\ run' = [w \in Workers |-> Idle]
  /\ bearer' = [a \in Accounts |-> 0]
  /\ UNCHANGED <<campaign, day, reached, last, minted, faults, manual, again, crossed>>

Work(w) ==
  \/ Ensure(w) \/ Bearer(w) \/ Renew(w) \/ List(w) \/ Relist(w) \/ Record(w) \/ Release(w)
  \/ \E c \in Campaigns : Claim(w, c)

Clock == \E a \in Accounts : SlotPasses(a) \/ RestOver(a) \/ \E c \in Campaigns : ConfirmPending(a, c)
Scheduler == PassBegins \/ \E a \in Accounts : PassVisits(a)

Next ==
  \/ \E w \in Workers : Work(w)
  \/ Scheduler \/ Clock
  \/ \E a \in Accounts : ManualBegins(a) \/ ProbeMints(a)
  \/ Midnight \/ Restart

Spec == Init /\ [][Next]_vars

\* The loop passes every minute, a check-in ends within its 90 s, a slot passes
\* and a failure ages while the day lasts, and a claim is confirmed in the end.
Fairness ==
  /\ \A w \in Workers : WF_vars(Work(w))
  /\ WF_vars(Scheduler)
  /\ \A a \in Accounts :
       /\ WF_vars(SlotPasses(a)) /\ WF_vars(RestOver(a))
       /\ \A c \in Campaigns : WF_vars(ConfirmPending(a, c))

FairSpec == Spec /\ Fairness

-------------------------------------------------------------------------------
(* Properties                                                              *)

\* Types of the records, the scheduler and the runs.
TypeOK ==
  /\ campaign \in [Accounts -> [Campaigns -> Status]]
  /\ day \in Nat /\ reached \subseteq Accounts
  /\ last \in [Accounts -> [day : Nat, status : Result, rested : BOOLEAN]]
  /\ running \subseteq Accounts
  /\ bearer \in [Accounts -> Nat] /\ minted \in Nat
  /\ sched \in [left : SUBSET Accounts, day : Nat, due : SUBSET Accounts]
  /\ run \in [Workers -> [at : {"idle", "session", "bearer", "list", "claim", "relist", "renew", "record", "release"},
                          bearer : Nat, rejected : Nat, retried : BOOLEAN,
                          todo : SUBSET Campaigns, sure : SUBSET Campaigns, claiming : SUBSET Campaigns,
                          confirmed : BOOLEAN, unauthorized : BOOLEAN, result : Result, day : Nat]]
  /\ faults \in Nat /\ manual \in Nat /\ restarts \in Nat
  /\ again \in BOOLEAN
  /\ crossed \in [Accounts -> BOOLEAN]

\* A record of today is true of the gateway, unless its run listed before
\* midnight: a day recorded as done has all its campaigns claimed, or none, and
\* "success" or "already" means that some credits were claimed. Lost answers,
\* retries, restarts and manual runs do not record a claim too many.
RecordedIsTrue ==
  \A a \in Accounts :
    last[a].day = day /\ ~crossed[a] =>
      /\ last[a].status # "error" => Listed(a, {"open", "pending"}) = {}
      /\ last[a].status \in {"success", "already"} => Listed(a, {"claimed"}) # {}

\* No claim is sent for a campaign known to be claimed, by two runs at the same
\* time or by a retry; only one that was pending when listed may be sent again.
NoClaimTwice == ~again

\* The one retry after a 401 presents a token minted after the rejected one.
RetryFreshBearer ==
  \A w \in Workers :
    run[w].retried /\ run[w].at \in {"list", "claim", "relist"} => run[w].bearer > run[w].rejected

\* An automatic account gets the last day's credits, if the day has any, in
\* spite of errors, restarts and check-ins that raced, unless its record is of
\* a run that crossed midnight.
EventuallyClaimed ==
  <>[](\A a \in Accounts : crossed[a] \/ Listed(a, {"open", "pending"}) = {})
===============================================================================
