-------------------------------- MODULE Router --------------------------------
(***************************************************************************)
(* The request path of the bridge: routing.go picks an account for a chat  *)
(* request, bridge/handler.go serves it there and fails over to another    *)
(* account on an upstream credential rejection, bridge/chat.go admits it   *)
(* to one of the account's upstream slots, and main.go keeps the health    *)
(* signals the router reads.                                               *)
(*                                                                         *)
(* The pool itself is fixed here (AccountPool models its changes) and its  *)
(* weights are equal, so that rotation follows the ID cursor.              *)
(* Time is abstracted to the moments a cooldown or a binding runs out.     *)
(***************************************************************************)
EXTENDS Integers, FiniteSets

CONSTANTS
  Accounts,             \* account IDs, ordered as the router sorts them
  Region,               \* Region[a]: "cn" or "global"
  Unsupported,          \* accounts whose upstream does not know the model
  Requests,             \* chat requests, each handled by its own goroutine
  Conversation,         \* Conversation[r]: the sticky key of r
  Filter,               \* Filter[r]: the region prefix of r's model name
  Strategy,             \* "sticky", "round-robin" or "least-inflight"
  StickyLimit,          \* requests a conversation may stay on one account
  StickyCapacity,       \* bindings kept at most
  MaxRetryAccounts,     \* accounts one request may consume
  MaxFailoverAttempts,  \* the handler's own ceiling on retries
  Capacity,             \* upstream slots per account
  AutoSwitch,           \* whether the credit threshold applies
  MaxEvents             \* bound on the environment's health events

NoAccount == 0
Filters == {"default", "cn", "global", "auto"}
Keys == {Conversation[r] : r \in Requests}
Results == {"none", "ok", "auth", "other", "gone"}

ASSUME PoolAssumption ==
  /\ Accounts \subseteq Nat \ {NoAccount}
  /\ IsFiniteSet(Accounts)
  /\ Accounts # {}
  /\ Region \in [Accounts -> {"cn", "global"}]
  /\ Unsupported \subseteq Accounts

ASSUME RequestAssumption ==
  /\ IsFiniteSet(Requests)
  /\ Filter \in [Requests -> Filters]

ASSUME ConfigAssumption ==
  /\ Strategy \in {"sticky", "round-robin", "least-inflight"}
  /\ StickyLimit \in Nat \ {0}
  /\ StickyCapacity \in Nat \ {0}
  /\ MaxRetryAccounts \in Nat \ {0}
  /\ MaxFailoverAttempts \in Nat
  /\ Capacity \in Nat \ {0}
  /\ AutoSwitch \in BOOLEAN
  /\ MaxEvents \in Nat

VARIABLES
  \* one chat request: the handler's locals
  pc,          \* where its goroutine stands
  acct,        \* the account it is resolved to
  excluded,    \* accounts that already rejected it (ResolveRequest.Exclude)
  cand,        \* pick's candidate list, after every filter
  last,        \* the cursor value rotate read
  result,      \* what HandleChat returned
  committed,   \* response bytes reached the client
  answer,      \* how the request ended
  \* history of one request, read by properties only
  tried,       \* accounts it was sent to
  sick,        \* accounts unhealthy ever since its current pick began
  \* the router
  sticky,      \* sticky[k]: the binding of conversation k
  cursor,      \* cursor[f]: last account rotated to, per route key
  \* the account bridges
  slots,       \* tokens in chatSlots
  inFlight,    \* the inFlight counter notSaturated reads
  lacking,     \* accounts whose cached catalogue lacks the model
  \* the snapshots the router reads, and the API key
  cooling, exceeded, low, keyValid,
  events       \* environment events so far (bounds the model)

localVars   == <<pc, acct, excluded, cand, last, result, committed, answer>>
historyVars == <<tried, sick>>
routerVars  == <<sticky, cursor>>
bridgeVars  == <<slots, inFlight, lacking>>
healthVars  == <<cooling, exceeded, low, keyValid, events>>
vars == <<localVars, historyVars, routerVars, bridgeVars, healthVars>>

NoBinding == [account |-> NoAccount, count |-> 0, expired |-> FALSE]
Binding == [account : Accounts, count : Nat, expired : BOOLEAN]

Routing == {"pick", "sticky", "rotate", "advance"}
Holding == {"admitted", "streaming", "leaving"}
Serving == {"prepare", "queue", "returned"} \cup Holding
Locations == Routing \cup Serving \cup {"done"}

Init ==
  /\ pc        = [r \in Requests |-> "pick"]
  /\ acct      = [r \in Requests |-> NoAccount]
  /\ excluded  = [r \in Requests |-> {}]
  /\ cand      = [r \in Requests |-> {}]
  /\ last      = [r \in Requests |-> NoAccount]
  /\ result    = [r \in Requests |-> "none"]
  /\ committed = [r \in Requests |-> FALSE]
  /\ answer    = [r \in Requests |-> "none"]
  /\ tried     = [r \in Requests |-> {}]
  /\ sick      = [r \in Requests |-> {}]
  /\ sticky    = [k \in Keys |-> NoBinding]
  /\ cursor    = [f \in Filters |-> NoAccount]
  /\ slots     = [a \in Accounts |-> 0]
  /\ inFlight  = [a \in Accounts |-> 0]
  /\ lacking = {} /\ cooling = {} /\ exceeded = {} /\ low = {}
  /\ keyValid = TRUE
  /\ events = 0

\* The response is written and the goroutine's locals are gone.
Answer(r, x) ==
  /\ answer' = [answer EXCEPT ![r] = x]
  /\ excluded' = [excluded EXCEPT ![r] = {}]
  /\ result' = [result EXCEPT ![r] = "none"]
  /\ pc' = [pc EXCEPT ![r] = "done"]

-------------------------------------------------------------------------------
(* Candidate selection: regionBase, usable, supportsModel, notSaturated.   *)

InRegion(region) == {a \in Accounts : Region[a] = region}

RegionBase(f) ==
  CASE f = "cn"     -> InRegion("cn")
    [] f = "global" -> InRegion("global")
    [] f = "auto"   -> Accounts
    [] OTHER        -> IF InRegion("cn") # {} THEN InRegion("cn") ELSE Accounts

Usable(a, applyThreshold) ==
  /\ a \notin cooling
  /\ a \notin exceeded
  /\ ~(applyThreshold /\ AutoSwitch /\ a \in low)

\* The threshold is waived only when it is the sole reason nothing is usable.
Candidates(r) ==
  LET eligible == RegionBase(Filter[r]) \ excluded[r]
      usable   == {a \in eligible : Usable(a, TRUE)}
      relaxed  == {a \in eligible : Usable(a, FALSE)}
  IN  IF usable # {} THEN usable
      ELSE IF relaxed = eligible THEN relaxed ELSE {}

SupportsModel(S) == IF S \ lacking # {} THEN S \ lacking ELSE S

PickFrom(r) ==
  LET usable == SupportsModel(Candidates(r))
      free   == {a \in usable : inFlight[a] < Capacity}
  IN  IF free # {} THEN free ELSE usable

\* pick reads the pool, the snapshots and the bridges before it takes the
\* router's lock; sick is (re)started here.
Route(r) ==
  /\ pc[r] = "pick"
  /\ keyValid
  /\ PickFrom(r) # {}
  /\ cand' = [cand EXCEPT ![r] = PickFrom(r)]
  /\ sick' = [sick EXCEPT ![r] = cooling \cup exceeded]
  /\ pc' = [pc EXCEPT ![r] = IF Strategy = "round-robin" THEN "rotate"
                                                         ELSE "sticky"]
  /\ UNCHANGED <<acct, excluded, last, result, committed, answer, tried,
                 routerVars, bridgeVars, healthVars>>

\* No valid key or no account: the first resolution rejects the request, a
\* failover lets the original error surface.
NoRoute(r) ==
  /\ pc[r] = "pick"
  /\ keyValid => PickFrom(r) = {}
  /\ Answer(r, IF excluded[r] = {} THEN "rejected" ELSE "failed")
  /\ UNCHANGED <<acct, cand, last, committed, historyVars, routerVars, bridgeVars,
                 healthVars>>

-------------------------------------------------------------------------------
(* Sticky reuse, under the router's lock.                                  *)

\* The account is chosen and counted by resolveBridge; pick's locals end.
Choose(r, a) ==
  /\ acct' = [acct EXCEPT ![r] = a]
  /\ tried' = [tried EXCEPT ![r] = @ \cup {a}]
  /\ pc' = [pc EXCEPT ![r] = "prepare"]
  /\ cand' = [cand EXCEPT ![r] = {}]
  /\ last' = [last EXCEPT ![r] = NoAccount]
  /\ sick' = [sick EXCEPT ![r] = {}]

QuotaServed(k) == sticky[k].count + 1 > StickyLimit

\* Mutant: a live binding is followed without looking at the candidates.
FollowsBlindly(r, k) ==
  sticky[k] # NoBinding /\ ~sticky[k].expired

\* The binding may be followed: alive, and its account survived the filters.
Follows(r, k) ==
  sticky[k] # NoBinding /\ ~sticky[k].expired /\ sticky[k].account \in cand[r]

ReuseBinding(r) ==
  LET k == Conversation[r] IN
  /\ pc[r] = "sticky"
  /\ Follows(r, k)
  /\ ~QuotaServed(k)
  /\ sticky' = [sticky EXCEPT ![k].count = @ + 1]
  /\ Choose(r, sticky[k].account)
  /\ UNCHANGED <<excluded, result, committed, answer, cursor, bridgeVars, healthVars>>

RotateAfterQuota(r) ==
  LET k == Conversation[r] IN
  /\ pc[r] = "sticky"
  /\ Follows(r, k)
  /\ QuotaServed(k)
  /\ sticky' = [sticky EXCEPT ![k] = NoBinding]
  /\ pc' = [pc EXCEPT ![r] = "rotate"]
  /\ UNCHANGED <<acct, excluded, cand, last, result, committed, answer, tried,
                 sick, cursor, bridgeVars, healthVars>>

\* No binding, an expired one, or one whose account was filtered out.
DropBinding(r) ==
  LET k == Conversation[r] IN
  /\ pc[r] = "sticky"
  /\ ~Follows(r, k)
  /\ sticky' = [sticky EXCEPT ![k] = NoBinding]
  /\ pc' = [pc EXCEPT ![r] = "rotate"]
  /\ UNCHANGED <<acct, excluded, cand, last, result, committed, answer,
                 historyVars, cursor, bridgeVars, healthVars>>

-------------------------------------------------------------------------------
(* rotate: the ID cursor is read and written in two critical sections.     *)

Least(S) == {a \in S : \A b \in S : a <= b}
Later(S, a) == {b \in S : b > a}

\* Mutant: past the last candidate the rotation does not wrap around.
NextAfterNoWrap(S, a) ==
  IF Later(S, a) # {} THEN Least(Later(S, a)) ELSE {NoAccount}

\* The candidate that follows a in ID order, the first one after the last (a
\* set of one element); the empty cursor comes before every ID.
NextAfter(S, a) == IF Later(S, a) # {} THEN Least(Later(S, a)) ELSE Least(S)

ReadCursor(r) ==
  /\ pc[r] = "rotate"
  /\ Strategy # "least-inflight"
  /\ last' = [last EXCEPT ![r] = cursor[Filter[r]]]
  /\ pc' = [pc EXCEPT ![r] = "advance"]
  /\ UNCHANGED <<acct, excluded, cand, result, committed, answer, historyVars,
                 routerVars, bridgeVars, healthVars>>

AdvanceCursor(r) ==
  /\ pc[r] = "advance"
  /\ \E a \in NextAfter(cand[r], last[r]) :
       /\ cursor' = [cursor EXCEPT ![Filter[r]] = a]
       /\ Choose(r, a)
  /\ UNCHANGED <<excluded, result, committed, answer, sticky, bridgeVars, healthVars>>

\* Ties go to the first account in pool order; any order is allowed here.
LeastLoaded(r) ==
  /\ pc[r] = "rotate"
  /\ Strategy = "least-inflight"
  /\ \E a \in cand[r] :
       /\ \A b \in cand[r] : inFlight[a] <= inFlight[b]
       /\ cursor' = [cursor EXCEPT ![Filter[r]] = a]
       /\ Choose(r, a)
  /\ UNCHANGED <<excluded, result, committed, answer, sticky, bridgeVars, healthVars>>

-------------------------------------------------------------------------------
(* HandleChat on the chosen account's bridge.                              *)

Return(r, x) ==
  /\ result' = [result EXCEPT ![r] = x]
  /\ pc' = [pc EXCEPT ![r] = "returned"]

\* Session, catalogue and request body are ready; the slot is next.
Prepared(r) ==
  /\ pc[r] = "prepare"
  /\ acct[r] \notin lacking
  /\ pc' = [pc EXCEPT ![r] = "queue"]
  /\ UNCHANGED <<acct, excluded, cand, last, result, committed, answer,
                 historyVars, routerVars, bridgeVars, healthVars>>

\* The session is rejected, the request invalid, or the client gone.
PrepareFails(r) ==
  /\ pc[r] = "prepare"
  /\ \E x \in {"auth", "other", "gone"} : Return(r, x)
  /\ UNCHANGED <<acct, excluded, cand, last, committed, answer, historyVars,
                 routerVars, bridgeVars, healthVars>>

\* The fetched catalogue does not know the model (it stays cached).
UnknownModel(r) ==
  /\ pc[r] = "prepare"
  /\ acct[r] \in Unsupported
  /\ lacking' = lacking \cup {acct[r]}
  /\ Return(r, "other")
  /\ UNCHANGED <<acct, excluded, cand, last, committed, answer, historyVars,
                 routerVars, slots, inFlight, healthVars>>

\* Mutant: the request goes upstream without waiting for a token.
AdmitUnbounded(r) ==
  /\ pc[r] = "queue"
  /\ slots' = [slots EXCEPT ![acct[r]] = @ + 1]
  /\ pc' = [pc EXCEPT ![r] = "admitted"]
  /\ UNCHANGED <<acct, excluded, cand, last, result, committed, answer,
                 historyVars, routerVars, inFlight, lacking, healthVars>>

Admit(r) ==
  /\ pc[r] = "queue"
  /\ slots[acct[r]] < Capacity
  /\ slots' = [slots EXCEPT ![acct[r]] = @ + 1]
  /\ pc' = [pc EXCEPT ![r] = "admitted"]
  /\ UNCHANGED <<acct, excluded, cand, last, result, committed, answer,
                 historyVars, routerVars, inFlight, lacking, healthVars>>

AbandonQueue(r) ==
  /\ pc[r] = "queue"
  /\ Return(r, "gone")
  /\ UNCHANGED <<acct, excluded, cand, last, committed, answer, historyVars,
                 routerVars, bridgeVars, healthVars>>

CountIn(r) ==
  /\ pc[r] = "admitted"
  /\ inFlight' = [inFlight EXCEPT ![acct[r]] = @ + 1]
  /\ pc' = [pc EXCEPT ![r] = "streaming"]
  /\ UNCHANGED <<acct, excluded, cand, last, result, committed, answer,
                 historyVars, routerVars, slots, lacking, healthVars>>

\* The first chunk of a streamed answer reaches the client.
Deliver(r) ==
  /\ pc[r] = "streaming"
  /\ ~committed[r]
  /\ committed' = [committed EXCEPT ![r] = TRUE]
  /\ UNCHANGED <<pc, acct, excluded, cand, last, result, answer, historyVars,
                 routerVars, bridgeVars, healthVars>>

\* The upstream exchange ends. A success has written its whole response; its
\* usage frame may have taken the account below the credit threshold.
Finish(r) ==
  /\ pc[r] = "streaming"
  /\ \E x \in Results \ {"none"} :
       /\ result' = [result EXCEPT ![r] = x]
       /\ committed' = [committed EXCEPT ![r] = @ \/ x = "ok"]
       /\ low' \in (IF x = "ok" THEN {low, low \cup {acct[r]}} ELSE {low})
  /\ inFlight' = [inFlight EXCEPT ![acct[r]] = @ - 1]
  /\ pc' = [pc EXCEPT ![r] = "leaving"]
  /\ UNCHANGED <<acct, excluded, cand, last, answer, historyVars, routerVars,
                 slots, lacking, cooling, exceeded, keyValid, events>>

\* Mutant: the token is not given back.
ReleaseLeaking(r) ==
  /\ pc[r] = "leaving"
  /\ pc' = [pc EXCEPT ![r] = "returned"]
  /\ UNCHANGED <<acct, excluded, cand, last, result, committed, answer,
                 historyVars, routerVars, bridgeVars, healthVars>>

Release(r) ==
  /\ pc[r] = "leaving"
  /\ slots' = [slots EXCEPT ![acct[r]] = @ - 1]
  /\ pc' = [pc EXCEPT ![r] = "returned"]
  /\ UNCHANGED <<acct, excluded, cand, last, result, committed, answer,
                 historyVars, routerVars, inFlight, lacking, healthVars>>

-------------------------------------------------------------------------------
(* The handler, once HandleChat returned.                                  *)

Bound(f) == {k \in Keys : f[k] # NoBinding}

\* The bindings left when a new one is about to be stored: all of them below
\* capacity; else the live ones, thinned out to make room for the new one.
Kept(kept) ==
  LET live == {k \in Bound(sticky) : ~sticky[k].expired} IN
  IF Cardinality(Bound(sticky)) < StickyCapacity THEN kept = Bound(sticky)
  ELSE IF Cardinality(live) < StickyCapacity THEN kept = live
  ELSE kept \subseteq live /\ Cardinality(kept) = StickyCapacity - 1

Bind(k, a) ==
  IF sticky[k].account = a /\ ~sticky[k].expired
  THEN UNCHANGED sticky
  ELSE \E kept \in SUBSET Bound(sticky) :
         /\ Kept(kept)
         /\ sticky' = [j \in Keys |->
              IF j = k THEN [account |-> a, count |-> 1, expired |-> FALSE]
              ELSE IF j \in kept THEN sticky[j] ELSE NoBinding]

\* Mutant: the account is bound whatever HandleChat returned.
SucceedAlways(r) ==
  /\ pc[r] = "returned"
  /\ Bind(Conversation[r], acct[r])
  /\ Answer(r, IF result[r] = "ok" THEN "ok" ELSE "failed")
  /\ UNCHANGED <<acct, cand, last, committed, historyVars, cursor,
                 bridgeVars, healthVars>>

Succeed(r) ==
  /\ pc[r] = "returned"
  /\ result[r] = "ok"
  /\ Bind(Conversation[r], acct[r])
  /\ Answer(r, "ok")
  /\ UNCHANGED <<acct, cand, last, committed, historyVars, cursor,
                 bridgeVars, healthVars>>

\* Mutant: a request whose response has begun is retried as well.
MayRetryCommitted(r) ==
  /\ result[r] = "auth"
  /\ Cardinality(excluded[r]) < MaxFailoverAttempts

\* An AuthError that is neither a StreamReportedError nor a cancellation.
MayRetry(r) ==
  /\ result[r] = "auth"
  /\ ~committed[r]
  /\ Cardinality(excluded[r]) < MaxFailoverAttempts

\* Mutant: the account that just failed is not excluded.
ExcludedNothing(r) == excluded[r]

ExcludedNow(r) == excluded[r] \cup {acct[r]}

\* handleChatFailover marks the account cooling whether or not the budget
\* leaves room for another one.
FailOver(r) ==
  /\ pc[r] = "returned"
  /\ MayRetry(r)
  /\ cooling' = cooling \cup {acct[r]}
  /\ IF Cardinality(ExcludedNow(r)) >= MaxRetryAccounts
     THEN Answer(r, "failed")
     ELSE /\ excluded' = [excluded EXCEPT ![r] = ExcludedNow(r)]
          /\ result' = [result EXCEPT ![r] = "none"]
          /\ pc' = [pc EXCEPT ![r] = "pick"]
          /\ UNCHANGED answer
  /\ UNCHANGED <<acct, cand, last, committed, historyVars, routerVars,
                 bridgeVars, exceeded, low, keyValid, events>>

\* handleChatError: the error becomes the answer.
Fail(r) ==
  /\ pc[r] = "returned"
  /\ result[r] \in {"auth", "other", "gone"}
  /\ ~MayRetry(r)
  /\ Answer(r, IF result[r] = "gone" THEN "gone"
               ELSE IF committed[r] THEN "broken" ELSE "failed")
  /\ UNCHANGED <<acct, cand, last, committed, historyVars, routerVars,
                 bridgeVars, healthVars>>

-------------------------------------------------------------------------------
(* The environment: account loop, panel checks, time, API key revocation.  *)

Event == events < MaxEvents /\ events' = events + 1

SetMember(S, a, yes) == IF yes THEN S \cup {a} ELSE S \ {a}

\* a is healthy in some state from now on: no pick can have seen it sick
\* without a break.
Recovered(a) == sick' = [r \in Requests |-> sick[r] \ {a}]

\* applyQuotaToSnapshot: an exhausted account cools until its reset, any other
\* stops cooling.
Probe(a) ==
  /\ Event
  /\ \E isExceeded, isLow \in BOOLEAN :
       /\ exceeded' = SetMember(exceeded, a, isExceeded)
       /\ cooling' = SetMember(cooling, a, isExceeded)
       /\ low' = SetMember(low, a, isLow)
       /\ IF isExceeded THEN UNCHANGED sick ELSE Recovered(a)
  /\ UNCHANGED <<localVars, tried, routerVars, bridgeVars, keyValid>>

\* The panel's account check seeds a snapshot without a cooldown.
Check(a) ==
  /\ Event
  /\ \E isExceeded, isLow \in BOOLEAN :
       /\ exceeded' = SetMember(exceeded, a, isExceeded)
       /\ cooling' = cooling \ {a}
       /\ low' = SetMember(low, a, isLow)
       /\ IF isExceeded THEN UNCHANGED sick ELSE Recovered(a)
  /\ UNCHANGED <<localVars, tried, routerVars, bridgeVars, keyValid>>

CooldownEnds(a) ==
  /\ Event
  /\ a \in cooling
  /\ cooling' = cooling \ {a}
  /\ IF a \in exceeded THEN UNCHANGED sick ELSE Recovered(a)
  /\ UNCHANGED <<localVars, tried, routerVars, bridgeVars, exceeded,
                 low, keyValid>>

BindingExpires(k) ==
  /\ Event
  /\ sticky[k] # NoBinding /\ ~sticky[k].expired
  /\ sticky' = [sticky EXCEPT ![k].expired = TRUE]
  /\ UNCHANGED <<localVars, historyVars, cursor, bridgeVars, cooling, exceeded,
                 low, keyValid>>

RevokeKey ==
  /\ Event
  /\ keyValid
  /\ keyValid' = FALSE
  /\ UNCHANGED <<localVars, historyVars, routerVars, bridgeVars, cooling,
                 exceeded, low>>

-------------------------------------------------------------------------------
Picking(r) == Route(r) \/ NoRoute(r) \/ ReuseBinding(r) \/ RotateAfterQuota(r)
                \/ DropBinding(r) \/ ReadCursor(r) \/ AdvanceCursor(r)
                \/ LeastLoaded(r)

Chatting(r) == Prepared(r) \/ PrepareFails(r) \/ UnknownModel(r)
                 \/ AbandonQueue(r) \/ CountIn(r) \/ Deliver(r) \/ Finish(r)
                 \/ Release(r)

Handling(r) == Succeed(r) \/ FailOver(r) \/ Fail(r)

Health == \/ \E a \in Accounts : Probe(a) \/ Check(a) \/ CooldownEnds(a)
          \/ \E k \in Keys : BindingExpires(k)
          \/ RevokeKey

AllDone == (\A r \in Requests : pc[r] = "done") /\ UNCHANGED vars

Next == \/ \E r \in Requests : Picking(r) \/ Chatting(r) \/ Admit(r) \/ Handling(r)
        \/ Health
        \/ AllDone

Spec == Init /\ [][Next]_vars

\* Every goroutine keeps running; an upstream exchange ends (header timeout, idle
\* watchdog, and an answer has an end); a channel serves its waiting senders in
\* order, so a request queued on a slot that keeps coming free gets it.
Fairness == \A r \in Requests : /\ WF_vars(Picking(r))
                                /\ WF_vars(Prepared(r) \/ PrepareFails(r)
                                             \/ UnknownModel(r) \/ CountIn(r)
                                             \/ Finish(r) \/ Release(r))
                                /\ WF_vars(Handling(r))
                                /\ SF_vars(Admit(r))

FairSpec == Spec /\ Fairness
-------------------------------------------------------------------------------
(* Properties.                                                             *)

TypeOK ==
  /\ pc \in [Requests -> Locations]
  /\ acct \in [Requests -> Accounts \cup {NoAccount}]
  /\ excluded \in [Requests -> SUBSET Accounts]
  /\ cand \in [Requests -> SUBSET Accounts]
  /\ last \in [Requests -> Accounts \cup {NoAccount}]
  /\ result \in [Requests -> Results]
  /\ committed \in [Requests -> BOOLEAN]
  /\ answer \in [Requests -> {"none", "ok", "broken", "failed", "rejected", "gone"}]
  /\ tried \in [Requests -> SUBSET Accounts]
  /\ sick \in [Requests -> SUBSET Accounts]
  /\ sticky \in [Keys -> Binding \cup {NoBinding}]
  /\ cursor \in [Filters -> Accounts \cup {NoAccount}]
  /\ slots \in [Accounts -> Int]
  /\ inFlight \in [Accounts -> Int]
  /\ lacking \subseteq Accounts
  /\ cooling \subseteq Accounts /\ exceeded \subseteq Accounts
  /\ low \subseteq Accounts
  /\ keyValid \in BOOLEAN
  /\ events \in Nat

Holders(a) == {r \in Requests : pc[r] \in Holding /\ acct[r] = a}
Counted(a) == {r \in Requests : pc[r] = "streaming" /\ acct[r] = a}

\* Slot accounting (chatSlots, inFlight): the tokens of an account are exactly
\* the requests between their acquisition and their release, the counter the
\* router reads is exactly the requests upstream, and an account never carries
\* more than its capacity, through every failure, disconnect and failover.
SlotsAccounted ==
  \A a \in Accounts : /\ slots[a] = Cardinality(Holders(a))
                      /\ inFlight[a] = Cardinality(Counted(a))
                      /\ inFlight[a] <= slots[a]
                      /\ slots[a] <= Capacity

\* Retry protocol (MakeChatHandler, handleChatFailover, pick): between two
\* attempts the accounts a request was sent to are exactly those it excludes,
\* during one the account serving it comes on top; candidates are accounts it
\* never tried and that are not sick; nothing has reached the client before the
\* exchange begins; the budget still has room for the account being tried.
RequestProtocol(r) ==
  /\ pc[r] \in Routing => tried[r] = excluded[r]
  /\ pc[r] \in Routing \ {"pick"} =>
       cand[r] \subseteq Accounts \ (excluded[r] \cup sick[r])
  /\ pc[r] \in Serving => /\ acct[r] \in Accounts \ excluded[r]
                          /\ tried[r] = excluded[r] \cup {acct[r]}
  /\ pc[r] \in Routing \cup {"prepare", "queue", "admitted"} => ~committed[r]
  /\ pc[r] \in {"leaving", "returned"} =>
       /\ result[r] # "none"
       /\ result[r] = "ok" => committed[r]
  /\ pc[r] # "done" => /\ answer[r] = "none"
                       /\ Cardinality(excluded[r]) < MaxRetryAccounts

RetryProtocol == \A r \in Requests : RequestProtocol(r)

\* bind, pick, pruneSticky: whatever requests of whichever conversations succeed
\* in whatever order, a conversation is bound only to an account on which one of
\* its own requests succeeded (a failing account is never pinned), no binding is
\* reused past its quota, and the table stays within its capacity.
BindingsSound ==
  /\ \A k \in Keys : sticky[k] # NoBinding =>
       /\ sticky[k].count <= StickyLimit
       /\ \E r \in Requests : /\ Conversation[r] = k
                               /\ answer[r] = "ok"
                               /\ acct[r] = sticky[k].account
  /\ Cardinality(Bound(sticky)) <= StickyCapacity

\* pick: an account that was cooling or exhausted when the pick began and has
\* not recovered since is not chosen, a sticky binding to it notwithstanding.
NeverRoutedToSick ==
  [][\A r \in Requests :
       pc[r] \in Routing /\ pc'[r] = "prepare" => acct'[r] \notin sick[r]]_vars

\* The chat request's promise, implemented by the whole path.
Promise == INSTANCE FailoverPromise WITH Budget <- MaxRetryAccounts
ImplementsPromise == Promise!Spec

\* Every request is answered in the end: no failover loop, no queue and no
\* lost slot keeps it waiting for ever.
EveryRequestAnswered == \A r \in Requests : <>(pc[r] = "done")
===============================================================================
