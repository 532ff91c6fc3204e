----------------------------- MODULE RouterProofs -----------------------------
(***************************************************************************)
(* Theorems about Router, for every pool, set of requests and setting: its *)
(* type invariant, the retry protocol, the slot accounting, the bindings,  *)
(* that no pick leads to an account that was sick throughout, and that the *)
(* request path implements FailoverPromise.                                *)
(***************************************************************************)
EXTENDS Router, FiniteSetTheorems, TLAPS

-------------------------------------------------------------------------------
(* Lemmas about the candidate selection and the rotation.                  *)

\* Every filter of pick narrows the eligible accounts: what remains was not
\* excluded and is neither cooling nor exhausted.
LEMMA PickFromHealthy ==
  ASSUME NEW r \in Requests
  PROVE  PickFrom(r) \subseteq Accounts \ (excluded[r] \cup cooling \cup exceeded)
<1>1. RegionBase(Filter[r]) \subseteq Accounts
  BY DEF RegionBase, InRegion
<1>2. Candidates(r) \subseteq Accounts \ (excluded[r] \cup cooling \cup exceeded)
  BY <1>1 DEF Candidates, Usable
<1>3. PickFrom(r) \subseteq Candidates(r)
  BY DEF PickFrom, SupportsModel
<1> QED BY <1>2, <1>3

\* The rotation's choice is one of the candidates.
LEMMA NextAfterAmong ==
  ASSUME NEW S, NEW a
  PROVE  NextAfter(S, a) \subseteq S
BY DEF NextAfter, Later, Least

\* A binding that may be followed leads to a candidate.
LEMMA FollowsAmong ==
  ASSUME NEW r, NEW k, Follows(r, k)
  PROVE  sticky[k].account \in cand[r]
BY DEF Follows

\* A per-account counter that moves by one stays a counter.
LEMMA CounterType ==
  ASSUME NEW f \in [Accounts -> Int], NEW a \in Accounts
  PROVE  /\ [f EXCEPT ![a] = f[a] + 1] \in [Accounts -> Int]
         /\ [f EXCEPT ![a] = f[a] - 1] \in [Accounts -> Int]
OBVIOUS

-------------------------------------------------------------------------------
(* Type correctness.                                                       *)

\* The initial states are well typed.
LEMMA InitType == Init => TypeOK
BY PoolAssumption, RequestAssumption, ConfigAssumption
   DEF Init, TypeOK, Locations, Routing, Serving, Holding, Results, Keys, NoAccount,
       NoBinding, Binding

\* Keeping some bindings and storing one leaves a well-typed table.
LEMMA BindType ==
  ASSUME TypeOK, NEW k \in Keys, NEW a \in Accounts, Bind(k, a)
  PROVE  sticky' \in [Keys -> Binding \cup {NoBinding}]
<1>1. CASE UNCHANGED sticky
  BY <1>1 DEF TypeOK
<1>2. CASE \E kept \in SUBSET Bound(sticky) :
             sticky' = [j \in Keys |->
               IF j = k THEN [account |-> a, count |-> 1, expired |-> FALSE]
               ELSE IF j \in kept THEN sticky[j] ELSE NoBinding]
  BY <1>2 DEF TypeOK, Binding
<1> QED BY <1>1, <1>2 DEF Bind

\* Picking an account preserves the types.
LEMMA PickingType ==
  ASSUME TypeOK, RetryProtocol, NEW r \in Requests, Picking(r)
  PROVE  TypeOK'
<1> USE PoolAssumption, RequestAssumption DEF TypeOK, vars, localVars, historyVars,
      routerVars, bridgeVars, healthVars, Locations, Routing, Serving, Holding
<1>0. Conversation[r] \in Keys
  BY DEF Keys
<1>1. CASE Route(r)
  BY <1>1, PickFromHealthy DEF Route
<1>2. CASE NoRoute(r)
  BY <1>2 DEF NoRoute, Answer, Results
<1>3. CASE ReuseBinding(r)
  <2>1. PICK k \in Keys : k = Conversation[r] /\ Follows(r, k)
                           /\ sticky' = [sticky EXCEPT ![k].count = @ + 1]
    BY <1>0, <1>3 DEF ReuseBinding
  <2>2. sticky[k] \in Binding
    BY <2>1 DEF Follows
  <2>3. sticky' \in [Keys -> Binding \cup {NoBinding}]
    BY <2>1, <2>2, SMTT(30) DEF Binding
  <2>4. sticky[k].account \in Accounts
    BY <2>2 DEF Binding
  <2> QED BY <1>3, <2>1, <2>3, <2>4, SMTT(30) DEF ReuseBinding, Choose
<1>4. CASE RotateAfterQuota(r)
  <2>1. PICK k \in Keys : k = Conversation[r] /\ Follows(r, k)
    BY <1>0, <1>4 DEF RotateAfterQuota
  <2>2. sticky[k] \in Binding
    BY <2>1 DEF Follows
  <2>3. sticky[k].account \in Accounts
    BY <2>2 DEF Binding
  <2> QED BY <1>4, <2>1, <2>3 DEF RotateAfterQuota
<1>5. CASE DropBinding(r)
  BY <1>0, <1>5 DEF DropBinding
<1>6. CASE ReadCursor(r)
  BY <1>6 DEF ReadCursor
<1>7. CASE AdvanceCursor(r)
  <2>1. PICK a \in cand[r] : cursor' = [cursor EXCEPT ![Filter[r]] = a] /\ Choose(r, a)
    BY <1>7, NextAfterAmong DEF AdvanceCursor
  <2> QED BY <1>7, <2>1 DEF AdvanceCursor, Choose
<1>8. CASE LeastLoaded(r)
  <2>1. PICK a \in cand[r] : cursor' = [cursor EXCEPT ![Filter[r]] = a] /\ Choose(r, a)
    BY <1>8 DEF LeastLoaded
  <2> QED BY <1>8, <2>1 DEF LeastLoaded, Choose
<1> QED BY <1>1, <1>2, <1>3, <1>4, <1>5, <1>6, <1>7, <1>8 DEF Picking

\* Serving a request on its account preserves the types.
LEMMA ServingType ==
  ASSUME TypeOK, RetryProtocol, NEW r \in Requests,
         Chatting(r) \/ Admit(r) \/ Handling(r)
  PROVE  TypeOK'
<1> USE PoolAssumption DEF TypeOK, vars, localVars, historyVars, routerVars,
      bridgeVars, healthVars, Locations, Routing, Serving, Holding, Results
<1>0. pc[r] \in Serving => acct[r] \in Accounts
  BY DEF RetryProtocol, RequestProtocol
<1>1. CASE Prepared(r)
  BY <1>1 DEF Prepared
<1>2. CASE PrepareFails(r)
  BY <1>2 DEF PrepareFails, Return
<1>3. CASE UnknownModel(r)
  BY <1>3 DEF UnknownModel, Return
<1>4. CASE AbandonQueue(r)
  BY <1>4 DEF AbandonQueue, Return
<1>5. CASE CountIn(r)
  <2>1. inFlight' \in [Accounts -> Int]
    <3>1. acct[r] \in Accounts /\ inFlight \in [Accounts -> Int]
      BY <1>0, <1>5 DEF CountIn
    <3>2. inFlight' = [inFlight EXCEPT ![acct[r]] = inFlight[acct[r]] + 1]
      BY <1>5 DEF CountIn
    <3> QED BY ONLY <3>1, <3>2, CounterType
  <2> QED BY <1>5, <2>1 DEF CountIn
<1>6. CASE Deliver(r)
  BY <1>6 DEF Deliver
<1>7. CASE Finish(r)
  <2>1. committed' \in [Requests -> BOOLEAN]
    BY <1>7 DEF Finish
  <2>2. low' \subseteq Accounts
    BY <1>0, <1>7 DEF Finish
  <2>3. inFlight' \in [Accounts -> Int]
    <3>1. acct[r] \in Accounts /\ inFlight \in [Accounts -> Int]
      BY <1>0, <1>7 DEF Finish
    <3>2. inFlight' = [inFlight EXCEPT ![acct[r]] = inFlight[acct[r]] - 1]
      BY <1>7 DEF Finish
    <3> QED BY ONLY <3>1, <3>2, CounterType
  <2> QED BY <1>7, <2>1, <2>2, <2>3 DEF Finish
<1>8. CASE Release(r)
  <2>1. slots' \in [Accounts -> Int]
    <3>1. acct[r] \in Accounts /\ slots \in [Accounts -> Int]
      BY <1>0, <1>8 DEF Release
    <3>2. slots' = [slots EXCEPT ![acct[r]] = slots[acct[r]] - 1]
      BY <1>8 DEF Release
    <3> QED BY ONLY <3>1, <3>2, CounterType
  <2> QED BY <1>8, <2>1 DEF Release
<1>9. CASE Admit(r)
  <2>1. slots' \in [Accounts -> Int]
    <3>1. acct[r] \in Accounts /\ slots \in [Accounts -> Int]
      BY <1>0, <1>9 DEF Admit
    <3>2. slots' = [slots EXCEPT ![acct[r]] = slots[acct[r]] + 1]
      BY <1>9 DEF Admit
    <3> QED BY ONLY <3>1, <3>2, CounterType
  <2> QED BY <1>9, <2>1 DEF Admit
<1>10. CASE Succeed(r)
  <2>1. Conversation[r] \in Keys /\ acct[r] \in Accounts
    BY <1>0, <1>10 DEF Keys, Succeed
  <2>2. sticky' \in [Keys -> Binding \cup {NoBinding}]
    BY <1>10, <2>1, BindType DEF Succeed
  <2> QED BY <1>10, <2>2 DEF Succeed, Answer
<1>11. CASE FailOver(r)
  <2>1. ExcludedNow(r) \subseteq Accounts /\ cooling' \subseteq Accounts
    BY <1>0, <1>11 DEF FailOver, ExcludedNow
  <2>2. CASE Answer(r, "failed")
    BY <1>11, <2>1, <2>2 DEF FailOver, Answer
  <2>3. CASE /\ excluded' = [excluded EXCEPT ![r] = ExcludedNow(r)]
             /\ result' = [result EXCEPT ![r] = "none"]
             /\ pc' = [pc EXCEPT ![r] = "pick"]
             /\ UNCHANGED answer
    BY <1>11, <2>1, <2>3 DEF FailOver
  <2> QED BY <1>11, <2>2, <2>3 DEF FailOver
<1>12. CASE Fail(r)
  BY <1>12 DEF Fail, Answer
<1> QED BY <1>1, <1>2, <1>3, <1>4, <1>5, <1>6, <1>7, <1>8, <1>9, <1>10, <1>11, <1>12
        DEF Chatting, Handling

\* The environment preserves the types.
LEMMA HealthType ==
  ASSUME TypeOK, Health
  PROVE  TypeOK'
<1> USE DEF TypeOK, localVars, historyVars, routerVars, bridgeVars, healthVars, Event,
      SetMember, Recovered
<1>1. ASSUME NEW a \in Accounts, Probe(a) PROVE TypeOK'
  BY <1>1 DEF Probe
<1>2. ASSUME NEW a \in Accounts, Check(a) PROVE TypeOK'
  BY <1>2 DEF Check
<1>3. ASSUME NEW a \in Accounts, CooldownEnds(a) PROVE TypeOK'
  BY <1>3 DEF CooldownEnds
<1>4. ASSUME NEW k \in Keys, BindingExpires(k) PROVE TypeOK'
  <2>1. sticky[k] \in Binding
    BY <1>4 DEF BindingExpires
  <2>2. sticky' \in [Keys -> Binding \cup {NoBinding}]
    BY <1>4, <2>1 DEF BindingExpires, Binding
  <2> QED BY <1>4, <2>2 DEF BindingExpires
<1>5. CASE RevokeKey
  <2>1. keyValid' \in BOOLEAN
    BY <1>5 DEF RevokeKey
  <2> QED BY <1>5, <2>1 DEF RevokeKey
<1> QED BY <1>1, <1>2, <1>3, <1>4, <1>5 DEF Health

-------------------------------------------------------------------------------
(* The retry protocol.                                                     *)

\* Before any request is handled the protocol holds.
LEMMA InitProtocol == Init => RetryProtocol
BY FS_EmptySet, ConfigAssumption
   DEF Init, RetryProtocol, RequestProtocol, Routing, Serving, Holding

\* Picking an account keeps the protocol: the choice is always a candidate.
LEMMA PickingProtocol ==
  ASSUME TypeOK, RetryProtocol, NEW r \in Requests, Picking(r)
  PROVE  RetryProtocol'
<1> SUFFICES ASSUME NEW s \in Requests
             PROVE  RequestProtocol(s)'
  BY DEF RetryProtocol
<1>0. RequestProtocol(s) /\ RequestProtocol(r)
  BY DEF RetryProtocol
<1> USE <1>0 DEF TypeOK, RequestProtocol, Routing, Serving, Holding, historyVars
<1>1. CASE Route(r)
  BY <1>1, PickFromHealthy DEF Route
<1>2. CASE NoRoute(r)
  BY <1>2 DEF NoRoute, Answer
<1>3. CASE ReuseBinding(r)
  BY <1>3, FollowsAmong DEF ReuseBinding, Choose
<1>4. CASE RotateAfterQuota(r)
  BY <1>4 DEF RotateAfterQuota
<1>5. CASE DropBinding(r)
  BY <1>5 DEF DropBinding
<1>6. CASE ReadCursor(r)
  BY <1>6 DEF ReadCursor
<1>7. CASE AdvanceCursor(r)
  BY <1>7, NextAfterAmong DEF AdvanceCursor, Choose
<1>8. CASE LeastLoaded(r)
  BY <1>8 DEF LeastLoaded, Choose
<1> QED BY <1>1, <1>2, <1>3, <1>4, <1>5, <1>6, <1>7, <1>8 DEF Picking

\* Serving keeps the protocol: a failover excludes exactly the account that
\* failed and goes on only while the budget has room.
LEMMA ServingProtocol ==
  ASSUME TypeOK, RetryProtocol, NEW r \in Requests,
         Chatting(r) \/ Admit(r) \/ Handling(r)
  PROVE  RetryProtocol'
<1> SUFFICES ASSUME NEW s \in Requests
             PROVE  RequestProtocol(s)'
  BY DEF RetryProtocol
<1>0. RequestProtocol(s) /\ RequestProtocol(r)
  BY DEF RetryProtocol
<1> USE <1>0 DEF TypeOK, RequestProtocol, Routing, Serving, Holding, historyVars
<1>1. CASE Prepared(r)
  BY <1>1 DEF Prepared
<1>2. CASE PrepareFails(r)
  BY <1>2 DEF PrepareFails, Return
<1>3. CASE UnknownModel(r)
  BY <1>3 DEF UnknownModel, Return
<1>4. CASE AbandonQueue(r)
  BY <1>4 DEF AbandonQueue, Return
<1>5. CASE CountIn(r)
  BY <1>5 DEF CountIn
<1>6. CASE Deliver(r)
  BY <1>6 DEF Deliver
<1>7. CASE Finish(r)
  BY <1>7 DEF Finish
<1>8. CASE Release(r)
  BY <1>8 DEF Release
<1>9. CASE Admit(r)
  BY <1>9 DEF Admit
<1>10. CASE Succeed(r)
  BY <1>10 DEF Succeed, Answer
<1>11. CASE FailOver(r)
  <2>1. CASE Cardinality(ExcludedNow(r)) >= MaxRetryAccounts
    BY <1>11, <2>1 DEF FailOver, Answer
  <2>2. CASE ~(Cardinality(ExcludedNow(r)) >= MaxRetryAccounts)
    <3>1. ExcludedNow(r) \in SUBSET Accounts
      BY <1>11 DEF FailOver, ExcludedNow
    <3>2. Cardinality(ExcludedNow(r)) \in Nat
      BY <3>1, PoolAssumption, FS_Subset, FS_CardinalityType
    <3>3. Cardinality(ExcludedNow(r)) < MaxRetryAccounts
      BY <2>2, <3>2, ConfigAssumption
    <3>4. ~committed[r]
      BY <1>11 DEF FailOver, MayRetry
    <3>5. /\ pc' = [pc EXCEPT ![r] = "pick"]
          /\ excluded' = [excluded EXCEPT ![r] = ExcludedNow(r)]
          /\ UNCHANGED <<acct, cand, committed, answer, tried, sick>>
      BY <1>11, <2>2 DEF FailOver
    <3>6. tried[r] = ExcludedNow(r)
      BY <1>11 DEF FailOver, ExcludedNow
    <3>7. result' = [result EXCEPT ![r] = "none"]
      BY <1>11, <2>2 DEF FailOver
    <3>8. CASE s = r
      <4>1. /\ pc'[s] = "pick" /\ tried'[s] = excluded'[s]
            /\ ~committed'[s] /\ answer'[s] = "none"
        BY <1>11, <3>4, <3>5, <3>6, <3>8 DEF FailOver
      <4>2. Cardinality(excluded'[s]) < MaxRetryAccounts
        BY <3>3, <3>5, <3>8
      <4> QED BY <4>1, <4>2
    <3>9. CASE s # r
      <4>1. /\ pc'[s] = pc[s] /\ excluded'[s] = excluded[s] /\ result'[s] = result[s]
            /\ acct'[s] = acct[s] /\ cand'[s] = cand[s] /\ tried'[s] = tried[s]
            /\ sick'[s] = sick[s] /\ committed'[s] = committed[s]
            /\ answer'[s] = answer[s]
        BY <3>5, <3>7, <3>9
      <4> QED BY <4>1
    <3> QED BY <3>8, <3>9
  <2> QED BY <2>1, <2>2
<1>12. CASE Fail(r)
  BY <1>12 DEF Fail, Answer
<1> QED BY <1>1, <1>2, <1>3, <1>4, <1>5, <1>6, <1>7, <1>8, <1>9, <1>10, <1>11, <1>12
        DEF Chatting, Handling

\* The environment touches no request but to end a sick spell.
LEMMA HealthProtocol ==
  ASSUME TypeOK, RetryProtocol, Health
  PROVE  RetryProtocol'
<1>1. /\ UNCHANGED localVars
      /\ UNCHANGED tried
      /\ \A s \in Requests : sick'[s] \subseteq sick[s]
  BY DEF Health, Probe, Check, CooldownEnds, BindingExpires, RevokeKey, Recovered,
         historyVars, TypeOK
<1> QED BY <1>1 DEF RetryProtocol, RequestProtocol, localVars

\* Type correctness and the retry protocol together are inductive.
RouterInv == TypeOK /\ RetryProtocol

\* A step keeps the types and the retry protocol.
LEMMA RouterInvStep == RouterInv /\ [Next]_vars => RouterInv'
<1> SUFFICES ASSUME TypeOK, RetryProtocol, [Next]_vars
             PROVE  TypeOK' /\ RetryProtocol'
  BY DEF RouterInv
<1>1. CASE \E r \in Requests : Picking(r)
  BY <1>1, PickingType, PickingProtocol
<1>2. CASE \E r \in Requests : Chatting(r) \/ Admit(r) \/ Handling(r)
  BY <1>2, ServingType, ServingProtocol
<1>3. CASE Health
  BY <1>3, HealthType, HealthProtocol
<1>4. CASE UNCHANGED vars
  BY <1>4 DEF vars, localVars, historyVars, routerVars, bridgeVars, healthVars,
              TypeOK, RetryProtocol, RequestProtocol
<1> QED BY <1>1, <1>2, <1>3, <1>4 DEF Next, AllDone

\* Types and retry protocol hold in every state.
LEMMA RouterInvariant == Spec => []RouterInv
<1>1. Init => RouterInv
  BY InitType, InitProtocol DEF RouterInv
<1> QED BY <1>1, RouterInvStep, PTL DEF Spec

\* Every variable of the router keeps its type, for every pool and setting.
THEOREM TypeCorrect == Spec => []TypeOK
<1>1. RouterInv => TypeOK
  BY DEF RouterInv
<1> QED BY <1>1, RouterInvariant, PTL

\* A request excludes exactly the accounts it was sent to and its budget is
\* never overdrawn (MakeChatHandler, handleChatFailover).
THEOREM RetryProtocolHolds == Spec => []RetryProtocol
<1>1. RouterInv => RetryProtocol
  BY DEF RouterInv
<1> QED BY <1>1, RouterInvariant, PTL

\* No pick leads to an account that was cooling or exhausted throughout it,
\* sticky binding or not (pick).
THEOREM SickNeverPicked == Spec => NeverRoutedToSick
<1> DEFINE Healthy == \A r \in Requests :
             pc[r] \in Routing /\ pc'[r] = "prepare" => acct'[r] \notin sick[r]
<1>1. ASSUME RouterInv, [Next]_vars PROVE [Healthy]_vars
  <2> SUFFICES ASSUME NEW s \in Requests, pc[s] \in Routing, pc'[s] = "prepare"
               PROVE  acct'[s] \notin sick[s]
    OBVIOUS
  <2> USE <1>1 DEF RouterInv, TypeOK, RetryProtocol, RequestProtocol, Routing
  <2>1. CASE \E r \in Requests : ReuseBinding(r)
    BY <2>1, FollowsAmong DEF ReuseBinding, Choose
  <2>2. CASE \E r \in Requests : AdvanceCursor(r)
    BY <2>2, NextAfterAmong DEF AdvanceCursor, Choose
  <2>3. CASE \E r \in Requests : LeastLoaded(r)
    BY <2>3 DEF LeastLoaded, Choose
  <2>4. CASE \E r \in Requests : Route(r) \/ NoRoute(r) \/ RotateAfterQuota(r)
                                  \/ DropBinding(r) \/ ReadCursor(r)
    BY <2>4 DEF Route, NoRoute, Answer, RotateAfterQuota, DropBinding, ReadCursor
  <2>5. CASE \E r \in Requests : Chatting(r) \/ Admit(r) \/ Handling(r)
    BY <2>5 DEF Chatting, Handling, Prepared, PrepareFails, UnknownModel, AbandonQueue,
         CountIn, Deliver, Finish, Release, Admit, Succeed, FailOver, Fail, Return, Answer
  <2>6. CASE Health \/ UNCHANGED vars
    BY <2>6 DEF Health, Probe, Check, CooldownEnds, BindingExpires, RevokeKey,
         localVars, vars
  <2> QED BY <2>1, <2>2, <2>3, <2>4, <2>5, <2>6 DEF Next, Picking, AllDone
<1> QED BY <1>1, RouterInvariant, PTL DEF Spec, NeverRoutedToSick

-------------------------------------------------------------------------------
(* The request path implements FailoverPromise.                            *)

\* Choosing a candidate is a try of an account the request was never sent to.
LEMMA ChooseIsTry ==
  ASSUME RouterInv, NEW r \in Requests, NEW a \in cand[r], pc[r] \in Routing \ {"pick"},
         Choose(r, a), UNCHANGED <<committed, answer>>
  PROVE  Promise!Try(r, a) /\ a \in Accounts
<1>1. /\ tried[r] = excluded[r] /\ a \in Accounts \ excluded[r]
      /\ ~committed[r] /\ answer[r] = "none"
      /\ Cardinality(excluded[r]) < MaxRetryAccounts
  BY DEF RouterInv, RetryProtocol, RequestProtocol, Routing
<1>2. Cardinality(tried[r]) < MaxRetryAccounts
  BY <1>1
<1>3. tried' = [tried EXCEPT ![r] = @ \cup {a}]
  BY DEF Choose
<1>4. a \notin tried[r] /\ a \in Accounts
  BY <1>1
<1>5. answer[r] = "none" /\ ~committed[r]
  BY <1>1
<1>6. Promise!Cardinality(tried[r]) = Cardinality(tried[r])
  BY DEF Cardinality, Promise!Cardinality
<1>7. Promise!Try(r, a)
  BY <1>2, <1>3, <1>4, <1>5, <1>6 DEF Promise!Try
<1> QED BY <1>4, <1>7

\* Answering maps to the promise's answer when the answer fits.
LEMMA AnswerIsAnswer ==
  ASSUME RouterInv, NEW r \in Requests, NEW x, Answer(r, x), pc[r] # "done",
         x \in Promise!Answers, Promise!Fits(r, x), UNCHANGED <<tried, committed>>
  PROVE  Promise!Next
<1>1. answer[r] = "none"
  BY DEF RouterInv, RetryProtocol, RequestProtocol
<1>2. Promise!Answer(r, x)
  BY <1>1 DEF Promise!Answer, Answer
<1> QED BY <1>2 DEF Promise!Next

\* A routing step is a try, an answer or nothing of the promise.
LEMMA PickingRefines ==
  ASSUME RouterInv, NEW r \in Requests, Picking(r)
  PROVE  [Promise!Next]_(Promise!promiseVars)
<1> USE DEF Promise!promiseVars, historyVars
<1>1. CASE Route(r) \/ RotateAfterQuota(r) \/ DropBinding(r) \/ ReadCursor(r)
  BY <1>1 DEF Route, RotateAfterQuota, DropBinding, ReadCursor
<1>2. CASE NoRoute(r)
  <2>1. /\ tried[r] = excluded[r] /\ ~committed[r] /\ pc[r] # "done"
    BY <1>2 DEF NoRoute, RouterInv, RetryProtocol, RequestProtocol, Routing
  <2>2. CASE excluded[r] = {}
    BY <1>2, <2>1, <2>2, AnswerIsAnswer DEF NoRoute, Promise!Fits, Promise!Answers
  <2>3. CASE excluded[r] # {}
    BY <1>2, <2>1, <2>3, AnswerIsAnswer DEF NoRoute, Promise!Fits, Promise!Answers
  <2> QED BY <2>2, <2>3
<1>3. CASE ReuseBinding(r) \/ AdvanceCursor(r) \/ LeastLoaded(r)
  <2>1. PICK a \in cand[r] : Choose(r, a)
    BY <1>3, FollowsAmong, NextAfterAmong DEF ReuseBinding, AdvanceCursor, LeastLoaded
  <2>2. pc[r] \in Routing \ {"pick"} /\ UNCHANGED <<committed, answer>>
    BY <1>3 DEF ReuseBinding, AdvanceCursor, LeastLoaded, Routing
  <2> QED BY <2>1, <2>2, ChooseIsTry DEF Promise!Next
<1> QED BY <1>1, <1>2, <1>3 DEF Picking

\* A step of an attempt or of the handler is a commit, an answer or nothing of
\* the promise.
LEMMA ServingRefines ==
  ASSUME RouterInv, NEW r \in Requests, Chatting(r) \/ Admit(r) \/ Handling(r)
  PROVE  [Promise!Next]_(Promise!promiseVars)
<1> USE DEF Promise!promiseVars, historyVars
<1>1. CASE Prepared(r) \/ PrepareFails(r) \/ UnknownModel(r) \/ AbandonQueue(r)
             \/ CountIn(r) \/ Release(r) \/ Admit(r)
  BY <1>1 DEF Prepared, PrepareFails, UnknownModel, AbandonQueue, CountIn, Release, Admit
<1>2. CASE Deliver(r) \/ Finish(r)
  <2>1. /\ pc[r] = "streaming" /\ UNCHANGED <<tried, answer>>
        /\ committed' \in {committed, [committed EXCEPT ![r] = TRUE]}
    <3>1. CASE Deliver(r)
      BY <3>1 DEF Deliver
    <3>2. CASE Finish(r)
      <4>1. pc[r] = "streaming" /\ UNCHANGED <<tried, answer>>
        BY <3>2 DEF Finish
      <4>2. PICK x : committed' = [committed EXCEPT ![r] = committed[r] \/ x = "ok"]
        BY <3>2 DEF Finish
      <4>3. committed \in [Requests -> BOOLEAN]
        BY DEF RouterInv, TypeOK
      <4>4. CASE x = "ok"
        BY <4>1, <4>2, <4>4, <4>3
      <4>5. CASE x # "ok"
        BY <4>1, <4>2, <4>5, <4>3
      <4> QED BY <4>4, <4>5
    <3> QED BY <1>2, <3>1, <3>2
  <2>2. answer[r] = "none" /\ tried[r] # {}
    BY <2>1 DEF RouterInv, RetryProtocol, RequestProtocol, Serving, Holding
  <2>3. CASE committed' = committed
    BY <2>1, <2>3
  <2>4. CASE committed' = [committed EXCEPT ![r] = TRUE]
    BY <2>1, <2>2, <2>4 DEF Promise!Next, Promise!Commit
  <2> QED BY <2>1, <2>3, <2>4
<1>3. CASE Handling(r)
  <2>1. /\ pc[r] = "returned" /\ tried[r] # {}
        /\ result[r] = "ok" => committed[r]
    BY <1>3 DEF Handling, Succeed, FailOver, Fail, RouterInv, RetryProtocol,
         RequestProtocol, Serving, Holding
  <2>2. CASE Succeed(r)
    BY <2>1, <2>2, AnswerIsAnswer DEF Succeed, Promise!Fits, Promise!Answers
  <2>3. CASE FailOver(r)
    <3>1. CASE Answer(r, "failed")
      BY <2>1, <2>3, <3>1, AnswerIsAnswer
         DEF FailOver, MayRetry, Promise!Fits, Promise!Answers
    <3>2. CASE UNCHANGED answer
      BY <2>3, <3>2 DEF FailOver
    <3> QED BY <2>3, <3>1, <3>2 DEF FailOver
  <2>4. CASE Fail(r)
    <3> DEFINE x == IF result[r] = "gone" THEN "gone"
                    ELSE IF committed[r] THEN "broken" ELSE "failed"
    <3>1. Promise!Fits(r, x) /\ x \in Promise!Answers
      BY <2>1 DEF Promise!Fits, Promise!Answers
    <3>2. Answer(r, x) /\ UNCHANGED <<tried, committed>>
      BY <2>4 DEF Fail
    <3> HIDE DEF x
    <3> QED BY <2>1, <3>1, <3>2, AnswerIsAnswer
  <2> QED BY <1>3, <2>2, <2>3, <2>4 DEF Handling
<1> QED BY <1>1, <1>2, <1>3 DEF Chatting

\* Distinct accounts within the budget, none after the first byte reached the
\* client, and one fitting answer: the whole path implements FailoverPromise.
THEOREM ImplementsPromiseHolds == Spec => ImplementsPromise
<1>1. Init => Promise!Init
  BY DEF Init, Promise!Init
<1>2. RouterInv /\ [Next]_vars => [Promise!Next]_(Promise!promiseVars)
  <2> SUFFICES ASSUME RouterInv, [Next]_vars
               PROVE  [Promise!Next]_(Promise!promiseVars)
    OBVIOUS
  <2>1. CASE \E r \in Requests : Picking(r)
    BY <2>1, PickingRefines
  <2>2. CASE \E r \in Requests : Chatting(r) \/ Admit(r) \/ Handling(r)
    BY <2>2, ServingRefines
  <2>3. CASE Health
    BY <2>3 DEF Health, Probe, Check, CooldownEnds, BindingExpires, RevokeKey,
         localVars, historyVars, Promise!promiseVars
  <2>4. CASE UNCHANGED vars
    BY <2>4 DEF vars, localVars, historyVars, Promise!promiseVars
  <2> QED BY <2>1, <2>2, <2>3, <2>4 DEF Next, AllDone
<1> QED BY <1>1, <1>2, RouterInvariant, PTL DEF Spec, ImplementsPromise, Promise!Spec

-------------------------------------------------------------------------------
(* Slot accounting.                                                        *)

\* The accounting of one account.
AccountSlots(a) ==
  /\ slots[a] = Cardinality(Holders(a))
  /\ inFlight[a] = Cardinality(Counted(a))
  /\ slots[a] <= Capacity

\* The holders of a slot are finite, and those counted are among them.
LEMMA HoldersFinite ==
  ASSUME NEW a
  PROVE  /\ IsFiniteSet(Holders(a)) /\ IsFiniteSet(Counted(a))
         /\ Cardinality(Holders(a)) \in Nat /\ Cardinality(Counted(a)) \in Nat
         /\ Cardinality(Counted(a)) <= Cardinality(Holders(a))
<1>1. Holders(a) \in SUBSET Requests /\ Counted(a) \in SUBSET Holders(a)
  BY DEF Holders, Counted, Holding
<1>2. IsFiniteSet(Holders(a))
  BY <1>1, RequestAssumption, FS_Subset
<1>3. IsFiniteSet(Counted(a)) /\ Cardinality(Counted(a)) <= Cardinality(Holders(a))
  BY <1>1, <1>2, FS_Subset
<1> QED BY <1>2, <1>3, FS_CardinalityType

\* The accounting kept for each account, in its provable form, is the property.
LEMMA AccountSlotsSuffice ==
  (\A a \in Accounts : AccountSlots(a)) => SlotsAccounted
BY HoldersFinite DEF AccountSlots, SlotsAccounted

\* A step in which nobody enters or leaves the slots keeps the accounting.
LEMMA SlotsFrame ==
  ASSUME \A a \in Accounts : AccountSlots(a), UNCHANGED <<slots, inFlight>>,
         \A s \in Requests : \/ pc'[s] = pc[s] /\ acct'[s] = acct[s]
                             \/ pc[s] \notin Holding /\ pc'[s] \notin Holding
  PROVE  \A a \in Accounts : AccountSlots(a)'
<1> TAKE a \in Accounts
<1>1. Holders(a)' = Holders(a) /\ Counted(a)' = Counted(a)
  BY DEF Holders, Counted, Holding
<1> QED BY <1>1 DEF AccountSlots

\* The actions that move a request into, within and out of the slots.
LEMMA SlotsMove ==
  ASSUME TypeOK, RetryProtocol, \A a \in Accounts : AccountSlots(a),
         NEW r \in Requests, Admit(r) \/ CountIn(r) \/ Finish(r) \/ Release(r)
  PROVE  \A a \in Accounts : AccountSlots(a)'
<1> TAKE a \in Accounts
<1> USE DEF Holding
<1>0. /\ acct[r] \in Accounts /\ acct' = acct /\ AccountSlots(a)
      /\ \A s \in Requests \ {r} : pc'[s] = pc[s]
      /\ slots \in [Accounts -> Int] /\ inFlight \in [Accounts -> Int]
      /\ pc \in [Requests -> Locations]
  BY DEF Admit, CountIn, Finish, Release, TypeOK, RetryProtocol, RequestProtocol, Serving
<1>1. CASE a # acct[r]
  <2>1. Holders(a)' = Holders(a) /\ Counted(a)' = Counted(a)
    BY <1>0, <1>1 DEF Holders, Counted
  <2>2. slots'[a] = slots[a] /\ inFlight'[a] = inFlight[a]
    BY <1>0, <1>1 DEF Admit, CountIn, Finish, Release
  <2> QED BY <1>0, <2>1, <2>2 DEF AccountSlots
<1>2. CASE a = acct[r] /\ Admit(r)
  <2>1. Holders(a)' = Holders(a) \cup {r} /\ r \notin Holders(a)
    BY <1>0, <1>2 DEF Holders, Admit
  <2>2. Counted(a)' = Counted(a)
    BY <1>0, <1>2 DEF Counted, Admit
  <2>3. slots'[a] = slots[a] + 1 /\ inFlight' = inFlight /\ slots[a] < Capacity
    BY <1>0, <1>2 DEF Admit
  <2>4. Cardinality(Holders(a)') = Cardinality(Holders(a)) + 1
    BY <2>1, HoldersFinite, FS_AddElement
  <2>5. slots'[a] <= Capacity
    BY <1>0, <2>3, ConfigAssumption
  <2> QED BY <1>0, <2>2, <2>3, <2>4, <2>5 DEF AccountSlots
<1>3. CASE a = acct[r] /\ CountIn(r)
  <2>1. Counted(a)' = Counted(a) \cup {r} /\ r \notin Counted(a)
    BY <1>0, <1>3 DEF Counted, CountIn
  <2>2. Holders(a)' = Holders(a)
    BY <1>0, <1>3 DEF Holders, CountIn
  <2>3. inFlight'[a] = inFlight[a] + 1 /\ slots' = slots
    BY <1>0, <1>3 DEF CountIn
  <2>4. Cardinality(Counted(a)') = Cardinality(Counted(a)) + 1
    BY <2>1, HoldersFinite, FS_AddElement
  <2> QED BY <1>0, <2>2, <2>3, <2>4 DEF AccountSlots
<1>4. CASE a = acct[r] /\ Finish(r)
  <2>1. Counted(a)' = Counted(a) \ {r} /\ r \in Counted(a)
    BY <1>0, <1>4 DEF Counted, Finish
  <2>2. Holders(a)' = Holders(a)
    BY <1>0, <1>4 DEF Holders, Finish
  <2>3. inFlight'[a] = inFlight[a] - 1 /\ slots' = slots
    BY <1>0, <1>4 DEF Finish
  <2>4. Cardinality(Counted(a)') = Cardinality(Counted(a)) - 1
    BY <2>1, HoldersFinite, FS_RemoveElement
  <2> QED BY <1>0, <2>2, <2>3, <2>4 DEF AccountSlots
<1>5. CASE a = acct[r] /\ Release(r)
  <2>1. Holders(a)' = Holders(a) \ {r} /\ r \in Holders(a)
    BY <1>0, <1>5 DEF Holders, Release
  <2>2. Counted(a)' = Counted(a)
    BY <1>0, <1>5 DEF Counted, Release
  <2>3. slots'[a] = slots[a] - 1 /\ inFlight' = inFlight
    BY <1>0, <1>5 DEF Release
  <2>4. Cardinality(Holders(a)') = Cardinality(Holders(a)) - 1
    BY <2>1, HoldersFinite, FS_RemoveElement
  <2>5. slots'[a] <= Capacity
    BY <1>0, <2>3, ConfigAssumption DEF AccountSlots
  <2> QED BY <1>0, <2>2, <2>3, <2>4, <2>5 DEF AccountSlots
<1> QED BY <1>1, <1>2, <1>3, <1>4, <1>5

\* Every token of chatSlots belongs to one request between its acquisition and
\* its release, inFlight counts exactly the requests upstream, and neither
\* exceeds the account's capacity.
THEOREM SlotsAccountedHolds == Spec => []SlotsAccounted
<1> DEFINE Inv == \A a \in Accounts : AccountSlots(a)
<1>1. Init => Inv
  <2> SUFFICES ASSUME Init, NEW a \in Accounts PROVE AccountSlots(a)
    OBVIOUS
  <2>1. Holders(a) = {} /\ Counted(a) = {}
    BY DEF Init, Holders, Counted, Holding
  <2> QED BY <2>1, FS_EmptySet, ConfigAssumption DEF Init, AccountSlots
<1>2. RouterInv /\ Inv /\ [Next]_vars => Inv'
  <2> SUFFICES ASSUME RouterInv, Inv, [Next]_vars PROVE Inv'
    OBVIOUS
  <2> USE DEF RouterInv, bridgeVars, TypeOK, Holding, vars, localVars
  <2>1. CASE \E r \in Requests : Picking(r)
    BY <2>1, SlotsFrame DEF Picking, Route, NoRoute, ReuseBinding, RotateAfterQuota,
         DropBinding, ReadCursor, AdvanceCursor, LeastLoaded, Choose, Answer
  <2>2. CASE \E r \in Requests : Admit(r) \/ CountIn(r) \/ Finish(r) \/ Release(r)
    BY <2>2, SlotsMove
  <2>3. CASE \E r \in Requests : Prepared(r) \/ PrepareFails(r) \/ UnknownModel(r)
                                  \/ AbandonQueue(r) \/ Deliver(r) \/ Handling(r)
    BY <2>3, SlotsFrame DEF Prepared, PrepareFails, UnknownModel, AbandonQueue, Deliver,
         Handling, Succeed, FailOver, Fail, Return, Answer
  <2>4. CASE Health \/ UNCHANGED vars
    BY <2>4, SlotsFrame DEF Health, Probe, Check, CooldownEnds, BindingExpires, RevokeKey
  <2> QED BY <2>1, <2>2, <2>3, <2>4 DEF Next, Chatting, AllDone
<1>3. Spec => []Inv
  <2> HIDE DEF Inv
  <2> QED BY <1>1, <1>2, RouterInvariant, PTL DEF Spec
<1> QED BY <1>3, AccountSlotsSuffice, PTL

-------------------------------------------------------------------------------
(* The conversation bindings.                                              *)

\* Every conversation is some request's, so there are finitely many.
LEMMA KeysFinite == IsFiniteSet(Keys)
<1> DEFINE keyOf == [r \in Requests |-> Conversation[r]]
<1>1. keyOf \in Surjection(Requests, Keys)
  BY DEF Surjection, Keys
<1> QED BY <1>1, RequestAssumption, FS_Surjection

\* The table of bindings is finite, and so is every part of it.
LEMMA BoundFinite ==
  ASSUME NEW table, NEW part \in SUBSET Bound(table)
  PROVE  /\ IsFiniteSet(Bound(table)) /\ IsFiniteSet(part)
         /\ Cardinality(part) \in Nat /\ Cardinality(Bound(table)) \in Nat
         /\ Cardinality(part) <= Cardinality(Bound(table))
<1>1. Bound(table) \in SUBSET Keys
  BY DEF Bound
<1>2. IsFiniteSet(Bound(table))
  BY <1>1, KeysFinite, FS_Subset
<1>3. IsFiniteSet(part) /\ Cardinality(part) <= Cardinality(Bound(table))
  BY <1>2, FS_Subset
<1> QED BY <1>2, <1>3, FS_CardinalityType

\* pruneSticky leaves room for one binding more, whatever it keeps.
LEMMA KeptLeavesRoom ==
  ASSUME NEW kept \in SUBSET Bound(sticky), Kept(kept)
  PROVE  IsFiniteSet(kept) /\ Cardinality(kept) \in Nat /\ Cardinality(kept) < StickyCapacity
<1> DEFINE live == {k \in Bound(sticky) : ~sticky[k].expired}
<1>1. IsFiniteSet(kept) /\ Cardinality(kept) \in Nat
  BY BoundFinite
<1>2. CASE Cardinality(Bound(sticky)) < StickyCapacity
  <2>1. kept = Bound(sticky)
    BY <1>2 DEF Kept
  <2> QED BY <1>1, <1>2, <2>1
<1>3. CASE ~(Cardinality(Bound(sticky)) < StickyCapacity) /\ Cardinality(live) < StickyCapacity
  <2>1. kept = live
    BY <1>3 DEF Kept
  <2> QED BY <1>1, <1>3, <2>1
<1>4. CASE ~(Cardinality(Bound(sticky)) < StickyCapacity) /\ ~(Cardinality(live) < StickyCapacity)
  <2>1. Cardinality(kept) = StickyCapacity - 1
    BY <1>4 DEF Kept
  <2> QED BY <1>1, <2>1, ConfigAssumption
<1> QED BY <1>2, <1>3, <1>4

\* A binding is no longer counted than allowed and its account is one on which a
\* request of its conversation succeeded.
Earned(k) ==
  sticky[k] # NoBinding =>
    /\ sticky[k].count <= StickyLimit
    /\ \E r \in Requests : /\ Conversation[r] = k
                            /\ answer[r] = "ok"
                            /\ acct[r] = sticky[k].account

BindingsInv == (\A k \in Keys : Earned(k)) /\ Cardinality(Bound(sticky)) <= StickyCapacity

\* What was answered stays answered, by the same account.
LEMMA AnswersStay ==
  ASSUME RouterInv, [Next]_vars, NEW s \in Requests, answer[s] = "ok"
  PROVE  answer'[s] = "ok" /\ acct'[s] = acct[s]
<1>1. pc[s] = "done"
  BY DEF RouterInv, RetryProtocol, RequestProtocol
<1> USE <1>1 DEF RouterInv, TypeOK
<1>2. CASE \E r \in Requests : Picking(r)
  BY <1>2 DEF Picking, Route, NoRoute, Answer, ReuseBinding, RotateAfterQuota, DropBinding,
       ReadCursor, AdvanceCursor, LeastLoaded, Choose
<1>3. CASE \E r \in Requests : Chatting(r) \/ Admit(r)
  BY <1>3 DEF Chatting, Prepared, PrepareFails, UnknownModel, AbandonQueue,
       CountIn, Deliver, Finish, Release, Admit, Return
<1>4. CASE \E r \in Requests : Handling(r)
  BY <1>4 DEF Handling, Succeed, FailOver, Fail, Answer
<1>5. CASE Health \/ UNCHANGED vars
  BY <1>5 DEF Health, Probe, Check, CooldownEnds, BindingExpires, RevokeKey,
       localVars, vars
<1> QED BY <1>2, <1>3, <1>4, <1>5 DEF Next, AllDone

\* A binding that only lost its life, or nothing, is as earned as before.
LEMMA EarnedStays ==
  ASSUME RouterInv, [Next]_vars, NEW k \in Keys, Earned(k),
         sticky'[k] # NoBinding => /\ sticky[k] # NoBinding
                                   /\ sticky'[k].account = sticky[k].account
                                   /\ sticky'[k].count <= StickyLimit
  PROVE  Earned(k)'
BY AnswersStay DEF Earned

\* A table that lost bindings, or nothing, is within its capacity.
LEMMA CapacityStays ==
  ASSUME Cardinality(Bound(sticky)) <= StickyCapacity,
         \A k \in Keys : sticky'[k] # NoBinding => sticky[k] # NoBinding
  PROVE  Cardinality(Bound(sticky)') <= StickyCapacity
<1>1. Bound(sticky)' = Bound(sticky') /\ Bound(sticky') \in SUBSET Bound(sticky)
  BY DEF Bound
<1>2. /\ Cardinality(Bound(sticky')) <= Cardinality(Bound(sticky))
      /\ Cardinality(Bound(sticky')) \in Nat /\ Cardinality(Bound(sticky)) \in Nat
  BY <1>1, BoundFinite
<1> QED BY <1>1, <1>2, ConfigAssumption

\* A request that succeeds earns its conversation's binding, and the others fit
\* beside it.
LEMMA BindKeepsSound ==
  ASSUME RouterInv, BindingsInv, [Next]_vars, NEW r \in Requests, Succeed(r)
  PROVE  BindingsInv'
<1> DEFINE k == Conversation[r]
           new == [account |-> acct[r], count |-> 1, expired |-> FALSE]
<1>0. /\ k \in Keys /\ answer'[r] = "ok" /\ acct'[r] = acct[r]
      /\ sticky \in [Keys -> Binding \cup {NoBinding}]
  BY DEF Succeed, Answer, Keys, RouterInv, TypeOK
<1>1. CASE UNCHANGED sticky
  <2>1. \A j \in Keys : Earned(j)'
    BY <1>1, EarnedStays DEF BindingsInv, Earned
  <2>2. Cardinality(Bound(sticky)') <= StickyCapacity
    BY <1>1, CapacityStays DEF BindingsInv
  <2> QED BY <2>1, <2>2 DEF BindingsInv
<1>2. CASE ~UNCHANGED sticky
  <2>1. PICK kept \in SUBSET Bound(sticky) :
           /\ Kept(kept)
           /\ sticky' = [j \in Keys |-> IF j = k THEN new
                                        ELSE IF j \in kept THEN sticky[j] ELSE NoBinding]
    BY <1>2 DEF Succeed, Bind
  <2>2. ASSUME NEW j \in Keys PROVE Earned(j)'
    <3>1. CASE j = k
      <4>1. sticky'[j] = new
        BY <2>1, <3>1
      <4> QED BY <1>0, <3>1, <4>1, ConfigAssumption DEF Earned
    <3>2. CASE j # k
      <4>1. Earned(j) /\ sticky'[j] \in {sticky[j], NoBinding}
        BY <2>1, <3>2 DEF BindingsInv
      <4> QED BY <4>1, EarnedStays DEF Earned
    <3> QED BY <3>1, <3>2
  <2>3. Cardinality(Bound(sticky)') <= StickyCapacity
    <3>1. Bound(sticky') \in SUBSET (kept \cup {k})
      BY <2>1 DEF Bound
    <3>2. IsFiniteSet(kept) /\ Cardinality(kept) \in Nat /\ Cardinality(kept) < StickyCapacity
      BY <2>1, KeptLeavesRoom
    <3>3. IsFiniteSet(kept \cup {k}) /\ Cardinality(kept \cup {k}) <= StickyCapacity
      <4>1. /\ IsFiniteSet(kept \cup {k})
            /\ Cardinality(kept \cup {k}) \in {Cardinality(kept), Cardinality(kept) + 1}
        BY <3>2, FS_AddElement
      <4> QED BY <3>2, <4>1, ConfigAssumption
    <3>4. /\ Cardinality(Bound(sticky')) <= Cardinality(kept \cup {k})
          /\ Cardinality(kept \cup {k}) \in Nat /\ Cardinality(Bound(sticky')) \in Nat
      BY <3>1, <3>3, FS_Subset, FS_CardinalityType
    <3>5. Bound(sticky)' = Bound(sticky')
      BY DEF Bound
    <3> QED BY <3>3, <3>4, <3>5, ConfigAssumption
  <2> QED BY <2>2, <2>3 DEF BindingsInv
<1> QED BY <1>1, <1>2

\* What a step that binds nothing does to the table: it leaves each binding, drops
\* it, counts one more request within the quota, or lets it expire.
LEMMA BindingMoves ==
  ASSUME RouterInv, BindingsInv, [Next]_vars, NEW k \in Keys,
         \A r \in Requests : ~Succeed(r), sticky'[k] # NoBinding
  PROVE  /\ sticky[k] # NoBinding
         /\ sticky'[k].account = sticky[k].account
         /\ sticky'[k].count <= StickyLimit
<1>0. /\ sticky \in [Keys -> Binding \cup {NoBinding}]
      /\ sticky[k] # NoBinding => sticky[k] \in Binding /\ sticky[k].count <= StickyLimit
  BY DEF RouterInv, TypeOK, BindingsInv, Earned
<1>1. CASE UNCHANGED sticky
  BY <1>0, <1>1
<1>2. CASE \E r \in Requests : ReuseBinding(r)
  <2>1. PICK r \in Requests : ReuseBinding(r)
    BY <1>2
  <2> DEFINE j == Conversation[r]
  <2>2. /\ j \in Keys /\ sticky[j] # NoBinding /\ ~(sticky[j].count + 1 > StickyLimit)
        /\ sticky' = [sticky EXCEPT ![j] = [sticky[j] EXCEPT !.count = @ + 1]]
    BY <2>1 DEF ReuseBinding, Follows, QuotaServed, Keys
  <2>3. CASE k = j
    <3>1. sticky[k] \in Binding /\ sticky'[k] = [sticky[k] EXCEPT !.count = sticky[k].count + 1]
      BY <1>0, <2>2, <2>3
    <3>2. sticky'[k].count = sticky[k].count + 1 /\ sticky'[k].account = sticky[k].account
          /\ sticky[k].count \in Nat
      BY <3>1 DEF Binding
    <3> QED BY <2>2, <2>3, <3>2, ConfigAssumption
  <2>4. CASE k # j
    BY <1>0, <2>2, <2>4
  <2> QED BY <2>3, <2>4
<1>3. CASE \E r \in Requests : RotateAfterQuota(r) \/ DropBinding(r)
  BY <1>0, <1>3 DEF RotateAfterQuota, DropBinding
<1>4. CASE \E j \in Keys : BindingExpires(j)
  <2>1. PICK j \in Keys : BindingExpires(j)
    BY <1>4
  <2>2. sticky[j] # NoBinding
        /\ sticky' = [sticky EXCEPT ![j] = [sticky[j] EXCEPT !.expired = TRUE]]
    BY <2>1 DEF BindingExpires
  <2>3. CASE k = j
    <3>1. sticky[k] \in Binding /\ sticky'[k] = [sticky[k] EXCEPT !.expired = TRUE]
      BY <1>0, <2>2, <2>3
    <3>2. sticky'[k].count = sticky[k].count /\ sticky'[k].account = sticky[k].account
      BY <3>1 DEF Binding
    <3> QED BY <1>0, <2>2, <2>3, <3>2
  <2>4. CASE k # j
    BY <1>0, <2>2, <2>4
  <2> QED BY <2>3, <2>4
<1>5. \/ UNCHANGED sticky
      \/ \E r \in Requests : ReuseBinding(r)
      \/ \E r \in Requests : RotateAfterQuota(r) \/ DropBinding(r)
      \/ \E j \in Keys : BindingExpires(j)
  BY DEF Next, vars, routerVars, Picking, Chatting, Handling, Health, AllDone, Route, NoRoute,
     ReadCursor, AdvanceCursor, LeastLoaded, Prepared, PrepareFails, UnknownModel,
     AbandonQueue, CountIn, Deliver, Finish, Release, Admit, FailOver, Fail, Probe,
     Check, CooldownEnds, RevokeKey
<1> QED BY <1>1, <1>2, <1>3, <1>4, <1>5

\* A conversation is bound only to an account on which one of its own requests
\* succeeded, no binding is reused past its quota, and the table stays within its
\* capacity (bind, pick, pruneSticky).
THEOREM BindingsSoundHolds == Spec => []BindingsSound
<1>1. Init => BindingsInv
  <2> SUFFICES ASSUME Init PROVE BindingsInv
    OBVIOUS
  <2>1. sticky = [k \in Keys |-> NoBinding]
    BY DEF Init
  <2>2. Bound(sticky) = {}
    BY <2>1 DEF Bound
  <2>3. Cardinality(Bound(sticky)) <= StickyCapacity
    BY <2>2, FS_EmptySet, ConfigAssumption
  <2> QED BY <2>1, <2>3 DEF BindingsInv, Earned
<1>2. RouterInv /\ BindingsInv /\ [Next]_vars => BindingsInv'
  <2> SUFFICES ASSUME RouterInv, BindingsInv, [Next]_vars PROVE BindingsInv'
    OBVIOUS
  <2>1. CASE \E r \in Requests : Succeed(r)
    BY <2>1, BindKeepsSound
  <2>2. CASE \A r \in Requests : ~Succeed(r)
    <3>1. \A k \in Keys : Earned(k)'
      BY <2>2, BindingMoves, EarnedStays DEF BindingsInv
    <3>2. Cardinality(Bound(sticky)') <= StickyCapacity
      BY <2>2, BindingMoves, CapacityStays DEF BindingsInv
    <3> QED BY <3>1, <3>2 DEF BindingsInv
  <2> QED BY <2>1, <2>2
<1>3. BindingsInv => BindingsSound
  BY DEF BindingsInv, Earned, BindingsSound
<1> QED BY <1>1, <1>2, <1>3, RouterInvariant, PTL DEF Spec
===============================================================================
