---------------------------- MODULE SessionProofs -----------------------------
(***************************************************************************)
(* Proofs about Session, for any set of callers and any number of          *)
(* operations and expiries: the type invariant and the safety properties.  *)
(* That every caller is served stays with TLC.                             *)
(***************************************************************************)
EXTENDS Session, FiniteSetTheorems, TLAPS

USE OpsAssumption, BoundAssumption, CallersAssumption

\* The places of a renewal, where the refresh lock is held.
Holding == {"renew", "login", "tier", "lookup", "fallback", "apply"}

\* The lock is held by the caller that renews, only a rejected stream forces a
\* renewal, and whoever may still retry has an attempt left.
Structure(c) ==
  /\ pc[c] \in Holding => refreshMu = c
  /\ pc[c] \in {"ensure", "catalog", "sleep", "fetch", "store", "release", "status", "quota"}
       => ~me[c].force
  /\ pc[c] \in {"lock"} \cup Holding /\ me[c].force => me[c].attempt < 2
  /\ pc[c] = "backoff" => me[c].attempt < 2

Structured == \A c \in Callers : Structure(c)

-------------------------------------------------------------------------------
(* Moves of one caller                                                     *)

\* What a move changes: the caller's place and locals, and nobody else's.
LEMMA MoveChanges ==
  ASSUME TypeOK, NEW c \in Callers, NEW where, NEW locals, Move(c, where, locals)
  PROVE  /\ pc'[c] = where
         /\ me'[c] = IF where = "idle" THEN NoLocals ELSE locals
         /\ \A d \in Callers \ {c} : pc'[d] = pc[d] /\ me'[d] = me[d]
BY DEF Move, TypeOK

\* The locals of a caller without an operation.
LEMMA NoLocalsType == NoLocals \in Locals /\ ~NoLocals.force
<1>1. NoLocals \in Locals
  BY DEF NoLocals, Locals
<1>2. ~NoLocals.force
  BY DEF NoLocals
<1> QED BY <1>1, <1>2

\* A move to a place with well-typed locals keeps the types.
LEMMA MoveType ==
  ASSUME TypeOK, NEW c \in Callers, NEW where \in Steps, NEW locals \in Locals,
         Move(c, where, locals)
  PROVE  pc' \in [Callers -> Steps] /\ me' \in [Callers -> Locals]
BY NoLocalsType DEF Move, TypeOK

\* Going on with the same locals.
LEMMA GoType ==
  ASSUME TypeOK, NEW c \in Callers, NEW where \in Steps, Go(c, where)
  PROVE  /\ pc' \in [Callers -> Steps] /\ me' \in [Callers -> Locals]
         /\ pc'[c] = where
         /\ me'[c] = IF where = "idle" THEN NoLocals ELSE me[c]
         /\ \A d \in Callers \ {c} : pc'[d] = pc[d] /\ me'[d] = me[d]
<1>1. me[c] \in Locals
  BY DEF TypeOK
<1> QED BY <1>1, MoveType, MoveChanges DEF Go

-------------------------------------------------------------------------------
(* Types and structure, one lemma per group of actions                     *)

\* A caller that begins.
LEMMA BeginType ==
  ASSUME TypeOK, Structured, NEW c \in Callers, Begin(c)
  PROVE  TypeOK' /\ Structured'
<1>1. PICK where \in {"ensure", "catalog"}, locals \in Locals :
        Move(c, where, locals) /\ ~locals.force
  <2>1. /\ [NoLocals EXCEPT !.ret = "status"] \in Locals
        /\ ~[NoLocals EXCEPT !.ret = "status"].force
    BY NoLocalsType DEF Locals
  <2>2. /\ [NoLocals EXCEPT !.ret = "catalog", !.attempt = 1] \in Locals
        /\ ~[NoLocals EXCEPT !.ret = "catalog", !.attempt = 1].force
    <3>1. [NoLocals EXCEPT !.ret = "catalog"] \in Locals
          /\ ~[NoLocals EXCEPT !.ret = "catalog"].force
      BY NoLocalsType DEF Locals
    <3>2. [NoLocals EXCEPT !.ret = "catalog", !.attempt = 1]
            = [[NoLocals EXCEPT !.ret = "catalog"] EXCEPT !.attempt = 1]
      BY DEF NoLocals
    <3>3. \A l \in Locals : [l EXCEPT !.attempt = 1] \in Locals
                           /\ [l EXCEPT !.attempt = 1].force = l.force
      BY DEF Locals
    <3> QED BY <3>1, <3>2, <3>3
  <2> QED BY <2>1, <2>2, NoLocalsType DEF Begin
<1>2. pc' \in [Callers -> Steps] /\ me' \in [Callers -> Locals]
  BY <1>1, MoveType DEF Steps
<1>3. TypeOK'
  BY <1>2 DEF Begin, TypeOK, sessionVars, accountVars, catalogVars
<1>4. Structured'
  BY <1>1, MoveChanges DEF Structured, Structure, Begin, Holding, sessionVars
<1> QED BY <1>3, <1>4

\* The check, the lock and the renewal.
LEMMA RenewalType ==
  ASSUME TypeOK, Structured, NEW c \in Callers,
         Check(c) \/ Lock(c) \/ Renew(c) \/ Login(c)
  PROVE  TypeOK' /\ Structured'
<1>0. me[c] \in Locals /\ sess.v \in Nat /\ issued \in Nat
  BY DEF TypeOK
<1>1. CASE Check(c)
  <2>1. PICK where \in Steps : Go(c, where) /\ where \in {me[c].ret, "lock"}
    BY <1>0, <1>1 DEF Check, Steps, Locals
  <2>2. TypeOK'
    BY <1>1, <2>1, GoType DEF Check, TypeOK, sessionVars, accountVars, catalogVars, envVars
  <2>3. Structured'
    BY <1>0, <1>1, <2>1, GoType
       DEF Check, Structured, Structure, Holding, sessionVars, Locals, NoLocals
  <2> QED BY <2>2, <2>3
<1>2. CASE Lock(c)
  <2> DEFINE then == Underlock(c)
             locals == [me[c] EXCEPT !.token = IF then = "renew" THEN sess.v ELSE 0]
  <2>1. then \in {"renew", "login", "idle", "catalog", "fetch", "status"}
        /\ (then \notin {"renew", "login"} => ~me[c].force)
    BY <1>0 DEF Underlock, Locals
  <2>2. locals \in Locals /\ locals.force = me[c].force /\ locals.attempt = me[c].attempt
    BY <1>0 DEF Locals
  <2>3. Move(c, then, locals)
    BY <1>2 DEF Lock
  <2> HIDE DEF then, locals
  <2>4. refreshMu = NoOne /\ refreshMu' = IF then \in {"renew", "login"} THEN c ELSE NoOne
    BY <1>2 DEF Lock, then
  <2>5. pc' \in [Callers -> Steps] /\ me' \in [Callers -> Locals]
    BY <2>1, <2>2, <2>3, MoveType DEF Steps
  <2>6. TypeOK'
    BY <1>2, <2>4, <2>5 DEF Lock, TypeOK, accountVars, catalogVars, envVars
  <2>7. \A d \in Callers : Structure(d)'
    <3>1. Structure(c)'
      BY <1>2, <2>1, <2>2, <2>3, <2>4, MoveChanges
         DEF Lock, Structured, Structure, Holding, NoLocals
    <3>2. ASSUME NEW d \in Callers \ {c} PROVE Structure(d)'
      BY <2>3, <2>4, MoveChanges DEF Structured, Structure, Holding
    <3> QED BY <3>1, <3>2
  <2> QED BY <2>6, <2>7 DEF Structured
<1>3. CASE Renew(c) \/ Login(c)
  <2>1. PICK where \in Steps, locals \in Locals :
          /\ Move(c, where, locals)
          /\ locals.force = me[c].force /\ locals.attempt = me[c].attempt
          /\ \/ where \in {"tier", "login"} /\ UNCHANGED refreshMu
             \/ where = "idle" /\ refreshMu' = NoOne
             \/ where = "store" /\ refreshMu' = NoOne /\ ~me[c].force
          /\ issued' \in Nat
    <3>1. CASE Issue(c)
      BY <1>0, <3>1 DEF Issue, Locals, Steps
    <3>2. CASE GiveUp(c)
      BY <1>0, <3>2 DEF GiveUp, Locals, Steps
    <3>3. CASE Go(c, "login") /\ UNCHANGED <<issued, refreshMu>>
      BY <1>0, <3>3 DEF Go, Steps
    <3> QED BY <1>3, <3>1, <3>2, <3>3 DEF Renew, Login
  <2>2. pc' \in [Callers -> Steps] /\ me' \in [Callers -> Locals]
    BY <2>1, MoveType
  <2>3. refreshMu = c /\ pc[c] \in Holding
    BY <1>3 DEF Structured, Structure, Holding, Renew, Login
  <2>4. TypeOK'
    BY <1>3, <2>1, <2>2, <2>3 DEF Renew, Login, TypeOK, accountVars, catalogVars, envVars
  <2>5. Structure(c)'
    BY <2>1, <2>3, MoveChanges DEF Structured, Structure, Holding, NoLocals
  <2>6. ASSUME NEW d \in Callers \ {c} PROVE Structure(d)'
    BY <2>1, <2>3, MoveChanges DEF Structured, Structure, Holding
  <2> QED BY <2>4, <2>5, <2>6 DEF Structured
<1> QED BY <1>1, <1>2, <1>3

\* The tier and the session built with it.
LEMMA TierType ==
  ASSUME TypeOK, Structured, NEW c \in Callers,
         CachedTier(c) \/ LookupTier(c) \/ FallbackTier(c) \/ Apply(c)
  PROVE  TypeOK' /\ Structured'
<1>0. me[c] \in Locals /\ acct \in {"none", "unknown", "known"}
  BY DEF TypeOK
<1>1. pc[c] \in Holding /\ refreshMu = c
  BY DEF Structured, Structure, Holding, CachedTier, LookupTier, FallbackTier, Apply
<1>2. CASE CachedTier(c) \/ LookupTier(c) \/ FallbackTier(c)
  <2>1. PICK where \in {"lookup", "fallback", "apply"}, locals \in Locals :
          /\ Move(c, where, locals)
          /\ locals.force = me[c].force /\ locals.attempt = me[c].attempt
    <3>1. \A t \in {"none", "unknown", "known"} :
            LET l == [me[c] EXCEPT !.tier = t]
            IN l \in Locals /\ l.force = me[c].force /\ l.attempt = me[c].attempt
      BY <1>0 DEF Locals
    <3> QED BY <1>0, <1>2, <3>1 DEF CachedTier, LookupTier, FallbackTier, StatusAnswer, Go
  <2>2. pc' \in [Callers -> Steps] /\ me' \in [Callers -> Locals]
    BY <2>1, MoveType DEF Steps
  <2>3. TypeOK'
    BY <1>2, <2>2
       DEF CachedTier, LookupTier, FallbackTier, StatusAnswer, TypeOK, sessionVars, accountVars, catalogVars, envVars
  <2>4. refreshMu' = refreshMu
    BY <1>2 DEF CachedTier, LookupTier, FallbackTier, sessionVars
  <2>5. Structured'
    BY <1>1, <2>1, <2>4, MoveChanges DEF Structured, Structure, Holding
  <2> QED BY <2>3, <2>5
<1>3. CASE Apply(c)
  <2>0. me[c].force => me[c].attempt < 2
    BY <1>1 DEF Structured, Structure
  <2>1. PICK where \in {"open", "idle", "catalog", "fetch", "status"}, locals \in Locals :
          Move(c, where, locals) /\ (where # "open" => ~locals.force)
    <3> DEFINE rest == [me[c] EXCEPT !.token = 0, !.tier = "none"]
    <3>1. rest \in Locals /\ rest.force = me[c].force /\ rest.attempt = me[c].attempt
      BY <1>0 DEF Locals
    <3>2. me[c].force => [rest EXCEPT !.attempt = @ + 1] \in Locals
      <4>1. rest.attempt \in 0 .. 2
        BY <3>1 DEF Locals
      <4>2. me[c].force => rest.attempt + 1 \in 0 .. 2
        BY <2>0, <3>1, <4>1
      <4> HIDE DEF rest
      <4> QED BY <3>1, <4>2 DEF Locals
    <3>3. me[c].ret \in {"idle", "catalog", "fetch", "status"}
      BY <1>0 DEF Locals
    <3> QED BY <1>3, <3>1, <3>2, <3>3 DEF Apply
  <2>2. pc' \in [Callers -> Steps] /\ me' \in [Callers -> Locals]
    BY <2>1, MoveType DEF Steps
  <2>3. sess' \in [v : Nat, tier : {"default", "named", "known"}]
    BY <1>0, <1>3 DEF Apply, Locals
  <2>4. renewals' \in Nat
    BY <1>3 DEF Apply, TypeOK
  <2>5. TypeOK'
    BY <1>3, <2>2, <2>3, <2>4 DEF Apply, TypeOK, accountVars, catalogVars, envVars
  <2>6. refreshMu' = NoOne
    BY <1>3 DEF Apply
  <2>7. Structured'
    BY <1>1, <2>1, <2>6, MoveChanges DEF Structured, Structure, Holding, NoLocals
  <2> QED BY <2>5, <2>7
<1> QED BY <1>2, <1>3

\* The account status a probe puts together.
LEMMA ProbeType ==
  ASSUME TypeOK, Structured, NEW c \in Callers, Status(c) \/ Quota(c)
  PROVE  TypeOK' /\ Structured'
<1>0. me[c] \in Locals /\ acct \in {"none", "unknown", "known"} /\ ~me[c].force
  BY DEF TypeOK, Structured, Structure, Status, Quota
<1>1. PICK where \in {"quota", "idle"}, locals \in Locals :
        Move(c, where, locals) /\ ~locals.force
  <2>1. \A t \in {"none", "unknown", "known"} :
          [me[c] EXCEPT !.tier = t] \in Locals /\ ~[me[c] EXCEPT !.tier = t].force
    BY <1>0 DEF Locals
  <2> QED BY <1>0, <2>1 DEF Status, StatusAnswer, Quota, Go
<1>2. pc' \in [Callers -> Steps] /\ me' \in [Callers -> Locals]
  BY <1>1, MoveType DEF Steps
<1>3. /\ acct' \in {"none", "unknown", "known"}
      /\ acctFresh' \in BOOLEAN /\ forgotten' \in BOOLEAN
  <2>1. CASE Status(c)
    BY <2>1 DEF Status, StatusAnswer, accountVars, TypeOK
  <2>2. CASE Quota(c)
    BY <2>2 DEF Quota, TypeOK
  <2> QED BY <2>1, <2>2
<1>4. TypeOK'
  BY <1>2, <1>3 DEF Status, Quota, TypeOK, sessionVars, catalogVars, envVars
<1>5. refreshMu' = refreshMu
  BY DEF Status, Quota, sessionVars
<1>6. Structured'
  BY <1>1, <1>5, MoveChanges DEF Structured, Structure, Holding, NoLocals
<1> QED BY <1>4, <1>6

\* The catalogue lookup.
LEMMA CatalogType ==
  ASSUME TypeOK, Structured, NEW c \in Callers,
         GetCatalog(c) \/ WakeUp(c) \/ FetchCatalog(c) \/ StoreCatalog(c) \/ ReleaseFetch(c)
  PROVE  TypeOK' /\ Structured'
<1>0. me[c] \in Locals /\ ~me[c].force
  BY DEF TypeOK, Structured, Structure, GetCatalog, WakeUp, FetchCatalog, StoreCatalog, ReleaseFetch
<1>1. PICK where \in {"open", "idle", "sleep", "ensure", "store", "release"}, locals \in Locals :
        Move(c, where, locals) /\ ~locals.force
  <2>1. /\ [me[c] EXCEPT !.ret = "fetch"] \in Locals
        /\ ~[me[c] EXCEPT !.ret = "fetch"].force
        /\ \A f \in {"none", "dynamic"} :
             [me[c] EXCEPT !.fetched = f] \in Locals /\ ~[me[c] EXCEPT !.fetched = f].force
    BY <1>0 DEF Locals
  <2> QED BY <1>0, <2>1
       DEF GetCatalog, WakeUp, FetchCatalog, StoreCatalog, ReleaseFetch, CatalogDone, TakeFetch, Go
<1>2. pc' \in [Callers -> Steps] /\ me' \in [Callers -> Locals]
  BY <1>1, MoveType DEF Steps
<1>3. catalog' \in {"none", "default", "dynamic"} /\ catFresh' \in BOOLEAN /\ inflight' \in BOOLEAN
  BY <1>0 DEF GetCatalog, WakeUp, FetchCatalog, StoreCatalog, ReleaseFetch, TakeFetch,
              TypeOK, catalogVars, Locals
<1>4. UNCHANGED <<sessionVars, accountVars, envVars>>
  BY DEF GetCatalog, WakeUp, FetchCatalog, StoreCatalog, ReleaseFetch
<1>5. TypeOK'
  BY <1>2, <1>3, <1>4 DEF TypeOK, sessionVars, accountVars, envVars
<1>6. Structured'
  BY <1>1, <1>4, MoveChanges DEF Structured, Structure, Holding, NoLocals, sessionVars
<1> QED BY <1>5, <1>6

\* The attempts of an upstream exchange.
LEMMA StreamType ==
  ASSUME TypeOK, Structured, NEW c \in Callers,
         Open(c) \/ Line(c) \/ StreamEnds(c) \/ AuthRejected(c) \/ Busy(c) \/ Backoff(c)
  PROVE  TypeOK' /\ Structured'
<1>0. me[c] \in Locals /\ sess.v \in Nat
  BY DEF TypeOK
<1>1. PICK where \in {"idle", "stream", "lock", "backoff", "open"}, locals \in Locals :
        Move(c, where, locals) /\ (where \in {"lock", "backoff"} => locals.attempt < 2)
  <2>1. CASE Open(c)
    <3>1. [me[c] EXCEPT !.used = sess.v, !.produced = FALSE] \in Locals
      BY <1>0 DEF Locals
    <3> QED BY <1>0, <2>1, <3>1 DEF Open, Go
  <2>2. CASE Line(c)
    <3>1. [me[c] EXCEPT !.produced = TRUE, !.delivered = @ \cup {me[c].attempt}] \in Locals
      BY <1>0 DEF Locals
    <3> QED BY <2>2, <3>1 DEF Line
  <2>3. CASE StreamEnds(c)
    BY <1>0, <2>3 DEF StreamEnds, Go
  <2>4. CASE AuthRejected(c)
    <3> DEFINE l == [me[c] EXCEPT !.force = TRUE, !.rejected = me[c].used]
    <3>1. l \in Locals /\ l.attempt = me[c].attempt
      BY <1>0 DEF Locals
    <3>2. Move(c, IF MayRetry(c) THEN "lock" ELSE "idle", l)
      BY <2>4 DEF AuthRejected
    <3> HIDE DEF l
    <3> QED BY <3>1, <3>2 DEF MayRetry
  <2>5. CASE Busy(c)
    BY <1>0, <2>5 DEF Busy, MayRetry, Go
  <2>6. CASE Backoff(c)
    <3>1. me[c].attempt \in 0 .. 1
      BY <1>0, <2>6 DEF Backoff, Structured, Structure, Locals
    <3>2. [me[c] EXCEPT !.attempt = @ + 1] \in Locals
      BY <1>0, <3>1 DEF Locals
    <3> QED BY <1>0, <2>6, <3>2 DEF Backoff, Go
  <2> QED BY <2>1, <2>2, <2>3, <2>4, <2>5, <2>6
<1>2. pc' \in [Callers -> Steps] /\ me' \in [Callers -> Locals]
  BY <1>1, MoveType DEF Steps
<1>3. UNCHANGED <<sessionVars, accountVars, catalogVars, envVars>>
  BY DEF Open, Line, StreamEnds, AuthRejected, Busy, Backoff
<1>4. TypeOK'
  BY <1>2, <1>3 DEF TypeOK, sessionVars, accountVars, catalogVars, envVars
<1>5. Structured'
  BY <1>1, <1>3, MoveChanges DEF Structured, Structure, Holding, NoLocals, sessionVars
<1> QED BY <1>4, <1>5

\* The clock.
LEMMA ClockType ==
  ASSUME TypeOK, Structured, SessionAges \/ CacheAges
  PROVE  TypeOK' /\ Structured'
<1>1. CASE SessionAges
  BY <1>1 DEF SessionAges, TypeOK, Structured, Structure, accountVars, catalogVars
<1>2. CASE CacheAges
  <2>1. UNCHANGED <<pc, me, refreshMu>>
    BY <1>2 DEF CacheAges, sessionVars
  <2>2. TypeOK'
    <3>0. stale' \in Nat
      BY <1>2 DEF CacheAges, TypeOK
    <3>1. acctFresh' \in BOOLEAN /\ catFresh' \in BOOLEAN
      BY <1>2, Zenon DEF CacheAges, TypeOK
    <3>2. UNCHANGED <<sess, ready, aging, refreshMu, issued, renewals, acct, forgotten,
                      catalog, inflight, pc, me, ops, expiries>>
      BY <1>2 DEF CacheAges, sessionVars
    <3> QED BY <3>0, <3>1, <3>2 DEF TypeOK
  <2> QED BY <2>1, <2>2 DEF Structured, Structure
<1> QED BY <1>1, <1>2

\* Types and structure are kept by every step.
LEMMA TypeStep == TypeOK /\ Structured /\ [Next]_vars => TypeOK' /\ Structured'
<1> SUFFICES ASSUME TypeOK, Structured, [Next]_vars PROVE TypeOK' /\ Structured'
  OBVIOUS
<1>1. ASSUME NEW c \in Callers, Begin(c) \/ Line(c) \/ Answer(c)
      PROVE  TypeOK' /\ Structured'
  BY <1>1, BeginType, RenewalType, TierType, ProbeType, CatalogType, StreamType DEF Answer
<1>2. CASE SessionAges \/ CacheAges
  BY <1>2, ClockType
<1>3. CASE UNCHANGED vars
  BY <1>3 DEF vars, TypeOK, Structured, Structure, sessionVars, accountVars, catalogVars, envVars
<1> QED BY <1>1, <1>2, <1>3 DEF Next

\* The initial state is well-typed and structured.
LEMMA TypeInit == Init => TypeOK /\ Structured
<1>1. Init => TypeOK
  <2> SUFFICES ASSUME Init PROVE TypeOK
    OBVIOUS
  <2>1. sess \in [v : Nat, tier : {"default", "named", "known"}]
    BY DEF Init, NoSession
  <2>2. pc \in [Callers -> Steps] /\ me \in [Callers -> Locals]
    BY NoLocalsType DEF Init, Steps
  <2> QED BY <2>1, <2>2 DEF Init, TypeOK
<1>2. Init => Structured
  BY DEF Init, Structured, Structure, Holding
<1> QED BY <1>1, <1>2

\* Every reachable state of the session and its callers is well-typed, with the
\* refresh lock held by whoever renews (EnsureFreshSession, forceRefresh).
THEOREM SessionTypeCorrect == Spec => [](TypeOK /\ Structured)
BY TypeInit, TypeStep, PTL DEF Spec

-------------------------------------------------------------------------------
(* The session: it exists before it is used and is never replaced by an    *)
(* older one, and a rejected stream is retried with a newer one only.      *)

\* Where a caller relies on a session: past EnsureFreshSession, and in a chat
\* that has been past it and looks the catalogue up.
Past(c) ==
  \/ pc[c] \in {"fetch", "status", "quota", "open", "stream", "backoff"}
  \/ me[c].attempt = 1 /\ pc[c] \in {"catalog", "sleep", "store", "release"}
  \/ me[c].attempt = 1 /\ me[c].ret = "fetch" /\ pc[c] \in {"ensure", "lock"} \cup Holding

\* The job token being turned into a session is the last one issued, and newer
\* than the current session's; what was rejected was a session of the past, and
\* a stream that may still be opened or retried gets a newer one.
Newer(c) ==
  /\ pc[c] \in {"tier", "lookup", "fallback", "apply"} => me[c].token = issued /\ sess.v < issued
  /\ me[c].rejected <= sess.v
  /\ ~me[c].force => me[c].rejected = 0
  /\ pc[c] \in {"open", "backoff"} => me[c].rejected < sess.v
  /\ pc[c] = "stream" => me[c].rejected < me[c].used /\ me[c].used <= sess.v

SessionInv ==
  /\ sess.v <= issued
  /\ ready => sess.v # 0
  /\ \A c \in Callers : (Past(c) => sess.v # 0) /\ Newer(c)

\* A step that leaves the session alone and moves one caller to a place where
\* the invariant holds for it keeps the invariant.
LEMMA OthersKeep ==
  ASSUME TypeOK, SessionInv, NEW c \in Callers, NEW where, NEW locals,
         Move(c, where, locals), UNCHANGED <<sess, issued, ready>>,
         (Past(c) => sess.v # 0)', Newer(c)'
  PROVE  SessionInv'
<1>1. ASSUME NEW d \in Callers \ {c}
      PROVE  (Past(d) => sess.v # 0)' /\ Newer(d)'
  BY <1>1, MoveChanges DEF SessionInv, Past, Newer, Holding
<1> QED BY <1>1 DEF SessionInv

\* The check, the lock and the failure of a renewal.
LEMMA CheckKeeps ==
  ASSUME TypeOK, Structured, SessionInv, NEW c \in Callers, Check(c) \/ Lock(c)
  PROVE  SessionInv'
<1>0. me[c] \in Locals /\ sess.v \in Nat /\ issued \in Nat
  BY DEF TypeOK
<1>1. CASE Check(c)
  <2>0. pc[c] = "ensure" /\ ~me[c].force
    BY <1>1 DEF Check, Structured, Structure
  <2>1. PICK where : /\ Move(c, where, me[c])
                     /\ \/ where = "lock"
                        \/ where = me[c].ret /\ sess.v # 0
    BY <1>1 DEF Check, Go, NeedsRefresh
  <2>2. UNCHANGED <<sess, issued, ready>>
    BY <1>1 DEF Check, sessionVars
  <2>3. pc'[c] = where /\ me'[c] = IF where = "idle" THEN NoLocals ELSE me[c]
    BY <2>1, MoveChanges
  <2>4. (Past(c) => sess.v # 0)'
    BY <1>0, <2>0, <2>1, <2>2, <2>3 DEF SessionInv, Past, Holding, NoLocals, Locals
  <2>5. Newer(c)'
    BY <1>0, <2>0, <2>1, <2>2, <2>3 DEF SessionInv, Newer, NoLocals, Locals
  <2> QED BY <2>1, <2>2, <2>4, <2>5, OthersKeep
<1>2. CASE Lock(c)
  <2> DEFINE then == Underlock(c)
             locals == [me[c] EXCEPT !.token = IF then = "renew" THEN sess.v ELSE 0]
  <2>0. pc[c] = "lock"
    BY <1>2 DEF Lock
  <2>1. \/ then \in {"renew", "login"}
        \/ then = me[c].ret /\ ~me[c].force /\ sess.v # 0
    BY <1>0 DEF Underlock, NeedsRefresh, SessionInv
  <2>2. /\ locals \in Locals /\ locals.force = me[c].force /\ locals.attempt = me[c].attempt
        /\ locals.ret = me[c].ret /\ locals.rejected = me[c].rejected
    BY <1>0 DEF Locals
  <2>3. Move(c, then, locals)
    BY <1>2 DEF Lock
  <2> HIDE DEF then, locals
  <2>4. UNCHANGED <<sess, issued, ready>>
    BY <1>2 DEF Lock
  <2>5. pc'[c] = then /\ me'[c] = IF then = "idle" THEN NoLocals ELSE locals
    BY <2>3, MoveChanges
  <2>6. (Past(c) => sess.v # 0)'
    BY <1>0, <2>0, <2>1, <2>2, <2>4, <2>5 DEF SessionInv, Past, Holding, NoLocals, Locals
  <2>7. Newer(c)'
    BY <1>0, <2>0, <2>1, <2>2, <2>4, <2>5 DEF SessionInv, Newer, NoLocals, Locals
  <2> QED BY <2>3, <2>4, <2>6, <2>7, OthersKeep
<1> QED BY <1>1, <1>2

\* A renewal or login: only the holder of the lock has a token in its hands, so
\* that the token the gateway issues now is the newest.
LEMMA RenewKeeps ==
  ASSUME TypeOK, Structured, SessionInv, NEW c \in Callers, Renew(c) \/ Login(c)
  PROVE  SessionInv'
<1>0. me[c] \in Locals /\ sess.v \in Nat /\ issued \in Nat /\ pc[c] \in {"renew", "login"}
  BY DEF TypeOK, Renew, Login
<1>1. UNCHANGED <<sess, ready>>
  BY DEF Renew, Login
<1>2. CASE Issue(c)
  <2> DEFINE locals == [me[c] EXCEPT !.token = issued + 1]
  <2>1. /\ locals.token = issued + 1 /\ locals.force = me[c].force
        /\ locals.attempt = me[c].attempt /\ locals.ret = me[c].ret
        /\ locals.rejected = me[c].rejected
    BY <1>0 DEF Locals
  <2>2. Move(c, "tier", locals) /\ issued' = issued + 1
    BY <1>2 DEF Issue
  <2> HIDE DEF locals
  <2>3. pc'[c] = "tier" /\ me'[c] = locals
    BY <2>2, MoveChanges
  <2>4. (Past(c) => sess.v # 0)' /\ Newer(c)'
    BY <1>0, <1>1, <2>1, <2>2, <2>3 DEF SessionInv, Past, Newer, Holding
  <2>5. ASSUME NEW d \in Callers \ {c}
        PROVE  (Past(d) => sess.v # 0)' /\ Newer(d)'
    <3>1. pc[d] \notin {"tier", "lookup", "fallback", "apply"}
      BY <1>0 DEF Structured, Structure, Holding
    <3>2. pc'[d] = pc[d] /\ me'[d] = me[d]
      BY <2>2, MoveChanges
    <3> QED BY <1>1, <3>1, <3>2 DEF SessionInv, Past, Newer, Holding
  <2> QED BY <1>0, <1>1, <2>2, <2>4, <2>5 DEF SessionInv
<1>3. CASE ~Issue(c)
  <2>1. PICK where, locals :
          /\ Move(c, where, locals) /\ issued' = issued
          /\ locals.force = me[c].force /\ locals.attempt = me[c].attempt
          /\ locals.ret = me[c].ret /\ locals.rejected = me[c].rejected
          /\ \/ where \in {"login", "idle"}
             \/ where = "store" /\ ~me[c].force /\ me[c].ret = "fetch"
    <3>1. CASE GiveUp(c)
      BY <1>0, <3>1 DEF GiveUp, Locals
    <3>2. CASE Go(c, "login") /\ issued' = issued
      BY <3>2 DEF Go
    <3> QED BY <1>3, <3>1, <3>2 DEF Renew, Login
  <2>2. pc'[c] = where /\ me'[c] = IF where = "idle" THEN NoLocals ELSE locals
    BY <2>1, MoveChanges
  <2>3. (Past(c) => sess.v # 0)'
    BY <1>0, <1>1, <2>1, <2>2 DEF SessionInv, Past, Holding, NoLocals, Locals
  <2>4. Newer(c)'
    BY <1>0, <1>1, <2>1, <2>2 DEF SessionInv, Newer, NoLocals, Locals
  <2> QED BY <1>1, <2>1, <2>3, <2>4, OthersKeep
<1> QED BY <1>2, <1>3

\* The tier, the account status and the catalogue leave the session alone.
LEMMA LookupKeeps ==
  ASSUME TypeOK, Structured, SessionInv, NEW c \in Callers,
         \/ CachedTier(c) \/ LookupTier(c) \/ FallbackTier(c) \/ Status(c) \/ Quota(c)
         \/ GetCatalog(c) \/ WakeUp(c) \/ FetchCatalog(c) \/ StoreCatalog(c) \/ ReleaseFetch(c)
  PROVE  SessionInv'
<1>0. me[c] \in Locals /\ sess.v \in Nat /\ issued \in Nat
  BY DEF TypeOK
<1>1. UNCHANGED <<sess, issued, ready>>
  BY DEF CachedTier, LookupTier, FallbackTier, Status, Quota, GetCatalog, WakeUp, FetchCatalog,
         StoreCatalog, ReleaseFetch, sessionVars
<1>2. PICK where, locals :
        /\ Move(c, where, locals)
        /\ locals.force = me[c].force /\ locals.attempt = me[c].attempt
        /\ locals.rejected = me[c].rejected /\ locals.token = me[c].token
        /\ \/ /\ pc[c] \in {"tier", "lookup", "fallback"} /\ where \in {"lookup", "fallback", "apply"}
              /\ locals.ret = me[c].ret
           \/ pc[c] = "status" /\ where = "quota"
           \/ where = "idle"
           \/ pc[c] \in {"catalog", "sleep"} /\ where \in {"sleep", "ensure"}
           \/ pc[c] = "fetch" /\ where = "store"
           \/ pc[c] = "store" /\ where = "release"
           \/ pc[c] \in {"catalog", "sleep", "release"} /\ where = "open" /\ me[c].attempt = 1
  <2>1. CASE CachedTier(c) \/ LookupTier(c) \/ FallbackTier(c) \/ Status(c)
    <3> DEFINE Signs(t) == [me[c] EXCEPT !.tier = t]
    <3>1. \A t : /\ Signs(t).force = me[c].force /\ Signs(t).attempt = me[c].attempt
               /\ Signs(t).ret = me[c].ret
               /\ Signs(t).rejected = me[c].rejected /\ Signs(t).token = me[c].token
      BY <1>0 DEF Locals
    <3>2. CASE CachedTier(c)
      <4>1. \/ Move(c, "apply", Signs("known")) \/ Move(c, "fallback", me[c])
            \/ Move(c, "lookup", me[c])
        BY <3>2 DEF CachedTier, Go
      <4>2. pc[c] = "tier"
        BY <3>2 DEF CachedTier
      <4> HIDE DEF Signs
      <4> QED BY <3>1, <4>1, <4>2
    <3>3. CASE LookupTier(c)
      <4>1. Move(c, "apply", Signs("known")) \/ Move(c, "fallback", me[c])
        BY <3>3 DEF LookupTier, Go
      <4>2. pc[c] = "lookup"
        BY <3>3 DEF LookupTier
      <4> HIDE DEF Signs
      <4> QED BY <3>1, <4>1, <4>2
    <3>4. CASE FallbackTier(c)
      <4>1. Move(c, "apply", Signs(acct)) /\ pc[c] = "fallback"
        BY <3>4 DEF FallbackTier
      <4> HIDE DEF Signs
      <4> QED BY <3>1, <4>1
    <3>5. CASE Status(c)
      BY <3>1, <3>5 DEF Status
    <3> QED BY <2>1, <3>2, <3>3, <3>4, <3>5
  <2>2. CASE Quota(c)
    BY <2>2 DEF Quota, Go
  <2>3. CASE GetCatalog(c) \/ WakeUp(c)
    <3>1. LET l == [me[c] EXCEPT !.ret = "fetch"]
          IN /\ l.force = me[c].force /\ l.attempt = me[c].attempt
             /\ l.rejected = me[c].rejected /\ l.token = me[c].token
      BY <1>0 DEF Locals
    <3> QED BY <2>3, <3>1 DEF GetCatalog, WakeUp, CatalogDone, TakeFetch, Go
  <2>4. CASE FetchCatalog(c) \/ StoreCatalog(c) \/ ReleaseFetch(c)
    <3>1. \A f : LET l == [me[c] EXCEPT !.fetched = f]
                 IN /\ l.force = me[c].force /\ l.attempt = me[c].attempt
                    /\ l.rejected = me[c].rejected /\ l.token = me[c].token
      BY <1>0 DEF Locals
    <3> QED BY <2>4, <3>1 DEF FetchCatalog, StoreCatalog, ReleaseFetch, CatalogDone, Go
  <2> QED BY <2>1, <2>2, <2>3, <2>4
<1>3. pc'[c] = where /\ me'[c] = IF where = "idle" THEN NoLocals ELSE locals
  BY <1>2, MoveChanges
<1>4. (Past(c) => sess.v # 0)'
  BY <1>0, <1>1, <1>2, <1>3 DEF SessionInv, Past, Holding, NoLocals
<1>5. Newer(c)'
  <2>1. where = "open" => ~me[c].force /\ sess.v # 0
    BY <1>2 DEF Structured, Structure, SessionInv, Past
  <2> QED BY <1>0, <1>1, <1>2, <1>3, <2>1 DEF SessionInv, Newer, NoLocals, Locals
<1> QED BY <1>1, <1>2, <1>4, <1>5, OthersKeep

\* The session built with the new token: it is newer than the current one, of
\* which no other caller holds a renewal.
LEMMA ApplyKeeps ==
  ASSUME TypeOK, Structured, SessionInv, NEW c \in Callers, Apply(c)
  PROVE  SessionInv' /\ sess.v < sess'.v
<1>0. me[c] \in Locals /\ sess.v \in Nat /\ issued \in Nat /\ pc[c] = "apply"
  BY DEF TypeOK, Apply
<1>1. me[c].token = issued /\ sess.v < issued
  BY <1>0 DEF SessionInv, Newer
<1>2. sess'.v = issued /\ ready' /\ issued' = issued
  BY <1>1 DEF Apply
<1>3. PICK where, locals :
        /\ Move(c, where, locals)
        /\ locals.force = me[c].force /\ locals.rejected = me[c].rejected
        /\ where \in {"open", "idle", "catalog", "fetch", "status"}
  <2> DEFINE rest == [me[c] EXCEPT !.token = 0, !.tier = "none"]
             next == [rest EXCEPT !.attempt = @ + 1]
  <2>1. rest.force = me[c].force /\ rest.rejected = me[c].rejected
        /\ next.force = me[c].force /\ next.rejected = me[c].rejected
    BY <1>0 DEF Locals
  <2>2. me[c].ret \in {"idle", "catalog", "fetch", "status"}
    BY <1>0 DEF Locals
  <2>3. Move(c, "open", next) \/ Move(c, me[c].ret, rest)
    BY DEF Apply
  <2> HIDE DEF rest, next
  <2> QED BY <2>1, <2>2, <2>3
<1>4. pc'[c] = where /\ me'[c] = IF where = "idle" THEN NoLocals ELSE locals
  BY <1>3, MoveChanges
<1>5. me[c].rejected <= sess.v /\ me[c].rejected \in Nat
      /\ (~me[c].force => me[c].rejected = 0)
  BY <1>0 DEF SessionInv, Newer, Locals
<1>6. (Past(c) => sess.v # 0)' /\ Newer(c)'
  <2>1. sess'.v # 0
    BY <1>0, <1>1, <1>2
  <2> QED BY <1>0, <1>1, <1>2, <1>3, <1>4, <1>5, <2>1 DEF Newer, NoLocals
<1>7. ASSUME NEW d \in Callers \ {c}
      PROVE  (Past(d) => sess.v # 0)' /\ Newer(d)'
  <2>1. pc[d] \notin {"tier", "lookup", "fallback", "apply"}
    BY <1>0 DEF Structured, Structure, Holding
  <2>2. pc'[d] = pc[d] /\ me'[d] = me[d]
    BY <1>3, MoveChanges
  <2>3. me[d] \in Locals /\ Newer(d)
    BY DEF TypeOK, SessionInv
  <2>4. me[d].rejected \in Nat /\ me[d].used \in Nat
    BY <2>3 DEF Locals
  <2>5. sess'.v # 0
    BY <1>0, <1>1, <1>2
  <2> QED BY <1>0, <1>1, <1>2, <2>1, <2>2, <2>3, <2>4, <2>5 DEF Newer
<1> QED BY <1>0, <1>1, <1>2, <1>6, <1>7 DEF SessionInv

\* The beginning of an operation and the attempts of an exchange.
LEMMA ExchangeKeeps ==
  ASSUME TypeOK, Structured, SessionInv, NEW c \in Callers,
         \/ Begin(c) \/ Open(c) \/ Line(c) \/ StreamEnds(c) \/ AuthRejected(c)
         \/ Busy(c) \/ Backoff(c)
  PROVE  SessionInv'
<1>0. me[c] \in Locals /\ sess.v \in Nat /\ issued \in Nat
  BY DEF TypeOK
<1>1. UNCHANGED <<sess, issued, ready>>
  BY DEF Begin, Open, Line, StreamEnds, AuthRejected, Busy, Backoff, sessionVars
<1>2. CASE Begin(c)
  <2>1. PICK where, locals :
          /\ Move(c, where, locals) /\ ~locals.force /\ locals.rejected = 0
          /\ \/ where = "ensure" /\ locals.ret # "fetch"
             \/ where = "catalog" /\ locals.attempt # 1
    <3>1. /\ ~NoLocals.force /\ NoLocals.rejected = 0 /\ NoLocals.attempt # 1
      BY DEF NoLocals
    <3>2. LET l == [NoLocals EXCEPT !.ret = "status"]
          IN ~l.force /\ l.rejected = 0 /\ l.ret # "fetch"
      BY DEF NoLocals
    <3>3. LET l == [NoLocals EXCEPT !.ret = "catalog", !.attempt = 1]
          IN ~l.force /\ l.rejected = 0 /\ l.ret # "fetch"
      BY DEF NoLocals
    <3> QED BY <1>2, <3>1, <3>2, <3>3 DEF Begin
  <2>2. pc'[c] = where /\ me'[c] = locals
    BY <2>1, MoveChanges
  <2>3. (Past(c) => sess.v # 0)' /\ Newer(c)'
    BY <1>0, <1>1, <2>1, <2>2 DEF Past, Newer, Holding
  <2> QED BY <1>1, <2>1, <2>3, OthersKeep
<1>3. CASE Open(c) \/ Line(c) \/ StreamEnds(c) \/ AuthRejected(c) \/ Busy(c) \/ Backoff(c)
  <2>0. sess.v # 0 /\ me[c].rejected < sess.v /\ me[c].rejected \in Nat
    BY <1>0, <1>3 DEF SessionInv, Past, Newer, Open, Line, StreamEnds, AuthRejected, Busy, Backoff, Locals
  <2>1. PICK where, locals :
          /\ Move(c, where, locals)
          /\ \/ where = "idle"
             \/ where \in {"open", "backoff"} /\ locals.rejected = me[c].rejected
                /\ locals.force = me[c].force
             \/ where = "stream" /\ locals.rejected = me[c].rejected /\ locals.force = me[c].force
                /\ locals.rejected < locals.used /\ locals.used <= sess.v
             \/ where = "lock" /\ locals.force /\ locals.rejected <= sess.v
    <3>1. CASE Open(c)
      <4> DEFINE l == [me[c] EXCEPT !.used = sess.v, !.produced = FALSE]
      <4>1. l.rejected = me[c].rejected /\ l.force = me[c].force /\ l.used = sess.v
        BY <1>0 DEF Locals
      <4>2. Move(c, "stream", l) \/ Move(c, "idle", me[c])
        BY <3>1 DEF Open, Go
      <4> HIDE DEF l
      <4> QED BY <1>0, <2>0, <4>1, <4>2
    <3>2. CASE Line(c)
      <4> DEFINE l == [me[c] EXCEPT !.produced = TRUE, !.delivered = @ \cup {me[c].attempt}]
      <4>1. l.rejected = me[c].rejected /\ l.force = me[c].force /\ l.used = me[c].used
        BY <1>0 DEF Locals
      <4>2. me[c].rejected < me[c].used /\ me[c].used <= sess.v
        BY <3>2 DEF Line, SessionInv, Newer
      <4>3. Move(c, "stream", l)
        BY <3>2 DEF Line
      <4> HIDE DEF l
      <4> QED BY <4>1, <4>2, <4>3
    <3>3. CASE StreamEnds(c)
      BY <3>3 DEF StreamEnds, Go
    <3>4. CASE AuthRejected(c)
      <4> DEFINE l == [me[c] EXCEPT !.force = TRUE, !.rejected = me[c].used]
      <4>1. l.force /\ l.rejected = me[c].used
        BY <1>0 DEF Locals
      <4>2. me[c].used <= sess.v
        BY <3>4 DEF AuthRejected, SessionInv, Newer
      <4>3. Move(c, "lock", l) \/ Move(c, "idle", l)
        BY <3>4 DEF AuthRejected
      <4> HIDE DEF l
      <4> QED BY <4>1, <4>2, <4>3
    <3>5. CASE Busy(c)
      BY <3>5 DEF Busy, Go
    <3>6. CASE Backoff(c)
      <4>1. LET l == [me[c] EXCEPT !.attempt = @ + 1]
            IN l.rejected = me[c].rejected /\ l.force = me[c].force
        BY <1>0 DEF Locals
      <4> QED BY <3>6, <4>1 DEF Backoff, Go
    <3> QED BY <1>3, <3>1, <3>2, <3>3, <3>4, <3>5, <3>6
  <2>2. pc'[c] = where /\ me'[c] = IF where = "idle" THEN NoLocals ELSE locals
    BY <2>1, MoveChanges
  <2>3. (Past(c) => sess.v # 0)'
    BY <1>1, <2>0, <2>1, <2>2 DEF Past
  <2>4. Newer(c)'
    <3>1. ~me[c].force => me[c].rejected = 0
      BY DEF SessionInv, Newer
    <3> QED BY <1>0, <1>1, <2>0, <2>1, <2>2, <3>1 DEF Newer, NoLocals
  <2> QED BY <1>1, <2>1, <2>3, <2>4, OthersKeep
<1> QED BY <1>2, <1>3

\* The invariant of the session is kept, and no step goes back to an older one.
LEMMA SessionStep ==
  TypeOK /\ Structured /\ SessionInv /\ [Next]_vars => SessionInv' /\ sess'.v >= sess.v
<1> SUFFICES ASSUME TypeOK, Structured, SessionInv, [Next]_vars
             PROVE  SessionInv' /\ sess'.v >= sess.v
  OBVIOUS
<1>0. sess.v \in Nat
  BY DEF TypeOK
<1>1. ASSUME NEW c \in Callers, Apply(c) PROVE SessionInv' /\ sess'.v >= sess.v
  <2>1. sess'.v = me[c].token /\ me[c].token \in Nat
    BY <1>1 DEF Apply, TypeOK, Locals
  <2> QED BY <1>0, <1>1, <2>1, ApplyKeeps
<1>2. ASSUME NEW c \in Callers, Begin(c) \/ Line(c) \/ Answer(c), ~Apply(c)
      PROVE  SessionInv' /\ sess' = sess
  <2>1. SessionInv'
    BY <1>2, CheckKeeps, RenewKeeps, LookupKeeps, ExchangeKeeps DEF Answer
  <2>2. sess' = sess
    BY <1>2 DEF Answer, Begin, Line, Check, Lock, Renew, Login, CachedTier, LookupTier, FallbackTier, Status, Quota,
       GetCatalog, WakeUp, FetchCatalog, StoreCatalog, ReleaseFetch,
       Open, StreamEnds, AuthRejected, Busy, Backoff, sessionVars
  <2> QED BY <2>1, <2>2
<1>3. CASE SessionAges \/ CacheAges \/ UNCHANGED vars
  <2>1. UNCHANGED <<sess, issued, ready, pc, me>>
    BY <1>3 DEF SessionAges, CacheAges, vars, sessionVars
  <2> QED BY <1>0, <2>1 DEF SessionInv, Past, Newer
<1> QED BY <1>0, <1>1, <1>2, <1>3 DEF Next

\* It holds before the first login.
LEMMA SessionInit == Init => SessionInv
BY DEF Init, SessionInv, Past, Newer, Holding, NoSession, NoLocals

\* It holds in every reachable state.
LEMMA SessionAlways == Spec => [](TypeOK /\ Structured /\ SessionInv)
BY TypeInit, TypeStep, SessionInit, SessionStep, PTL DEF Spec

\* SessionBeforeUse: whoever is past EnsureFreshSession finds a session, for any
\* number of callers (currentSess never panics).
THEOREM SessionBeforeUseHolds == Spec => []SessionBeforeUse
<1>1. SessionInv => SessionBeforeUse
  BY DEF SessionInv, SessionBeforeUse, Past
<1> QED BY <1>1, SessionAlways, PTL

\* RetryUsesNewer: openStreamAsync's retry of a rejected stream uses a session
\* newer than the rejected one.
THEOREM RetryUsesNewerHolds == Spec => []RetryUsesNewer
<1>1. TypeOK /\ SessionInv => RetryUsesNewer
  BY DEF TypeOK, Locals, SessionInv, RetryUsesNewer, Newer
<1> QED BY <1>1, SessionAlways, PTL

\* SessionMonotone: no renewal that comes late replaces a newer session.
THEOREM SessionMonotoneHolds == Spec => SessionMonotone
<1>1. TypeOK /\ Structured /\ SessionInv /\ [Next]_vars => [sess'.v >= sess.v]_vars
  BY SessionStep
<1> QED BY <1>1, SessionAlways, PTL DEF Spec, SessionMonotone

-------------------------------------------------------------------------------
(* One renewal per expiry, one attempt that delivers, and the signed tier  *)

\* The moves that leave the tier and the delivered attempts of a caller alone.
Plain(c) ==
  \/ Check(c) \/ Lock(c) \/ Renew(c) \/ Login(c) \/ Quota(c)
  \/ GetCatalog(c) \/ WakeUp(c) \/ FetchCatalog(c) \/ StoreCatalog(c) \/ ReleaseFetch(c)
  \/ StreamEnds(c) \/ Busy(c) \/ Backoff(c)

\* Where a plain move leads, and what it leaves.
LEMMA PlainMoves ==
  ASSUME TypeOK, NEW c \in Callers, Plain(c)
  PROVE  \E where, locals :
           /\ Move(c, where, locals)
           /\ locals.tier = me[c].tier /\ locals.delivered = me[c].delivered
           /\ locals.force = me[c].force
           /\ where \in Holding => where # "apply" /\ pc[c] \in Holding \cup {"lock"}
           /\ pc[c] = "stream" => where = "idle" \/ ~me[c].produced
<1>0. me[c] \in Locals
  BY DEF TypeOK
<1>1. /\ \A t : LET l == [me[c] EXCEPT !.token = t]
                IN l.tier = me[c].tier /\ l.delivered = me[c].delivered /\ l.force = me[c].force
      /\ \A f : LET l == [me[c] EXCEPT !.fetched = f]
                IN l.tier = me[c].tier /\ l.delivered = me[c].delivered /\ l.force = me[c].force
      /\ \A f : LET l == [me[c] EXCEPT !.ret = f]
                IN l.tier = me[c].tier /\ l.delivered = me[c].delivered /\ l.force = me[c].force
      /\ \A f : LET l == [me[c] EXCEPT !.attempt = f]
                IN l.tier = me[c].tier /\ l.delivered = me[c].delivered /\ l.force = me[c].force
  BY <1>0 DEF Locals
<1>2. CASE Check(c)
  <2>1. me[c].ret \notin Holding
    BY <1>0 DEF Locals, Holding
  <2> QED BY <1>2, <2>1 DEF Check, Go, Holding
<1>3. CASE Lock(c)
  <2>1. Underlock(c) # "apply" /\ pc[c] = "lock"
    BY <1>0, <1>3 DEF Lock, Underlock, Locals
  <2>2. \E t : Move(c, Underlock(c), [me[c] EXCEPT !.token = t])
    BY <1>3 DEF Lock
  <2> QED BY <1>1, <2>1, <2>2
<1>4. CASE Renew(c) \/ Login(c)
  <2>0. pc[c] \in {"renew", "login"}
    BY <1>4 DEF Renew, Login
  <2>1. CASE Issue(c)
    <3>1. \E t : Move(c, "tier", [me[c] EXCEPT !.token = t])
      BY <2>1 DEF Issue
    <3> QED BY <1>1, <2>0, <3>1 DEF Holding
  <2>2. CASE GiveUp(c)
    <3>1. \E t : \E where \in {"store", "idle"} : Move(c, where, [me[c] EXCEPT !.token = t])
      BY <2>2 DEF GiveUp
    <3> QED BY <1>1, <2>0, <3>1 DEF Holding
  <2>3. CASE Go(c, "login")
    BY <2>0, <2>3 DEF Go, Holding
  <2> QED BY <1>4, <2>1, <2>2, <2>3 DEF Renew, Login
<1>5. CASE Quota(c) \/ StreamEnds(c)
  BY <1>5 DEF Quota, StreamEnds, Go, Holding
<1>6. CASE GetCatalog(c) \/ WakeUp(c)
  <2>1. \E where \in {"open", "idle", "sleep"} : Move(c, where, me[c])
        \/ Move(c, "ensure", [me[c] EXCEPT !.ret = "fetch"])
    BY <1>6 DEF GetCatalog, WakeUp, CatalogDone, TakeFetch, Go
  <2>2. pc[c] # "stream"
    BY <1>6 DEF GetCatalog, WakeUp
  <2> QED BY <1>1, <2>1, <2>2 DEF Holding
<1>7. CASE FetchCatalog(c) \/ StoreCatalog(c)
  <2>1. \E f : \E where \in {"store", "release"} : Move(c, where, [me[c] EXCEPT !.fetched = f])
    BY <1>7 DEF FetchCatalog, StoreCatalog
  <2>2. pc[c] # "stream"
    BY <1>7 DEF FetchCatalog, StoreCatalog
  <2> QED BY <1>1, <2>1, <2>2 DEF Holding
<1>8. CASE ReleaseFetch(c)
  BY <1>8 DEF ReleaseFetch, CatalogDone, Go, Holding
<1>9. CASE Busy(c)
  BY <1>9 DEF Busy, MayRetry, Go, Holding
<1>10. CASE Backoff(c)
  <2>1. (\E f : Move(c, "open", [me[c] EXCEPT !.attempt = f])) \/ Move(c, "idle", me[c])
    BY <1>10 DEF Backoff, Go
  <2>2. pc[c] # "stream"
    BY <1>10 DEF Backoff
  <2> QED BY <1>1, <2>1, <2>2 DEF Holding
<1> QED BY <1>2, <1>3, <1>4, <1>5, <1>6, <1>7, <1>8, <1>9, <1>10 DEF Plain

\* Every step of a caller is a plain move or one of those that are not.
LEMMA StepCases ==
  ASSUME NEW c \in Callers, Begin(c) \/ Line(c) \/ Answer(c)
  PROVE  \/ Plain(c) \/ Begin(c) \/ Line(c) \/ CachedTier(c) \/ LookupTier(c) \/ FallbackTier(c) \/ Apply(c)
         \/ Status(c) \/ Open(c) \/ AuthRejected(c)
BY DEF Answer, Plain

\* Lines were delivered by the attempt under way only.
Delivered(c) ==
  \/ me[c].delivered = {}
  \/ pc[c] = "stream" /\ me[c].produced /\ me[c].delivered = {me[c].attempt}

DeliveredInv == \A c \in Callers : Delivered(c)

\* It is kept by every step.
LEMMA DeliveredStep == TypeOK /\ DeliveredInv /\ [Next]_vars => DeliveredInv'
<1> SUFFICES ASSUME TypeOK, DeliveredInv, [Next]_vars PROVE DeliveredInv'
  OBVIOUS
<1>1. ASSUME NEW c \in Callers, Begin(c) \/ Line(c) \/ Answer(c)
      PROVE  DeliveredInv'
  <2>0. me[c] \in Locals /\ Delivered(c)
    BY DEF TypeOK, DeliveredInv
  <2>1. PICK where, locals :
          /\ Move(c, where, locals)
          /\ \/ where = "idle" \/ locals.delivered = {}
             \/ where = "stream" /\ locals.produced /\ locals.delivered = {locals.attempt}
    <3>1. CASE Plain(c)
      BY <2>0, <3>1, PlainMoves DEF Delivered
    <3>2. CASE Begin(c)
      <4>1. /\ NoLocals.delivered = {}
            /\ [NoLocals EXCEPT !.ret = "status"].delivered = {}
            /\ [NoLocals EXCEPT !.ret = "catalog", !.attempt = 1].delivered = {}
        BY DEF NoLocals
      <4> QED BY <3>2, <4>1 DEF Begin
    <3>3. CASE Line(c)
      <4> DEFINE l == [me[c] EXCEPT !.produced = TRUE, !.delivered = @ \cup {me[c].attempt}]
      <4>1. me[c].delivered = {}
        BY <2>0, <3>3 DEF Line, Delivered
      <4>2. l.produced /\ l.delivered = {l.attempt}
        BY <2>0, <4>1 DEF Locals
      <4>3. Move(c, "stream", l)
        BY <3>3 DEF Line
      <4> HIDE DEF l
      <4> QED BY <4>2, <4>3
    <3>4. CASE CachedTier(c) \/ LookupTier(c) \/ FallbackTier(c) \/ Status(c)
      <4>1. pc[c] # "stream"
        BY <3>4 DEF CachedTier, LookupTier, FallbackTier, Status
      <4>2. \A t : [me[c] EXCEPT !.tier = t].delivered = me[c].delivered
        BY <2>0 DEF Locals
      <4> QED BY <2>0, <3>4, <4>1, <4>2
           DEF CachedTier, LookupTier, FallbackTier, Status, StatusAnswer, Go, Delivered
    <3>5. CASE Apply(c)
      <4> DEFINE rest == [me[c] EXCEPT !.token = 0, !.tier = "none"]
                 next == [rest EXCEPT !.attempt = @ + 1]
      <4>1. pc[c] # "stream"
        BY <3>5 DEF Apply
      <4>2. rest.delivered = me[c].delivered /\ next.delivered = me[c].delivered
        BY <2>0 DEF Locals
      <4>3. Move(c, "open", next) \/ Move(c, me[c].ret, rest)
        BY <3>5 DEF Apply
      <4> HIDE DEF rest, next
      <4> QED BY <2>0, <4>1, <4>2, <4>3 DEF Delivered
    <3>6. CASE Open(c)
      <4>1. [me[c] EXCEPT !.used = sess.v, !.produced = FALSE].delivered = me[c].delivered
        BY <2>0 DEF Locals
      <4>2. pc[c] # "stream"
        BY <3>6 DEF Open
      <4> QED BY <2>0, <3>6, <4>1, <4>2 DEF Open, Go, Delivered
    <3>7. CASE AuthRejected(c)
      <4> DEFINE l == [me[c] EXCEPT !.force = TRUE, !.rejected = me[c].used]
      <4>1. l.delivered = me[c].delivered
        BY <2>0 DEF Locals
      <4>2. Move(c, IF MayRetry(c) THEN "lock" ELSE "idle", l)
        BY <3>7 DEF AuthRejected
      <4> HIDE DEF l
      <4> QED BY <2>0, <4>1, <4>2 DEF MayRetry, Delivered
    <3> QED BY <1>1, <3>1, <3>2, <3>3, <3>4, <3>5, <3>6, <3>7, StepCases
  <2>2. /\ pc'[c] = where /\ me'[c] = IF where = "idle" THEN NoLocals ELSE locals
        /\ \A d \in Callers \ {c} : pc'[d] = pc[d] /\ me'[d] = me[d]
    BY <2>1, MoveChanges
  <2>3. Delivered(c)'
    BY <2>1, <2>2 DEF Delivered, NoLocals
  <2>4. ASSUME NEW d \in Callers \ {c} PROVE Delivered(d)'
    BY <2>2 DEF DeliveredInv, Delivered
  <2> QED BY <2>3, <2>4 DEF DeliveredInv
<1>2. CASE SessionAges \/ CacheAges \/ UNCHANGED vars
  BY <1>2 DEF SessionAges, CacheAges, vars, DeliveredInv, Delivered
<1> QED BY <1>1, <1>2 DEF Next

\* OneAttemptDelivers: the client never gets lines of two attempts, whatever was
\* rejected and retried (openStreamAsync).
THEOREM OneAttemptDeliversHolds == Spec => []OneAttemptDelivers
<1>1. Init => DeliveredInv
  BY DEF Init, DeliveredInv, Delivered, NoLocals
<1>2. DeliveredInv => OneAttemptDelivers
  <2> SUFFICES ASSUME DeliveredInv, NEW c \in Callers
               PROVE  Cardinality(me[c].delivered) <= 1
    BY DEF OneAttemptDelivers
  <2>1. me[c].delivered = {} \/ me[c].delivered = {me[c].attempt}
    BY DEF DeliveredInv, Delivered
  <2>2. Cardinality({}) = 0 /\ Cardinality({me[c].attempt}) = 1
    BY FS_EmptySet, FS_Singleton
  <2> QED BY <2>1, <2>2
<1>3. Spec => [](TypeOK /\ Structured)
  BY SessionTypeCorrect
<1> QED BY <1>1, <1>2, <1>3, DeliveredStep, PTL DEF Spec

\* A renewal that is not forced is one for the first session or for an expiry
\* that no session has been built for yet.
RenewalInv ==
  /\ renewals <= expiries + 1
  /\ ~ready => renewals = 0
  /\ aging => renewals <= expiries
  /\ \A c \in Callers : pc[c] \in Holding /\ ~me[c].force => ~ready \/ aging

\* It is kept by every step.
LEMMA RenewalStep ==
  TypeOK /\ Structured /\ SessionInv /\ RenewalInv /\ [Next]_vars => RenewalInv'
<1> SUFFICES ASSUME TypeOK, Structured, SessionInv, RenewalInv, [Next]_vars PROVE RenewalInv'
  OBVIOUS
<1>0. renewals \in Nat /\ expiries \in Nat /\ sess.v \in Nat
  BY DEF TypeOK
<1>1. ASSUME NEW c \in Callers, Apply(c) PROVE RenewalInv'
  <2>1. pc[c] \in Holding /\ expiries' = expiries /\ ready' /\ ~aging'
    BY <1>1 DEF Apply, Holding, envVars
  <2>2. renewals' <= expiries' + 1
    BY <1>0, <1>1, <2>1 DEF Apply, RenewalInv
  <2>3. PICK where, locals : Move(c, where, locals) /\ where \notin Holding
    <3>1. me[c].ret \notin Holding
      BY DEF TypeOK, Locals, Holding
    <3> QED BY <1>1, <3>1 DEF Apply, Holding
  <2>4. \A d \in Callers : pc'[d] \notin Holding
    BY <2>1, <2>3, MoveChanges DEF Structured, Structure
  <2> QED BY <2>1, <2>2, <2>4 DEF RenewalInv
<1>2. ASSUME NEW c \in Callers, Begin(c) \/ Line(c) \/ Answer(c), ~Apply(c)
      PROVE  RenewalInv'
  <2>1. UNCHANGED <<ready, aging, renewals, expiries>>
    BY <1>2 DEF Answer, Begin, Line, Check, Lock, Renew, Login, CachedTier, LookupTier, FallbackTier, Status, Quota,
       GetCatalog, WakeUp, FetchCatalog, StoreCatalog, ReleaseFetch,
       Open, StreamEnds, AuthRejected, Busy, Backoff, sessionVars, envVars
  <2>2. PICK where, locals :
          /\ Move(c, where, locals)
          /\ where \in Holding =>
               pc[c] \in Holding \cup {"lock"} /\ locals.force = me[c].force
    <3>1. CASE Plain(c)
      BY <3>1, PlainMoves
    <3>2. CASE CachedTier(c) \/ LookupTier(c) \/ FallbackTier(c)
      <4>1. \A t : [me[c] EXCEPT !.tier = t].force = me[c].force
        BY DEF TypeOK, Locals
      <4> QED BY <3>2, <4>1 DEF CachedTier, LookupTier, FallbackTier, StatusAnswer, Go, Holding
    <3>3. CASE Begin(c) \/ Line(c) \/ Status(c) \/ Open(c) \/ AuthRejected(c)
      BY <3>3 DEF Begin, Line, Status, StatusAnswer, Open, AuthRejected, Go, Holding
    <3> QED BY <1>2, <3>1, <3>2, <3>3, StepCases
  <2>3. pc[c] = "lock" /\ where \in Holding /\ ~me[c].force => ~ready \/ aging
    <3>1. ASSUME Lock(c), Underlock(c) \in Holding, ~me[c].force PROVE ~ready \/ aging
      <4>1. me[c].ret \notin Holding
        BY DEF TypeOK, Locals, Holding
      <4> QED BY <3>1, <4>1 DEF Underlock, NeedsRefresh, SessionInv
    <3>2. pc[c] = "lock" => Lock(c)
      BY <1>2 DEF Answer, Begin, Line, Check, Renew, Login, CachedTier, LookupTier, FallbackTier, Status, Quota,
         GetCatalog, WakeUp, FetchCatalog, StoreCatalog, ReleaseFetch,
         Open, StreamEnds, AuthRejected, Busy, Backoff
    <3>3. Lock(c) => pc'[c] = Underlock(c)
      BY DEF Lock, Move, TypeOK
    <3> QED BY <2>2, <3>1, <3>2, <3>3, MoveChanges
  <2>4. \A d \in Callers : pc'[d] \in Holding /\ ~me'[d].force => ~ready' \/ aging'
    <3>1. pc'[c] \in Holding /\ ~me'[c].force => ~ready' \/ aging'
      <4>1. pc'[c] = where /\ (where \in Holding => me'[c] = locals)
        BY <2>2, MoveChanges DEF Holding
      <4> QED BY <2>1, <2>2, <2>3, <4>1 DEF RenewalInv
    <3>2. \A d \in Callers \ {c} : pc'[d] = pc[d] /\ me'[d] = me[d]
      BY <2>2, MoveChanges
    <3> QED BY <2>1, <3>1, <3>2 DEF RenewalInv
  <2> QED BY <2>1, <2>4 DEF RenewalInv
<1>3. CASE SessionAges
  BY <1>0, <1>3 DEF SessionAges, RenewalInv
<1>4. CASE CacheAges \/ UNCHANGED vars
  BY <1>4 DEF CacheAges, vars, sessionVars, envVars, RenewalInv
<1> QED BY <1>1, <1>2, <1>3, <1>4 DEF Next

\* OneRenewalPerExpiry: however many callers wait for the refresh lock, the first
\* builds the session and the others find it fresh (EnsureFreshSession).
THEOREM OneRenewalPerExpiryHolds == Spec => []OneRenewalPerExpiry
<1>1. Init => RenewalInv
  BY DEF Init, RenewalInv, Holding
<1>2. RenewalInv => OneRenewalPerExpiry
  BY DEF RenewalInv, OneRenewalPerExpiry
<1> QED BY <1>1, <1>2, RenewalStep, SessionAlways, PTL DEF Spec

\* While no status without a tier has overwritten a known tier, whoever knows the
\* tier knows it from the cache, and a renewal of a session that was signed with it
\* has it in its hands when it signs.
TierInv ==
  ~forgotten =>
    /\ sess.tier = "known" => acct = "known"
    /\ \A c \in Callers : me[c].tier = "known" => acct = "known"
    /\ \A c \in Callers : pc[c] = "apply" /\ sess.tier = "known" => me[c].tier = "known"

\* A step that leaves the session's tier and the cached tier alone, or learns it,
\* keeps the invariant if it does so for the caller that moves.
LEMMA TierOthers ==
  ASSUME TypeOK, TierInv, NEW c \in Callers, NEW where, NEW locals,
         Move(c, where, locals), sess' = sess, forgotten' = forgotten,
         acct' = acct \/ acct' = "known",
         where # "idle" /\ locals.tier = "known" => acct' = "known" \/ forgotten,
         where = "apply" /\ sess.tier = "known" /\ ~forgotten => locals.tier = "known"
  PROVE  TierInv'
<1>1. pc'[c] = where /\ me'[c] = IF where = "idle" THEN NoLocals ELSE locals
  BY MoveChanges
<1>2. \A d \in Callers \ {c} : pc'[d] = pc[d] /\ me'[d] = me[d]
  BY MoveChanges
<1>3. NoLocals.tier = "none"
  BY DEF NoLocals
<1> QED BY <1>1, <1>2, <1>3 DEF TierInv

\* A status without a tier is accepted: either the cache knew one, which is forgotten
\* from now on, or nobody knew one.
LEMMA TierBlank ==
  ASSUME TypeOK, TierInv, NEW c \in Callers, NEW where, NEW locals,
         Move(c, where, locals), sess' = sess, StatusAnswer("unknown"),
         where # "apply", locals.tier \in {me[c].tier, "unknown"}
  PROVE  TierInv'
<1>1. pc'[c] = where /\ me'[c] = IF where = "idle" THEN NoLocals ELSE locals
  BY MoveChanges
<1>2. \A d \in Callers \ {c} : pc'[d] = pc[d] /\ me'[d] = me[d]
  BY MoveChanges
<1>3. NoLocals.tier = "none"
  BY DEF NoLocals
<1>4. CASE forgotten \/ acct = "known"
  <2>1. forgotten'
    BY <1>4 DEF StatusAnswer
  <2> QED BY <2>1 DEF TierInv
<1>5. CASE ~forgotten /\ acct # "known"
  <2>1. sess.tier # "known" /\ \A d \in Callers : me[d].tier # "known"
    BY <1>5 DEF TierInv
  <2> QED BY <1>1, <1>2, <1>3, <2>1 DEF TierInv
<1> QED BY <1>4, <1>5

\* It is kept by every step.
LEMMA TierStep == TypeOK /\ Structured /\ TierInv /\ [Next]_vars => TierInv'
<1> SUFFICES ASSUME TypeOK, Structured, TierInv, [Next]_vars PROVE TierInv'
  OBVIOUS
<1>1. ASSUME NEW c \in Callers, Apply(c) PROVE TierInv'
  <2>0. me[c] \in Locals
    BY DEF TypeOK
  <2>1. PICK where, locals :
          Move(c, where, locals) /\ locals.tier = "none" /\ where # "apply"
    <3> DEFINE rest == [me[c] EXCEPT !.token = 0, !.tier = "none"]
               next == [rest EXCEPT !.attempt = @ + 1]
    <3>1. rest.tier = "none" /\ next.tier = "none"
      BY <2>0 DEF Locals
    <3>2. me[c].ret # "apply"
      BY <2>0 DEF Locals
    <3>3. Move(c, "open", next) \/ Move(c, me[c].ret, rest)
      BY <1>1 DEF Apply
    <3> HIDE DEF rest, next
    <3> QED BY <3>1, <3>2, <3>3
  <2>2. me'[c].tier = "none" /\ pc'[c] # "apply"
    BY <2>1, MoveChanges DEF NoLocals
  <2>3. \A d \in Callers \ {c} : pc'[d] = pc[d] /\ me'[d] = me[d] /\ pc[d] # "apply"
    BY <1>1, <2>1, MoveChanges DEF Apply, Structured, Structure, Holding
  <2>4. UNCHANGED <<acct, forgotten>> /\ (sess'.tier = "known" => me[c].tier = "known")
    <3>1. PICK tier \in IF me[c].tier = "known" THEN {"known"} ELSE {"named", "default"} :
            sess' = [v |-> me[c].token, tier |-> tier]
      BY <1>1 DEF Apply
    <3>2. sess'.tier = tier
      BY <3>1
    <3> QED BY <1>1, <3>1, <3>2 DEF Apply, accountVars
  <2> QED BY <2>2, <2>3, <2>4 DEF TierInv
<1>2. ASSUME NEW c \in Callers, Quota(c) PROVE TierInv'
  <2>1. sess' = sess /\ Move(c, "idle", me[c])
    BY <1>2 DEF Quota, Go, sessionVars
  <2>2. CASE UNCHANGED <<acct, forgotten>> \/ (acct' = "known" /\ forgotten' = forgotten)
    BY <2>1, <2>2, TierOthers
  <2>3. CASE ~(UNCHANGED <<acct, forgotten>> \/ (acct' = "known" /\ forgotten' = forgotten))
    <3>1. forgotten' = (forgotten \/ acct = "known")
      BY <1>2, <2>3 DEF Quota, TypeOK
    <3>2. \A d \in Callers : me'[d].tier = "known" => me[d].tier = "known"
      BY <2>1, MoveChanges DEF NoLocals
    <3>3. \A d \in Callers : pc'[d] = "apply" => pc[d] = "apply"
      BY <2>1, MoveChanges
    <3> QED BY <2>1, <3>1, <3>2, <3>3 DEF TierInv
  <2> QED BY <2>2, <2>3
<1>3. ASSUME NEW c \in Callers,
             CachedTier(c) \/ LookupTier(c) \/ FallbackTier(c) \/ Status(c)
      PROVE  TierInv'
  <2>0. \A t : [me[c] EXCEPT !.tier = t].tier = t
    BY DEF TypeOK, Locals
  <2>1. sess' = sess
    BY <1>3 DEF CachedTier, LookupTier, FallbackTier, Status, sessionVars
  <2>2. PICK where, locals :
          /\ Move(c, where, locals)
          /\ \/ /\ UNCHANGED <<acct, forgotten>>
                /\ \/ where \in {"lookup", "fallback"} /\ locals = me[c]
                   \/ where \in {"apply", "quota"} /\ locals.tier = acct
             \/ /\ StatusAnswer("known")
                /\ where \in {"apply", "quota"} /\ locals.tier = "known"
             \/ /\ StatusAnswer("unknown")
                /\ \/ where = "fallback" /\ locals = me[c]
                   \/ where = "quota" /\ locals.tier = "unknown"
    <3>1. CASE CachedTier(c)
      BY <3>1, <2>0 DEF CachedTier, Go, accountVars
    <3>2. CASE LookupTier(c)
      BY <3>2, <2>0 DEF LookupTier, Go, accountVars
    <3>3. CASE FallbackTier(c)
      BY <3>3, <2>0 DEF FallbackTier, accountVars
    <3>4. CASE Status(c)
      BY <3>4, <2>0 DEF Status, accountVars
    <3> QED BY <1>3, <3>1, <3>2, <3>3, <3>4
  <2>3. CASE UNCHANGED <<acct, forgotten>> /\ where \in {"lookup", "fallback"}
             /\ locals = me[c]
    BY <2>1, <2>2, <2>3, TierOthers DEF TierInv
  <2>4. CASE UNCHANGED <<acct, forgotten>> /\ where \in {"apply", "quota"}
             /\ locals.tier = acct
    BY <2>1, <2>2, <2>4, TierOthers DEF TierInv
  <2>5. CASE StatusAnswer("known") /\ where \in {"apply", "quota"} /\ locals.tier = "known"
    <3>1. acct' = "known" /\ forgotten' = forgotten
      BY <2>5 DEF StatusAnswer, TypeOK
    <3> QED BY <2>1, <2>2, <2>5, <3>1, TierOthers
  <2>6. CASE StatusAnswer("unknown") /\ where \in {"fallback", "quota"}
             /\ locals.tier \in {me[c].tier, "unknown"}
    BY <2>1, <2>2, <2>6, TierBlank
  <2> QED BY <2>2, <2>3, <2>4, <2>5, <2>6
<1>4. ASSUME NEW c \in Callers,
             (Plain(c) /\ ~Quota(c)) \/ Begin(c) \/ Line(c) \/ Open(c) \/ AuthRejected(c)
      PROVE  TierInv'
  <2>0. me[c] \in Locals
    BY DEF TypeOK
  <2>1. UNCHANGED <<sess, acct, forgotten>>
    BY <1>4 DEF Plain, Begin, Line, Open, AuthRejected, Check, Lock, Renew, Login,
       GetCatalog, WakeUp, FetchCatalog, StoreCatalog, ReleaseFetch,
       StreamEnds, Busy, Backoff, sessionVars, accountVars
  <2>2. PICK where, locals :
          Move(c, where, locals) /\ where # "apply" /\ (locals.tier = me[c].tier \/ locals.tier = "none")
    <3>1. CASE Plain(c)
      BY <3>1, PlainMoves DEF Holding
    <3>2. CASE Begin(c)
      <4>1. /\ NoLocals.tier = "none"
            /\ [NoLocals EXCEPT !.ret = "status"].tier = "none"
            /\ [NoLocals EXCEPT !.ret = "catalog", !.attempt = 1].tier = "none"
        BY DEF NoLocals
      <4> QED BY <3>2, <4>1 DEF Begin
    <3>3. CASE Line(c) \/ Open(c) \/ AuthRejected(c)
      <4>1. /\ [me[c] EXCEPT !.used = sess.v, !.produced = FALSE].tier = me[c].tier
            /\ [me[c] EXCEPT !.produced = TRUE, !.delivered = @ \cup {me[c].attempt}].tier = me[c].tier
            /\ [me[c] EXCEPT !.force = TRUE, !.rejected = me[c].used].tier = me[c].tier
        BY <2>0 DEF Locals
      <4> QED BY <3>3, <4>1 DEF Line, Open, AuthRejected, Go
    <3> QED BY <1>4, <3>1, <3>2, <3>3
  <2> QED BY <2>1, <2>2, TierOthers DEF TierInv
<1>5. CASE SessionAges \/ CacheAges \/ UNCHANGED vars
  <2>1. UNCHANGED <<sess, acct, forgotten, pc, me>>
    BY <1>5 DEF SessionAges, CacheAges, vars, sessionVars, accountVars
  <2> QED BY <2>1 DEF TierInv
<1> QED BY <1>1, <1>2, <1>3, <1>4, <1>5, StepCases DEF Next

\* It holds in every reachable state.
LEMMA TierAlways == Spec => [](TypeOK /\ TierInv)
<1>1. Init => TierInv
  BY DEF Init, TierInv, NoSession, NoLocals
<1> QED BY <1>1, TypeInit, TypeStep, TierStep, PTL DEF Spec

\* DowngradeNeedsForgetting: whatever lookups fail, a renewal keeps the tier a status
\* named, unless a status without one was accepted and cached over it, by a renewal or
\* by a probe (fetchAccountStatus, EnsureAccountStatus, applyJobToken).
THEOREM DowngradeNeedsForgettingHolds == Spec => DowngradeNeedsForgetting
<1>1. TypeOK /\ TierInv /\ [Next]_vars
        => [sess.tier = "known" /\ sess'.tier # "known" => forgotten]_vars
  <2> SUFFICES ASSUME TypeOK, TierInv, Next, sess.tier = "known", sess'.tier # "known"
               PROVE  forgotten
    OBVIOUS
  <2>1. PICK c \in Callers : Apply(c)
    BY DEF Next, Answer, Begin, Line, Check, Lock, Renew, Login, CachedTier, LookupTier, FallbackTier, Status, Quota,
       GetCatalog, WakeUp, FetchCatalog, StoreCatalog, ReleaseFetch,
       Open, StreamEnds, AuthRejected, Busy, Backoff, SessionAges, CacheAges, sessionVars
  <2> QED BY <2>1 DEF Apply, TierInv
<1> QED BY <1>1, TierAlways, PTL DEF Spec, DowngradeNeedsForgetting
===============================================================================
