------------------------------- MODULE Session --------------------------------
(***************************************************************************)
(* The upstream session of one account (bridge/session.go) and the callers *)
(* that share it: chat requests (HandleChat and openStreamAsync), catalogue*)
(* lookups (GetCatalog) and account probes (EnsureAccountStatus). A session*)
(* is the number of the job token it was built from, in the order the      *)
(* gateway issued them, and the tier signed into it; its refresh token is  *)
(* the one of that job token.                                              *)
(*                                                                         *)
(* A caller is one goroutine. Each answer of the gateway is a choice, and  *)
(* the clock is abstracted to the moments a session enters its renewal     *)
(* margin and a cache outlives its TTL. Upstream slots are Router's.       *)
(***************************************************************************)
EXTENDS Integers, FiniteSets

CONSTANTS
  Callers,     \* goroutines that use the bridge of the account
  Ops,         \* what they do: "chat", "models", "probe"
  MaxOps,      \* bound on the operations begun
  MaxExpiries, \* bound on the sessions that enter their renewal margin
  MaxStale     \* bound on the caches that outlive their TTL

ASSUME OpsAssumption == Ops \subseteq {"chat", "models", "probe"}
ASSUME BoundAssumption == MaxOps \in Nat /\ MaxExpiries \in Nat /\ MaxStale \in Nat

VARIABLES
  sess,       \* [v |-> job token it was built from, 0 for none, tier |-> signed tier:
              \* "known" from a status, "named" by the job token, or the "default"]
  ready,      \* b.bootstrapped
  aging,      \* the session is inside its renewal margin
  refreshMu,  \* holder of the refresh lock
  issued,     \* job tokens issued by the gateway
  acct,       \* b.account: "none", or what it says of the tier
  acctFresh,  \* accountTs is within accountTTL
  catalog,    \* b.catalog: "none", "default" or "dynamic"
  catFresh,   \* catalogTs is within catalogTTL
  inflight,   \* b.catalogInflt
  pc,         \* where each caller stands
  me,         \* its locals (Locals)
  ops, expiries, stale,
  \* history, read by properties only
  renewals,   \* sessions built by EnsureFreshSession
  forgotten   \* a known tier in the cache was overwritten by a status without one

sessionVars == <<sess, ready, aging, refreshMu, issued, renewals>>
accountVars == <<acct, acctFresh, forgotten>>
catalogVars == <<catalog, catFresh, inflight>>
envVars == <<ops, expiries, stale>>
vars == <<sessionVars, accountVars, catalogVars, pc, me, envVars>>

NoOne == "nobody"
ASSUME CallersAssumption == NoOne \notin Callers
NoSession == [v |-> 0, tier |-> "default"]
Steps == {"idle", "ensure", "lock", "renew", "login", "tier", "lookup", "fallback", "apply",
          "catalog", "sleep", "fetch", "store", "release",
          "open", "stream", "backoff", "status", "quota"}

\* A caller's locals: where EnsureFreshSession returns to, whether it renews
\* because its session was rejected, the job token it renews or has been given,
\* the tier resolved for it (a probe: its status), the catalogue it fetched,
\* openStreamAsync's attempt, the session of that attempt and whether it has
\* produced a line; and for the properties, the session the gateway rejected
\* last and the attempts whose lines reached the client.
Locals == [ret : {"idle", "catalog", "fetch", "status"}, force : BOOLEAN, token : Nat,
           tier : {"none", "unknown", "known"}, fetched : {"none", "dynamic"},
           attempt : 0 .. 2, used : Nat, produced : BOOLEAN,
           rejected : Nat, delivered : SUBSET (0 .. 2)]
NoLocals == [ret |-> "idle", force |-> FALSE, token |-> 0, tier |-> "none", fetched |-> "none",
             attempt |-> 0, used |-> 0, produced |-> FALSE, rejected |-> 0, delivered |-> {}]

Init ==
  /\ sess = NoSession /\ ready = FALSE /\ aging = FALSE
  /\ refreshMu = NoOne /\ issued = 0
  /\ acct = "none" /\ acctFresh = FALSE
  /\ catalog = "none" /\ catFresh = FALSE /\ inflight = FALSE
  /\ pc = [c \in Callers |-> "idle"]
  /\ me = [c \in Callers |-> NoLocals]
  /\ ops = 0 /\ expiries = 0 /\ stale = 0
  /\ renewals = 0 /\ forgotten = FALSE

\* The caller goes on with these locals; at the end of its operation they are gone.
Move(c, where, locals) ==
  /\ pc' = [pc EXCEPT ![c] = where]
  /\ me' = [me EXCEPT ![c] = IF where = "idle" THEN NoLocals ELSE locals]
Go(c, where) == Move(c, where, me[c])

\* A chat ensures a session, looks the catalogue up and opens its stream; a
\* catalogue lookup ensures one only if it has to fetch; a probe starts with it.
Begin(c) ==
  /\ pc[c] = "idle" /\ ops < MaxOps
  /\ ops' = ops + 1
  /\ \/ "chat" \in Ops /\ Move(c, "ensure", [NoLocals EXCEPT !.ret = "catalog", !.attempt = 1])
     \/ "probe" \in Ops /\ Move(c, "ensure", [NoLocals EXCEPT !.ret = "status"])
     \/ "models" \in Ops /\ Move(c, "catalog", NoLocals)
  /\ UNCHANGED <<sessionVars, accountVars, catalogVars, expiries, stale>>

-------------------------------------------------------------------------------
(* EnsureFreshSession and forceRefresh                                     *)

NeedsRefresh == sess.v = 0 \/ aging

\* EnsureFreshSession's check without the lock.
Check(c) ==
  /\ pc[c] = "ensure"
  /\ Go(c, IF ready /\ ~NeedsRefresh THEN me[c].ret ELSE "lock")
  /\ UNCHANGED <<sessionVars, accountVars, catalogVars, envVars>>

\* Mutant: what was checked without the lock is taken for granted.
UnderlockUnchecked(c) ==
  CASE me[c].force -> "renew"
    [] ~me[c].force /\ ~ready -> "login"
    [] OTHER -> "renew"

\* Mutant: a forced renewal is skipped while the session is not due.
UnderlockLenient(c) ==
  CASE me[c].force -> (IF NeedsRefresh THEN "renew" ELSE "open")
    [] ~me[c].force /\ ~ready -> "login"
    [] ~me[c].force /\ ready /\ NeedsRefresh -> "renew"
    [] OTHER -> me[c].ret

\* What a caller does with the refresh lock: a rejected session is renewed
\* whatever its state, any other caller decides again.
Underlock(c) ==
  CASE me[c].force -> "renew"
    [] ~me[c].force /\ ~ready -> "login"
    [] ~me[c].force /\ ready /\ NeedsRefresh -> "renew"
    [] OTHER -> me[c].ret

\* Mutant: a renewal does not wait for the one in flight.
LockShared(c) ==
  /\ pc[c] = "lock"
  /\ LET then == Underlock(c) IN
     /\ Move(c, then, [me[c] EXCEPT !.token = IF then = "renew" THEN sess.v ELSE 0])
     /\ refreshMu' = IF then \in {"renew", "login"} THEN c ELSE NoOne
  /\ UNCHANGED <<sess, ready, aging, issued, renewals, accountVars, catalogVars, envVars>>

Lock(c) ==
  /\ pc[c] = "lock" /\ refreshMu = NoOne
  /\ LET then == Underlock(c) IN
     /\ Move(c, then, [me[c] EXCEPT !.token = IF then = "renew" THEN sess.v ELSE 0])
     /\ refreshMu' = IF then \in {"renew", "login"} THEN c ELSE NoOne
  /\ UNCHANGED <<sess, ready, aging, issued, renewals, accountVars, catalogVars, envVars>>

\* The gateway answers with a new job token.
Issue(c) ==
  /\ issued' = issued + 1
  /\ Move(c, "tier", [me[c] EXCEPT !.token = issued + 1])
  /\ UNCHANGED refreshMu

\* Mutant: the error is swallowed and the caller goes on.
GiveUpSwallowing(c) ==
  /\ refreshMu' = NoOne
  /\ Move(c, me[c].ret, [me[c] EXCEPT !.token = 0])
  /\ UNCHANGED issued

\* Mutant: the early return forgets the lock.
GiveUpHolding(c) ==
  /\ UNCHANGED refreshMu
  /\ Move(c, IF ~me[c].force /\ me[c].ret = "fetch" THEN "store" ELSE "idle",
          [me[c] EXCEPT !.token = 0])
  /\ UNCHANGED issued

\* The session could not be renewed. The catalogue lookup goes on without one,
\* every other caller gives up; forceRefresh's caller returns the rejection.
GiveUp(c) ==
  /\ refreshMu' = NoOne
  /\ Move(c, IF ~me[c].force /\ me[c].ret = "fetch" THEN "store" ELSE "idle",
          [me[c] EXCEPT !.token = 0])
  /\ UNCHANGED issued

\* doRenew: only a forced renewal falls back to exchanging the PAT.
Renew(c) ==
  /\ pc[c] = "renew"
  /\ \/ Issue(c)
     \/ ~me[c].force /\ GiveUp(c)
     \/ me[c].force /\ Go(c, "login") /\ UNCHANGED <<issued, refreshMu>>
  /\ UNCHANGED <<sess, ready, aging, renewals, accountVars, catalogVars, envVars>>

\* ExchangeJobToken, of bootstrapSession or of a forced renewal.
Login(c) ==
  /\ pc[c] = "login"
  /\ Issue(c) \/ GiveUp(c)
  /\ UNCHANGED <<sess, ready, aging, renewals, accountVars, catalogVars, envVars>>

-------------------------------------------------------------------------------
(* The account status and the tier signed into the session                 *)

\* fetchAccountStatus takes a cached status within its TTL without a call; one
\* without a tier is no help to resolveAccountStatus.
CachedTier(c) ==
  /\ pc[c] = "tier"
  /\ \/ acctFresh /\ acct = "known" /\ Move(c, "apply", [me[c] EXCEPT !.tier = "known"])
     \/ acctFresh /\ acct # "known" /\ Go(c, "fallback")
     \/ ~acctFresh /\ Go(c, "lookup")
  /\ UNCHANGED <<sessionVars, accountVars, catalogVars, envVars>>

\* /user/status answers with the tier, or without one beside a plan or a reset time:
\* either answer is accepted and replaces the cached status.
StatusAnswer(says) ==
  /\ acct' = says /\ acctFresh' = TRUE
  /\ forgotten' = (forgotten \/ (acct = "known" /\ says # "known"))

\* The lookup under the refresh lock may also fail (or have no user to ask for).
LookupTier(c) ==
  /\ pc[c] = "lookup"
  /\ \/ StatusAnswer("known") /\ Move(c, "apply", [me[c] EXCEPT !.tier = "known"])
     \/ StatusAnswer("unknown") /\ Go(c, "fallback")
     \/ UNCHANGED accountVars /\ Go(c, "fallback")
  /\ UNCHANGED <<sessionVars, catalogVars, envVars>>

\* Mutant: a failed lookup is a lookup without a tier.
FallbackToNothing(c) ==
  /\ pc[c] = "fallback"
  /\ Move(c, "apply", [me[c] EXCEPT !.tier = "none"])
  /\ UNCHANGED <<sessionVars, accountVars, catalogVars, envVars>>

\* resolveAccountStatus, still without a tier, takes the last known one: what the cache
\* says by now, however old.
FallbackTier(c) ==
  /\ pc[c] = "fallback"
  /\ Move(c, "apply", [me[c] EXCEPT !.tier = acct])
  /\ UNCHANGED <<sessionVars, accountVars, catalogVars, envVars>>

\* applyJobToken and the return of the renewal. A tier nobody knows is the job token's,
\* if that names one, or personal_standard.
Apply(c) ==
  /\ pc[c] = "apply"
  /\ \E tier \in IF me[c].tier = "known" THEN {"known"} ELSE {"named", "default"} :
       sess' = [v |-> me[c].token, tier |-> tier]
  /\ aging' = FALSE /\ ready' = TRUE
  /\ refreshMu' = NoOne
  /\ LET rest == [me[c] EXCEPT !.token = 0, !.tier = "none"] IN
     \/ /\ me[c].force
        /\ Move(c, "open", [rest EXCEPT !.attempt = @ + 1])
        /\ UNCHANGED renewals
     \/ /\ ~me[c].force
        /\ Move(c, me[c].ret, rest)
        /\ renewals' = renewals + 1
  /\ UNCHANGED <<issued, accountVars, catalogVars, envVars>>

\* EnsureAccountStatus: the identity from the cache within its TTL, from the gateway, or,
\* if that fails, from the cache as it is by then, ...
Status(c) ==
  /\ pc[c] = "status"
  /\ \/ Move(c, "quota", [me[c] EXCEPT !.tier = acct]) /\ UNCHANGED accountVars
     \/ \E says \in {"known", "unknown"} :
          /\ ~acctFresh /\ StatusAnswer(says)
          /\ Move(c, "quota", [me[c] EXCEPT !.tier = says])
  /\ UNCHANGED <<sessionVars, catalogVars, envVars>>

\* ... then the quota, whose answer may name the tier. The status put together
\* from both replaces the cached one; a failed quota leaves the cache alone.
Quota(c) ==
  /\ pc[c] = "quota"
  /\ \/ UNCHANGED <<acct, forgotten>>
     \/ \E named \in BOOLEAN :
          LET known == named \/ me[c].tier = "known" IN
          /\ acct' = IF known THEN "known" ELSE "unknown"
          /\ forgotten' = (forgotten \/ (acct = "known" /\ ~known))
  /\ Go(c, "idle")
  /\ UNCHANGED <<sessionVars, acctFresh, catalogVars, envVars>>

-------------------------------------------------------------------------------
(* GetCatalog: one fetch at a time, the others sleep and look again        *)

\* A chat goes on to open its stream, the handlers of /v1/models return.
CatalogDone(c) == Go(c, IF me[c].attempt = 1 THEN "open" ELSE "idle")

TakeFetch(c) ==
  /\ inflight' = TRUE
  /\ Move(c, "ensure", [me[c] EXCEPT !.ret = "fetch"])

GetCatalog(c) ==
  /\ pc[c] = "catalog"
  /\ \/ catFresh /\ CatalogDone(c) /\ UNCHANGED inflight
     \/ ~catFresh /\ inflight /\ Go(c, "sleep") /\ UNCHANGED inflight
     \/ ~catFresh /\ ~inflight /\ TakeFetch(c)
  /\ UNCHANGED <<sessionVars, accountVars, catalog, catFresh, envVars>>

\* The sleeper's turn under the lock; while the fetch goes on it sleeps again.
WakeUp(c) ==
  /\ pc[c] = "sleep"
  /\ \/ catFresh /\ CatalogDone(c) /\ UNCHANGED inflight
     \/ ~catFresh /\ ~inflight /\ TakeFetch(c)
  /\ UNCHANGED <<sessionVars, accountVars, catalog, catFresh, envVars>>

FetchCatalog(c) ==
  /\ pc[c] = "fetch"
  /\ \E found \in {"none", "dynamic"} : Move(c, "store", [me[c] EXCEPT !.fetched = found])
  /\ UNCHANGED <<sessionVars, accountVars, catalogVars, envVars>>

\* Without an answer of the gateway the default catalogue is cached.
StoreCatalog(c) ==
  /\ pc[c] = "store"
  /\ catalog' = IF me[c].fetched = "none" THEN "default" ELSE me[c].fetched
  /\ catFresh' = TRUE
  /\ Move(c, "release", [me[c] EXCEPT !.fetched = "none"])
  /\ UNCHANGED <<sessionVars, accountVars, inflight, envVars>>

ReleaseFetch(c) ==
  /\ pc[c] = "release"
  /\ inflight' = FALSE
  /\ CatalogDone(c)
  /\ UNCHANGED <<sessionVars, accountVars, catalog, catFresh, envVars>>

-------------------------------------------------------------------------------
(* openStreamAsync                                                         *)

\* The chat opens its stream with the session of this moment, or ends before
\* its first attempt (no slot, a parameter rejected, the client gone).
Open(c) ==
  /\ pc[c] = "open"
  /\ \/ me[c].attempt = 1 /\ Go(c, "idle")
     \/ Move(c, "stream", [me[c] EXCEPT !.used = sess.v, !.produced = FALSE])
  /\ UNCHANGED <<sessionVars, accountVars, catalogVars, envVars>>

\* A line reaches the callback.
Line(c) ==
  /\ pc[c] = "stream" /\ ~me[c].produced
  /\ Move(c, "stream", [me[c] EXCEPT !.produced = TRUE, !.delivered = @ \cup {me[c].attempt}])
  /\ UNCHANGED <<sessionVars, accountVars, catalogVars, envVars>>

\* The stream ends, well or with an error that is not retried.
StreamEnds(c) ==
  /\ pc[c] = "stream" /\ Go(c, "idle")
  /\ UNCHANGED <<sessionVars, accountVars, catalogVars, envVars>>

\* Mutant: content that has reached the client does not stop a retry.
MayRetryAnyway(c) == me[c].attempt < 2

MayRetry(c) == ~me[c].produced /\ me[c].attempt < 2

\* The gateway rejects the session: renewed at once and tried again.
AuthRejected(c) ==
  /\ pc[c] = "stream"
  /\ Move(c, IF MayRetry(c) THEN "lock" ELSE "idle",
          [me[c] EXCEPT !.force = TRUE, !.rejected = me[c].used])
  /\ UNCHANGED <<sessionVars, accountVars, catalogVars, envVars>>

\* The gateway is busy: tried again after a while.
Busy(c) ==
  /\ pc[c] = "stream"
  /\ Go(c, IF MayRetry(c) THEN "backoff" ELSE "idle")
  /\ UNCHANGED <<sessionVars, accountVars, catalogVars, envVars>>

\* The wait is over, or the client is gone.
Backoff(c) ==
  /\ pc[c] = "backoff"
  /\ \/ Move(c, "open", [me[c] EXCEPT !.attempt = @ + 1])
     \/ Go(c, "idle")
  /\ UNCHANGED <<sessionVars, accountVars, catalogVars, envVars>>

-------------------------------------------------------------------------------
(* The clock                                                               *)

\* needsRefresh turns true: the renewal margin, or unknownExpiryTTL, is reached.
SessionAges ==
  /\ sess.v # 0 /\ ~aging /\ expiries < MaxExpiries
  /\ aging' = TRUE /\ expiries' = expiries + 1
  /\ UNCHANGED <<sess, ready, refreshMu, issued, renewals, accountVars, catalogVars, pc, me, ops, stale>>

CacheAges ==
  /\ stale < MaxStale /\ stale' = stale + 1
  /\ \/ acctFresh /\ acctFresh' = FALSE /\ UNCHANGED catFresh
     \/ catFresh /\ catFresh' = FALSE /\ UNCHANGED acctFresh
  /\ UNCHANGED <<sessionVars, acct, forgotten, catalog, inflight, pc, me, ops, expiries>>

Answer(c) ==
  \/ Check(c) \/ Lock(c) \/ Renew(c) \/ Login(c) \/ CachedTier(c) \/ LookupTier(c)
  \/ FallbackTier(c) \/ Apply(c) \/ Status(c) \/ Quota(c)
  \/ GetCatalog(c) \/ WakeUp(c) \/ FetchCatalog(c) \/ StoreCatalog(c) \/ ReleaseFetch(c)
  \/ Open(c) \/ StreamEnds(c) \/ AuthRejected(c) \/ Busy(c) \/ Backoff(c)

Next ==
  \/ \E c \in Callers : Begin(c) \/ Line(c) \/ Answer(c)
  \/ SessionAges \/ CacheAges

Spec == Init /\ [][Next]_vars

\* Goroutines run, and every upstream call is bounded by a timeout or by its
\* stream's idle limit, so it gets an answer. Go hands a mutex over fairly and a
\* sleeper looks again every 50 ms; weak fairness is enough for both, since only
\* finitely many operations compete.
Fairness == \A c \in Callers : WF_vars(Answer(c))

FairSpec == Spec /\ Fairness

-------------------------------------------------------------------------------
(* Properties                                                              *)

\* Types of the session, the caches and the callers' locals.
TypeOK ==
  /\ sess \in [v : Nat, tier : {"default", "named", "known"}]
  /\ ready \in BOOLEAN /\ aging \in BOOLEAN
  /\ refreshMu \in Callers \cup {NoOne}
  /\ issued \in Nat
  /\ acct \in {"none", "unknown", "known"} /\ acctFresh \in BOOLEAN
  /\ catalog \in {"none", "default", "dynamic"} /\ catFresh \in BOOLEAN /\ inflight \in BOOLEAN
  /\ pc \in [Callers -> Steps]
  /\ me \in [Callers -> Locals]
  /\ ops \in Nat /\ expiries \in Nat /\ stale \in Nat
  /\ renewals \in Nat /\ forgotten \in BOOLEAN

\* Whoever is past EnsureFreshSession finds a session, although the check was
\* made before and without the lock: currentSess never panics.
SessionBeforeUse ==
  \A c \in Callers :
    pc[c] \in {"fetch", "status", "quota", "open", "stream", "backoff"} => sess.v # 0

\* However many callers notice together that the session nears its expiry, one
\* of them renews it: EnsureFreshSession builds one session per expiry.
OneRenewalPerExpiry == renewals <= expiries + 1

\* The lines of one stream come from a single attempt: nothing is retried once
\* a line reached the client, whatever happened to the attempts before.
OneAttemptDelivers == \A c \in Callers : Cardinality(me[c].delivered) <= 1

\* A stream rejected for its session is not tried again with that session,
\* even if others renewed it or fell back to a login meanwhile.
RetryUsesNewer ==
  \A c \in Callers : pc[c] = "stream" => me[c].used > me[c].rejected

\* A session is never replaced by one issued earlier.
SessionMonotone == [][sess'.v >= sess.v]_vars

\* resolveAccountStatus, EnsureAccountStatus: failing lookups, however many and of
\* whomever, never lose the tier a status named once it was signed. It takes a status
\* without a tier, accepted by the renewal's own lookup or by a probe, that overwrote
\* the cached one (ParseAccountStatus, fetchAccountStatus).
DowngradeNeedsForgetting ==
  [][sess.tier = "known" /\ sess'.tier # "known" => forgotten]_vars

\* Every caller gets its answer: neither the refresh lock nor the catalogue's
\* in-flight flag is left behind by a failure.
Served == \A c \in Callers : pc[c] # "idle" ~> pc[c] = "idle"
===============================================================================
