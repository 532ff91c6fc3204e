# Qoder-2API-Go in TLA+

A verification project for the bridge in this repository: a Go server that
offers an OpenAI-compatible endpoint on top of a pool of upstream accounts. The
modules model the parts whose correctness depends on interleaving, failure and
ordering; TLC checks them on small instances and TLAPS proves the main
invariants for every value of the constants.

## 1. Inventory

| Component | State it keeps | Operations | Interacts with | What makes it hard | What makes it correct |
|---|---|---|---|---|---|
| Request router (`routing.go`) | sticky bindings, per-route cursors, running weights (one mutex) | `pick`, `rotate`, `bind`, `pruneSticky`, `markFailure` | reads pool, snapshots and bridges without the mutex | `pick` is several critical sections; what it read may be stale | never picks an excluded or sick account; bounded, success-only bindings; shares in proportion to the weights |
| Bridge provider (`main.go`) | bridges per account, snapshots, request counts, running check-ins | `resolveBridge`, `handleChatFailover`, `markAccountFailure`, `applyQuotaToSnapshot`, `deductCredits`, `pruneBridges` | the router's dependencies, chat handler, loops | four writers of one snapshot | health signals reflect the latest evidence |
| Chat handler (`bridge/handler.go`) | locals of one request | `MakeChatHandler`, `handleChatError` | resolver, bridge, recorders | failover while the pool changes; a response that already began | each account tried once, budget respected, one answer |
| Account bridge (`bridge/chat.go`, `bridge.go`, `stream.go`) | `chatSlots`, `inFlight`, session, catalogue | `HandleChat`, `handleStream`, `handleSync`, `openStreamAsync` | upstream | every exit path must release | slot accounting, no lost token, no retry after content |
| Account session (`bridge/session.go`) | session, expiry, catalogue, OpenAPI bearer | `EnsureFreshSession`, `forceRefresh`, `doRenew`, `GetCatalog` | upstream, all chat requests of an account | double-checked refresh, single flight | one renewal per expiry, no lost newer session |
| Account pool (`store/store.go`) | accounts, active marker, mirrored token, `data.json` | add, activate, delete, set token, load, save | admin handlers, router, loops | change and save are separate critical sections; saves fail; restarts | well-formed pool, mirror = active, acknowledged = persisted |
| Admin account endpoints (`admin/admin.go`) | none | POST `pat`, POST/DELETE `accounts`, POST switch, check, check-in, settings | the store, the provider | check-then-act over several store calls | pool and mirror stay aligned |
| Statistics recorder (`stats/stats.go`) | counters, account metadata, billing cycle, dirty flag | `Record`, `RecordUsage`, `SetAccount`, `SetBillingCycle`, `Flush` | chat handlers, account loop, stats loop | recording during a flush, failed saves, crashes | a clean flag means persisted |
| Request-log recorder (`logs/logs.go`) | entries, next ID, dirty flag | `Record`, `SetLimits`, `Flush` | as above | as above, IDs over restarts | ordered IDs, capped length |
| Background loops and shutdown (`main.go`) | goroutines and stop channels | stats loop (30 s), account loop (60 s), `shutdown`, `stopBackgroundLoops` | recorders, store, server | join order, drain deadline, random select | last writes persisted, the exit completes |
| Account snapshots (`main.go`, `store/store.go`) | in-memory snapshots, persisted copies, the panel's account | probe, panel check, deduction, failure mark, flush, restart | router, recorder, store | unsynchronised reads, stale probes, answers from a cache | a cooldown is lifted by the upstream only; in the end memory, file and panel say what the upstream knows |
| Daily check-in (`main.go`, `bridge/checkin.go`, `auth/checkin.go`) | running set, recorded outcome, OpenAPI bearer | schedule, run, claim, retry, record | account loop, panel, session | stale copies, lost answers, late confirmations, midnight | what is recorded is true, nothing is claimed twice, the credits arrive |
| Answer delivery (`auth/auth.go` `OpenStreamLines`, `transform`, `bridge/stream.go`) | accumulators, detectors, idle watchdog | line loop, accumulate, finish | chat exchange, recorders | truncation at any line, text held back, a silent upstream | text conserved, no truncated answer reads as complete |
| Conversions (`transform`, `bridge/params.go`) | none | message, tool and parameter conversion | chat exchange | pure functions of the request | (not modelled) |
| Catalogue, keys, settings, login, CORS, panel, cryptography | small tables or none | see `PROJECT.json` | | | |

`PROJECT.json` lists every component with its status, and every hazard of the
code at its line with the properties that would catch it going wrong.

## 2. Plan

1. `FailoverPromise`, `Router`, `RouterProofs`: the request path. *Done.*
2. `AccountPool`, `AccountPoolProofs`: the pool and its endpoints. *Done.*
3. `Recording`, `RecordingProofs`: persistence and shutdown. *Done.*
4. `Snapshots`, `SnapshotsProofs`: every writer of an account's snapshot and of
   the panel's account. *Done.*
5. `Session`, `SessionProofs`: renewal with its double check, tier, catalogue
   single flight, and the attempts of an upstream exchange. *Done.*
6. `Delivery`, `DeliveryProofs`, `WeightedRotation`, `BillingCycle`,
   `SequentialProofs`: the three sequential components, in one run. *Done.*
7. `Checkin`, `CheckinProofs`: scheduler, manual trigger, claim procedure,
   record. *Done.*
8. A theorem for every invariant and every action property that a run checks, the
   refinement included. *Done.*

What is left: the safety facts on which the liveness properties rest (a waiting
caller always has someone who will wake it, a stop channel once closed is seen), and
with more state the union of model names over the bridges and the retention of log
entries by age.

## 3. Modules

### Router: one chat request against the pool

`Router.tla` composes `routing.go`, the failover loop of `bridge/handler.go`, the
admission of `bridge/chat.go` and the health signals of `main.go`. Each request
is a goroutine; `pc[r]` is where it stands. The split into actions is that of
the code's critical sections and reads:

| Place | Code | Actions |
|---|---|---|
| `pick` | `resolveBridge`/`handleChatFailover`, then `pick` up to its lock | `Route`, `NoRoute` |
| `sticky` | `pick` under `r.mu` | `ReuseBinding`, `RotateAfterQuota`, `DropBinding` |
| `rotate`, `advance` | `rotate`: cursor read, cursor write | `ReadCursor`, `AdvanceCursor`, `LeastLoaded` |
| `prepare` | `HandleChat` before the slot | `Prepared`, `PrepareFails`, `UnknownModel` |
| `queue` | the two selects on `chatSlots` | `Admit`, `AbandonQueue` |
| `admitted`, `streaming`, `leaving` | `inFlight.Add`, the exchange, the two defers | `CountIn`, `Deliver`, `Finish`, `Release` |
| `returned` | `MakeChatHandler` after `HandleChat` | `Succeed`, `FailOver`, `Fail` |

The environment (`Probe`, `Check`, `CooldownEnds`, `BindingExpires`,
`RevokeKey`) changes what `pick` reads at any moment between those steps. A
snapshot is reduced to three sets of accounts: `cooling`, `exceeded`, `low`.
Time is reduced to the moments a cooldown or a binding ends. `tried` and `sick`
are history: only properties read them.

`Route` reads all health signals in one step, where the code reads them account by
account; the events that could fall in between fall before or after it, and what
the choice promises is only about signals that hold throughout the pick.
`LeastLoaded` merges the reads of `inFlight`, which are a hint, with the write of the
cursor. Here the accounts have one weight, so that rotation is the ID cursor; differing
weights are `WeightedRotation`. The pool is constant while a request is under
way (`AccountPool` changes it), and one exchange's own attempts are `Session`'s.

`FailoverPromise.tla` is the abstract specification of a request: it is tried on
distinct accounts, on at most `Budget` of them, never again after the first byte,
and answered once by an answer that fits. `Router` implements it with
`tried`, `committed` and `answer` mapped to themselves and
`Budget <- MaxRetryAccounts`.

### AccountPool: store and admin handlers

The state is the configuration in memory (`mem`), the file (`disk`) and, for each
handler, the endpoint it serves and where it stands. Every store method is two
actions, as in the code: the change under the lock (`AddAccount`,
`ActivateAccount`, `DeleteAccount`, `SetPAT`, `ClearActiveAccount`), and `Save`,
which writes the whole configuration *as it is by then*. `SaveFails` keeps the
change in memory and answers with the error. Two callers drop that error: `handleAccounts` when
it activates a token that is pooled already (`admin/admin.go:865`), and
`handlePAT` when it pools or clears one (`admin/admin.go:739`). They save at the place
`saveIgnored`, where `IgnoredSaveFails` answers with success all the same; the history
variable `unbacked` has the accounts that then are in no file, until a save writes
them. `Lookup` is the scan of a copy in `activateExisting`;
`ActivateMissing` and `AddDuplicate` are its stale outcomes. `OtherSave` is any
other save of the store. `Restart` drops the handlers and runs `load`, with its
import of a mirrored token and its activation.

An account is its ID and token. IDs are numbers in creation order, which is the
order of the list; the code's random IDs are never compared. Notes, weights,
regions and snapshots are single writes that touch none of the modelled state.

### Recording: recorders, loops, shutdown

The state is the two recorders (`stats`, `entries` and their dirty flags), the
store's sections in memory and on disk (`conf`, `disk`), and the goroutines:
the handlers (`at`), the stats loop (`flusher`), the account loop (`account`),
the signal goroutine (`stopper`), the drain and `main` (`alive`). A flush is a
critical section that copies and resets the flag, then a save outside the lock.
`Wake` is the select: once the stop is closed it may still take the tick. A save is one
step, because `saveLocked` writes a temporary file and renames it. A counter is
the set of requests it counts, so that a lost update is visible. `Crash` is a
death and a new start from the file.

Left out: retention by age, hourly buckets, per-model rows, the contents of the
account's metadata (the number of the fetch stands for it); the billing cycle is
`BillingCycle`.

### Session: the upstream session of one account and those who share it

`Session.tla` models `bridge/session.go` and `openStreamAsync` of
`bridge/bridge.go`. A caller is a goroutine that chats, looks the catalogue up
or probes; `pc[c]` is where it stands and `me[c]` its locals.

| Code | Actions |
|---|---|
| `EnsureFreshSession`: the check without the lock, the lock and the second check | `Check`, `Lock` (`Underlock` says what the holder does) |
| `doRenew`, `bootstrapSession`, the fall-back of `forceRefresh` | `Renew`, `Login`, with `Issue` and `GiveUp` as outcomes |
| `resolveAccountStatus`, `fetchAccountStatus`, `applyJobToken` | `CachedTier`, `LookupTier`, `FallbackTier`, `Apply` |
| `EnsureAccountStatus` | `Status`, `Quota` |
| `GetCatalog` | `GetCatalog`, `WakeUp`, `FetchCatalog`, `StoreCatalog`, `ReleaseFetch` |
| `openStreamAsync` | `Open`, `Line`, `StreamEnds`, `AuthRejected`, `Busy`, `Backoff` |

A session is the number of the job token it was built from, in the order the
gateway issued them, with the tier signed into it. Of the clock only two moments
are left: a session enters its renewal margin (`SessionAges`), a cache outlives
its TTL (`CacheAges`). A status may come without a tier, beside a plan or a reset
time: it is accepted and replaces the cached one all the same (`StatusAnswer`),
whether a probe or the renewal's own lookup asked for it.
`renewals` and `forgotten` are history, as are the locals
`rejected` and `delivered`. The check-in's use of `forceRefresh` is `Checkin`'s.

### Snapshots: what the pool believes of each account's credits

`Snapshots.tla` models the four writers of `provider.snapshots`
(`applyQuotaToSnapshot`, `deductCredits`, `markAccountFailure` and the panel
check's), the persisted copies with their two writers (the flush
and `handleAccountCheck`), the account loop's cursor and its write for the panel.
The upstream is part of the model: `quota` is what it knows, and `owed` are the
charges whose usage frame is still under way. A fetch is split into its start,
its answer (which may be complete, without a quota, or the cached status) and
its application, so that everything else can happen in between. A write that
finds no snapshot in memory starts from the persisted one (`Seed`). `Restart`
loses memory and frames. An event of the environment is counted in `spent`.

Left out: plan names, check times and error texts; that a cooldown runs out
(`Router`'s `CooldownEnds`); failing saves (`AccountPool`, `Recording`).

### Checkin: the daily check-in

`Checkin.tla` composes the scheduler of `main.go` (`PassBegins` reads a copy of
the pool, `PassVisits` starts a goroutine per due account), the panel's trigger
(`ManualBegins`), the bridge's run with its one retry after a 401 (`Ensure`,
`Bearer`, `Renew`), the claim procedure of `auth/checkin.go` (`List`, `Claim`,
`Relist`) and `RecordCheckin` (`Record`, `Release`). The gateway keeps the
campaigns: a claim may be refused, confirmed, accepted with its answer lost, or
accepted and confirmed later (`pending`, still listed as claimable). Time is a
day number, whether the account's slot has passed, and whether a failure is 30
minutes old; `Midnight` opens the next day's campaigns at any moment of a run.
The session is `Session`'s: here it can be ensured or renewed, or cannot. A save of the
record that fails is left out; `AccountPool` has what failing saves do.

### Delivery: from the upstream's lines to the client's answer

`Delivery.tla` models one attempt: the line loop of `OpenStreamLines` with its
idle watchdog and its detectors of busy and auth rejections, the stream
accumulator (`AcceptText`, `AcceptCall`, `Flushed`), its collecting counterpart,
and the ends of `handleStream` and `handleSync` (`EndStream`, `EndSync`). A piece
of text is the position of its line, so text lost, doubled or out of order is
visible; whether it may be a tool call in words is a kind of line (`mark`). So is each
finish reason of the gateway, which a stream passes on (`FinishReason`) and an unstreamed
answer does not (`SyncReason`); one that shares a frame with content is a line of its own
here. The cap on the number of tool calls (`transform/transform.go:585`) is left out. The
connection may end, break or fall silent after any line.

### WeightedRotation: smooth weighted round-robin

`WeightedRotation.tla` is `weightedRotate` and `rotate`'s choice between it and
the cursor, as one step over any set of candidates. `round`, `served`, `waited`
and `lastSet` are history.

### BillingCycle: the credits of the current subscription period

`BillingCycle.tla` models `rollCycleLocked`, `setBillingCycleAt`,
`projectCycleLocked` and `RecordUsage` of the statistics recorder, with a save
and a restart from it. `Roll` and `Project` are the code's bounded loops as
recursive functions. The recorder has one cycle and follows the boundary of
whichever account is active when the status is asked for (`main.go:413` and 840), and
a switch resets nothing of it. `Phases` says when in its month each account's
subscription renews, and every report may be of any of them: the account may have been
switched before it, or while it was under way. A report names the end of that
subscription's running period or, from a
cached answer, of the one before, off by an element of `Drift`. `sub` and `skewed` are
history: whose boundary is tracked, and whether another's took over since the last
boundary passed. `Stuck` holds the
instants at which a calendar month does not advance, which the code guards.

Two assumptions limit the reports of each subscription. One lies off its boundary by
less than the tolerance, which is what the tolerance is for (`stats/stats.go:17`), and the
tolerance is no longer than a month. And an instant from which a month does not
advance is not a boundary *reported early*: from such a one the recorder would
lose its boundary within a period that has already been charged to, while the
instants the code has in mind (`stats/stats.go:522`) are those of a few historical
zones. That such an instant is itself a boundary, or none, is allowed. Nothing
is assumed of the distance between two subscriptions' boundaries.

### Compositions

`Router` composes routing, failover and slots; `Checkin` the scheduler, bridge
and gateway. `MCSequential` puts `Delivery`, `WeightedRotation` and `BillingCycle`
beside each other for one run. They share no variable, so an interleaving would
show nothing of one of them beyond its own steps: a behaviour takes the steps of
one part, chosen at the start.

## 4. Runs

| Run | Question | Instance | Outcome |
|---|---|---|---|
| `router_safety` | slot accounting, retry protocol, bindings, refinement | 2 CN accounts of 1 slot, 3 requests of 2 conversations, sticky table of 1, quota 1, budget 2, no events | holds, 1.0 million states |
| `router_live` | sick accounts are avoided, every request is answered | a CN and a global account, 2 requests of one conversation with different prefixes, quota 2, least-inflight, 2 health events | holds, 0.26 million states |
| `pool` | the pool's invariants | 2 handlers at a time, 4 requests, 2 tokens, 1 restart, 1 failing save | holds, 0.27 million states |
| `recording` | dirty flags, log order, last writes, the exit | 2 requests, log of 1 entry, 1 fetch, 1 failing save, 1 crash | holds, 0.4 million states |
| `session` | renewal, retries, tier, catalogue, every caller ends | 2 callers, 2 operations of any kind, 1 expiry, 2 caches outliving their TTL | holds, 0.5 million states |
| `snapshots` | health signals, drift, the panel | 2 accounts, full quota 1, 3 events of which 2 may be switches | holds, 1.7 million states |
| `checkin` | records, claims, retries | 1 account, 2 campaigns, 2 days, 2 faults, 1 manual trigger, 1 restart | holds, 0.3 million states |
| `sequential` | delivery and its end, rotation, billing | 3 lines, 2 idle checks; weights 1, 2, 3, running weights within 20; month 3, 2 subscriptions, tolerance 2, 2 catch-ups, time up to 8, 2 usages, 1 restart | holds, 1.1 million states |
| `pool_removed` | a deletion survives a restart | 1 handler, 3 requests, 1 restart | violated, see finding |
| `shutdown_drain` | the final flush has what the drain waited for | 1 request | violated, see finding |
| `panel_foreign` | no write for a replaced token | 2 accounts, 1 switch | violated, see finding |
| `weights_starve` | nobody waits longer than two rounds | weights 1, 2, 3, running weights within 20 | violated, see finding |

*Why the bounds suffice.* Two accounts are the least for a failover and a
rotation, and with a budget of two they let a request use it up. Three requests
on two accounts of one slot make one wait; two of them share a conversation so
that a binding is used up, dropped and rewritten (`router_live`, with a quota of
two, reuses it) while the third competes for
the cursor and for the one place of the table. Two handlers are the least for
every check-then-act race; four calls let a token be added, switched, deleted
and submitted again around them. A log of one entry is pruned by the second.
One crash and one failing save each combine with every interleaving.
Two callers are the least for the double check and for the single flight; two
operations renew the session together or one after the other, with an expiry and a
rejection between them, and two stale caches let a probe or the renewal itself
overwrite a tier before it. Two accounts give the loop's cursor a place to go
wrong, and three events let a stale answer meet a failure mark and a restart; a
quota of one makes every charge cross the boundary of exhaustion. Two campaigns
are the least for a partial claim, two days for a midnight, two faults for a
retry that fails too; a manual trigger beside the scheduled run is the least for
the running guard. Three lines hold a held-back text before a call or an ending, or a
fault after either, and a reason said twice; three weights are the least for candidates that leave while
two others stay unequal; a time of eight with a month of three lets three boundaries of one
subscription pass, one more than the code catches up with in one go here, and two
subscriptions are the least for a switch: one boundary lies the tolerance after the
other's, and the other's less than that after it. Where an invariant is proved, the bounds do
not matter.

*Deadlock* is checked wherever the system goes on by itself: the stuttering
disjuncts `AllDone`, `AtRest` and `Exited` are enabled only where it is rightly
at rest. In the runs of `MCSession`, `MCCheckin` and `MCSequential` it is off
because the bounded inputs run out and everyone is then idle; that nobody is left waiting is what
`Served`, `EventuallyClaimed` and `AnswerEnds` say.

*Symmetry.* `router_safety` permutes the two requests of one conversation and
`pool` handlers and tokens; neither checks liveness.

### Fairness

`Router!Fairness`: goroutines are scheduled (weak fairness of each stage); an
upstream exchange ends, because the header timeout and the idle watchdog abort a
silent one and an answer has an end; a Go channel serves blocked senders in FIFO order, so a slot that keeps
coming free reaches each waiter: strong fairness of `Admit`. Nothing is assumed of
disconnects or of the health events.

`Recording!Fairness`: the account loop's fetch has a 30 s context, the drain a
15 s one, and saves return: weak fairness. Once a stop channel is closed the
select finds it ready each time round and chooses among ready cases at
random: strong fairness of the stop of both loops. Nothing is assumed of the
requests: `ShutdownCompletes` holds although a stream may never end.

`Session!Fairness`: each caller's next step happens, because every upstream call
has a timeout or an idle limit. Weak fairness is enough for the refresh lock and
for the 50 ms sleepers, since operations are finitely many. Lines are not fair: a
stream need not deliver any.

`Snapshots!Fairness`: the loops tick, calls are bounded, and a usage frame arrives
or its stream is cut. No event of the environment is fair.

`Checkin!Fairness`: the loop passes every minute, a run has 90 s, a slot passes
and a failure ages while the day lasts, and an accepted claim is confirmed in the
end. Neither midnight nor any fault is fair.

`MCSequential!Spec`: the watchdog ticks and a handler whose line loop returned
finishes. The upstream and the client owe nothing.

## 5. Properties

*Router.* `SlotsAccounted` relates the tokens, the counter and the requests that
hold them through every exit path. `RetryProtocol` says that what a request
excludes is what it was tried on, that candidates are neither, and that the
budget has room. `BindingsSound`: a conversation is bound only to an account on
which one of its own requests succeeded, within quota and capacity, however late
the success is bound. `NeverRoutedToSick`: an account unhealthy throughout a pick is not
chosen by it, even over a binding. (An account that falls ill *during* a pick may
be chosen: the router reads snapshots before its lock.) `ImplementsPromise` is the
refinement, `EveryRequestAnswered` the liveness.

*AccountPool.* `PoolWellFormed`, `MirrorFollowsActive` (as long as the legacy
token endpoint is not used), `QuietIsPersisted` (any order of overlapping saves
leaves the latest configuration), `AckedSurvives` (an account whose submission was
answered with success survives failed saves and restarts until it is deleted, unless
the answer came from a handler that had dropped the error of its save; such an account is in
memory, and from the next save on in the file), `EmptyMirrorInactive`.

*Recording.* `CleanIsPersisted`, `LogOrdered`, `AccountWriteSurvives`,
`PersistedIsKept`, `ShutdownCompletes`.

*Session.* `SessionBeforeUse` (the check without the lock never lets a caller
through to a missing session), `OneRenewalPerExpiry` (the double check),
`OneAttemptDelivers` and `RetryUsesNewer` (a retry comes before content and with
a newer session), `SessionMonotone` (no late renewal replaces a newer session),
`DowngradeNeedsForgetting` (failed lookups alone never sign a lower tier: it takes a
status without one that replaced the cached status, in a renewal or a probe),
`Served`.

*Snapshots.* `RotationFair` (the cursor visits every account before it returns to
one), `CooldownSurvives`, and three convergence properties: once the disturbances
stop, `DriftRepaired` (memory says what the upstream knows), `EventuallySaved`
(so does the store) and `PanelFollowsActive`.

*Checkin.* `RecordedIsTrue`, `NoClaimTwice`, `RetryFreshBearer`,
`EventuallyClaimed`. A run that crosses midnight records yesterday's outcome under
today's date; the properties except such records (`crossed`).

*Delivery.* `TextInOrder`, `EndingIsTruthful` (no truncated or rejected answer reads as
complete; a complete one has one finish reason: `tool_calls` if the client was given a
call, else in a stream the gateway's last, else `stop`), `AnswerEnds`.

*WeightedRotation.* `ShareIsWeight`: from a state without running weights, an
unchanged set of candidates is served exactly in proportion.

*BillingCycle.* `ProjectionIsNextWrite` (the panel is shown what the next write
will persist), `TotalIsThisCycle` (the total is that of the running cycle, give
or take the drift of its boundary, and survives stale reports and restarts; a switch to an
account whose boundary differs skews it until the next boundary passes, and no longer).

### Findings

- *A deleted account returns at the next start* (`pool_removed`,
  `store/store.go:351`): `ensureAccount` adds an unknown token, but adding
  activates only when nothing is active, so the mirror names another token than
  the active account's; when that account is deleted the mirror stays behind and
  is imported again.
- *Drained requests are missing from the final flush* (`shutdown_drain`,
  `main.go:1083`): the loops are stopped while the drain is still waiting.
- *The previous account's metadata is written after a switch* (`panel_foreign`,
  `main.go:840`): the token handed to the re-check under the lock is read after
  the fetch, so the re-check compares it with itself.
- *Weighted candidates starve* (`weights_starve`, `routing.go:345`): the weights
  of candidates that leave are dropped, but not what the others paid for them;
  the sum drifts below zero and an account may wait ever longer.

### Observations

What else the models showed, and no property claims the contrary of (some of it
against the wording of a comment or a test, which is quoted):

- The rotation cursor is shared by the conversations of a route key and read and
  written in two critical sections (`routing.go:283`): concurrent picks may choose
  the same account, and a rotation after a used-up quota may return to the
  account it left (`routing.go:239`).
- A probe that began before a credential failure lifts its cooldown when its
  answer lands after it; `CooldownSurvives` therefore speaks of any answer of the
  upstream.
- After a restart a probe answered by the identity endpoint only replaces a
  persisted snapshot by one without a quota, until the next complete answer
  (README.md:409 of the repository speaks of keeping the last successful result).
- A 200 from the token endpoint, or from submitting a pooled token, may stand for an
  account that is in memory only, because the save failed and its error was dropped
  (`admin/admin.go:739` and 865); a restart before the next save loses it. A 201 never
  does.
- A stream whose gateway says `tool_calls` without giving a call tells the client
  `tool_calls`.
- A renewal may downgrade an account whose tier is known (`bridge/session.go:152`;
  `forgotten` in `Session`): a status accepted without `userType` (`auth/auth.go:1039`)
  replaces the cached one before the fall-back of `resolveAccountStatus` reads it, and
  the job token's `userType` or the default is signed. A probe may overwrite the cached
  tier in the same way before the renewal. The comment promises "last known tier (even
  if stale) → empty" (`bridge/session.go:81-87`; README.md:413 of the repository: a
  renewal must not silently downgrade a team account): `DowngradeNeedsForgetting` is
  what is left of it.
- An unstreamed answer that the gateway cut at the length limit says `stop`
  (`bridge/stream.go:183`), as every one without a tool call: only the stream asks for
  the gateway's reason. The accumulator's test has "Upstream finish_reason (e.g.
  "length") must flow through to the client" (`transform/transform_test.go:475`,
  497-506); `EndingIsTruthful` therefore states the reason apart for the two modes.
- A switch of accounts may zero the running total (`stats/stats.go:432`): another
  subscription's boundary, the tolerance or more ahead, counts as a refresh, and the
  cycle's start moves to before what was charged. A boundary less than that ahead moves
  the start past charges that stay in the total; an earlier one is ignored until the
  tracked one has passed. "CycleCredits is credits consumed since CycleStartMs"
  (`stats/stats.go:130`) and "a forward move of at least the tolerance is a genuine
  refresh" (`stats/stats.go:399`; README.md:404 of the repository) hold of one
  subscription only: `TotalIsThisCycle` exempts a `skewed` cycle until its next boundary.
- The hook that clears the panel's account when the token changes sits in
  `currentBridge`, which only an empty pool reaches: with a pool the panel shows the
  previous account until the loop comes round.
- A streamed delta that carries text and a tool call loses its text.
- A stream that sends `[DONE]` and stays open ends as an idle error.
- A boundary that is past already when it is first reported is adopted and rolled
  past by the next write, with the credits counted so far (`blind` and `lost` in
  `BillingCycle`).
- The watchdog measures silence, and the stream client has no overall timeout: an
  upstream that keeps dribbling lines holds its request as long as it does.

## 6. Proofs

The theorems hold for every value of the constants that satisfies the modules'
`ASSUME`s; their proofs are checked by TLAPS without unproved steps. Most are about
the module's `Spec`. Those about the three components of `MCSequential` are about
`DeliverySpec`, `RotationSpec` and `BillingSpec`, and `PartsKept` proves that the
composition TLC checks implies each of them.

`RouterProofs`. `TypeCorrect` comes first; what it rests on is that every filter
of the selection and every step of the rotation stays within the pool
(`PickFromHealthy`, `NextAfterAmong`, `FollowsAmong`). `RetryProtocol` is inductive given types: one lemma per
action group. `SickNeverPicked` follows from it: the candidates of a pick are
disjoint from `sick`, which only shrinks until the choice.
`ImplementsPromiseHolds` maps each step to `Try`, `Commit`, `Answer` or a
stutter; it needs `RetryProtocol` for the guards of `Try` (the account is new,
the budget has room, nothing is committed). `SlotsAccountedHolds` needs the
finiteness of the requests to count: each admission adds one holder and each
release removes one. `BindingsSoundHolds` rests on `BindingsInv`, which says of each
binding that a request of its conversation has succeeded *on the account it
names*; it needs `RetryProtocol` as well, because a request that was answered must
never change its account afterwards. The capacity is kept because what an insertion
keeps of a full table (`Kept`) leaves room for one.

`AccountPoolProofs`. `PoolTypeCorrect` is about `TypeOK`, which no run lists since
the proof covers every instance. `PoolWellFormed` is inductive together with every ID in
memory and on disk being below `fresh` (`FormedInv`). `MirrorFollowsActive` needs
that, as long as the legacy endpoint is not used, no handler is inside it and a
configuration without an active account has an empty mirror (`MirrorInv`), so
that loading it changes nothing. `QuietIsPersisted` is strengthened to "a
difference between memory and file has a handler on its way to a save"
(`PendingInv`). `AckedSurvives` is
inductive given the types: a deletion withdraws the acknowledgement in the step
that removes the account, before it is saved; a failed save whose error is dropped adds its
account to `unbacked` if no file has it, and every save, of whomever, takes the pool out of
it; until a restart memory has them all. `EmptyMirrorInactive` needs an invariant over
the handlers under way: an empty mirror beside an active account only while one
of them is about to clear the marker (`ClearingInv`).

`RecordingProofs`. `CleanInv` extends `CleanIsPersisted` with the relation of
`conf`, `disk` and the flush under way. `NothingBehind` (the counted requests on
disk are within those in `conf`, and these within the recorder's) gives
`PersistedIsKept`. `AccountJoinedFirst` gives `AccountWriteSurvives`:
the stats loop stops only after the account loop, so from the final flush on the
account's metadata is fixed and the copy in `conf`, then the file, equal it.
`LogsInOrder`
adds to `LogOrdered` that the copy in `conf` is in order as well.

`SessionProofs`. `Structured` (the refresh lock is held by whoever is in a renewal,
only a rejected stream forces one, a retry has an attempt left) is inductive with
the types. `SessionInv` is the strengthening for the session itself: the token in
a renewal's hands is the last one issued and newer than the current session, since
only the holder of the lock has one; what was rejected was a session of the past;
and callers past the check have a session, which is stable. It gives
`SessionBeforeUse`, `RetryUsesNewer` and `SessionMonotone`. `RenewalInv` gives
`OneRenewalPerExpiry`: who renews without being forced found, with the lock, an
expiry no session has been built for, and nobody else can build one meanwhile.
`DeliveredInv` gives `OneAttemptDelivers`. `TierInv` gives
`DowngradeNeedsForgetting`: until a status without a tier replaces it, in a probe or in a
renewal's own lookup, a tier known to anyone is in
the cache, so that even a renewal whose lookup fails finds it there. The theorems
need one assumption on the constants, that no caller is called `NoOne`.

`SnapshotsProofs`. `SnapshotsInv` is the types with those of the locals of probe,
check and flush. `CooldownSurvivesHolds` is an action property: each of the
writers of a snapshot is gone through, and only an answer of the upstream or a
restart can lift a cooldown. For `RotationFairHolds` the accounts probed since the
last switch or restart must be known exactly: they are those whose places in the
loop's order lie, cyclically, between where the cursor stood then and where it
stands (`LapInv`). The start is not part of the state, so it is quantified.

`CheckinProofs`. `ExclusiveHolds` comes after the types: who is under way is in the
running set and alone with his account. On it rests `ClaimsInv`: while a check-in
claims, what it listed as untouched and has not claimed is untouched still, what it
has left to claim is all there is to claim today, and no record of today says
otherwise (`Claims`); when it is about to record, its outcome is true of the gateway
(`Outcome`); so is every record of today (`Truthful`). Each of the three is needed
for the others, since a record becomes true by what its writer knew. It gives
`RecordedIsTrue` and `NoClaimTwice`. `RetryFreshBearer` is the end of a chain
(`Tokens`) from the rejected token, through what the cache may hold meanwhile, to
the token presented again.

`SequentialProofs`. The definitions here are recursive functions and sums, and the
statements are about all of their arguments. Induction is over sets instead of over
an operator: `NatFrom0` says that a set of numbers with 0 and closed under successor
holds all of them, `MinimalSubset` that of the finite subsets with a property one is
minimal; both follow from the well-foundedness of the numbers. `RoundInv` gives
`ShareIsWeight`: after `k` picks of a round, the running weight of a candidate is
`k` times its weight less the total for each pick of its own, and it has had no more
picks than its weight. If it had, its running weight would have been negative when it
was picked, while the weights of the candidates add up to the total then, so that the
largest is positive. `ProjectIsRoll` relates the two loops, on the cycle
and on copies, step by step. `BillingSound` gives `TotalIsThisCycle`; the property
alone is far from inductive. The invariant adds that an end lies near a true boundary
and a month after the start (or is missing, or never comes), that nothing was charged
after it, that a cycle without an end still has what was charged in the running
period, and that credits which do not reach back to the first start began near a
true boundary; and it holds of the saved copy too, for the restart. All of it is relative
to the subscription that is tracked (`SoundFor`), and what it says of the credits holds
unless they are skewed; the rest, which the next roll needs to be exact again, holds always. The
step that matters is `AdoptSound`: because true boundaries of one subscription are a month
apart and reports off by less, its report that moves the boundary forward is another report
of the same boundary, and keeps the credits, or meets a cycle without a boundary; a report
of another subscription skews the cycle.

`DeliveryProofs`. `UnderWay` says that before its end an answer has written no ending
and, streamed, a tool call exactly if one was accepted, and `Heard` that a stream's
accumulator has the gateway's last finish reason; each of the two ends then
produces one ending that fits (`Ended`), which is `EndingIsTruthful`. For `TextInOrder`,
what was sent and what is pending are in order and hold all text of the lines so far
(`Whole`), and what a stream holds back may all be a tool call in words (`Held`): that is
why discarding it at a call loses nothing else. The lemmas about concatenation and
flattening are proved for all sequences.

*Only model-checked:* the liveness properties (`EveryRequestAnswered`,
`ShutdownCompletes`, `Served`, `DriftRepaired`, `EventuallySaved`,
`PanelFollowsActive`, `EventuallyClaimed`, `AnswerEnds`), since liveness under
fairness is out of this prover's reach. The properties of the four findings are
refuted, so there is nothing to prove of them.

## 7. Not modelled

- Cryptography, credential derivation and wire formats, and the conversion of
  messages, tools and parameters: pure functions of strings.
- The panel, CORS and installation scripts: no shared state. The login limiter and
  panel sessions: two small maps under one mutex each, with no other state
  involved.
- The provider's table of bridges (`bridgeForAccount`, `pruneBridges`): an account
  deleted while a request uses it keeps its bridge until the request ends, which
  no modelled state depends on; the pool is constant in `Router`.
- Settings endpoints, notes, weights and regions: one write and one save each;
  their saves are `AccountPool`'s `OtherSave`.
- Hourly buckets, per-model rows, and retention by age: sums and filters of the
  records that `Recording` has.
- Key aliases, capability tables and start-up configuration: data.
