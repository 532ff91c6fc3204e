------------------------------ MODULE Snapshots -------------------------------
(***************************************************************************)
(* What the pool believes of each account's credits: the snapshots of      *)
(* main.go's bridgeProvider, the copies of them the store persists, and the*)
(* account the statistics panel shows. The account loop probes one account *)
(* a minute, a chat deducts what it was charged, a credential failure cools*)
(* an account down, the panel checks an account on demand, the stats loop  *)
(* flushes the snapshots to the store, and the process restarts.           *)
(*                                                                         *)
(* Credits are small numbers and a charge is one credit. Plan names, check *)
(* times and error texts are left out; when a cooldown runs out is Router's*)
(* concern, and failing saves are AccountPool's and Recording's.           *)
(***************************************************************************)
EXTENDS Integers, FiniteSets, Functions

CONSTANTS
  Accounts,     \* account IDs, in the order of the pool's list
  Nil,          \* no snapshot, no status
  FullQuota,    \* credits of an account after a reset
  Bound,        \* Bound[kind]: bound on the events of a kind
  MaxEvents     \* bound on the events of all kinds

Kinds == {"chats", "faults", "failures", "refills", "checks", "switches", "restarts"}

ASSUME AccountAssumption == Accounts # {} /\ IsFiniteSet(Accounts) /\ Accounts \subseteq Nat
ASSUME BoundAssumption == FullQuota \in Nat \ {0} /\ Bound \in [Kinds -> Nat] /\ MaxEvents \in Nat

\* based: an authoritative total is known; over: the quota is exhausted.
Status == [based : BOOLEAN, left : 0 .. FullQuota, over : BOOLEAN]
Snapshot == [based : BOOLEAN, left : 0 .. FullQuota, over : BOOLEAN, cool : BOOLEAN]
Blank == [based |-> FALSE, left |-> 0, over |-> FALSE, cool |-> FALSE]

ASSUME NilAssumption == Nil \notin Status \cup Snapshot \cup Accounts

VARIABLES
  quota,    \* quota[a]: the credits the upstream knows
  owed,     \* owed[a]: charges whose usage frame has not been deducted yet
  snaps,    \* provider.snapshots
  stored,   \* the accounts' snapshots in the store
  cached,   \* cached[a]: b.account of a's bridge
  active,   \* the active account, whose token is the store's PAT
  panel,    \* the account whose metadata stats.Recorder shows
  cursor,   \* the account loop's
  probe,    \* the account loop: where it stands and its locals
  check,    \* the panel's check: where it stands and its locals
  batch,    \* the copies a flush is about to save
  spent,    \* events so far, by kind
  \* history, read by properties only
  lap       \* accounts probed since the last switch or restart, or since all were

vars == <<quota, owed, snaps, stored, cached, active, panel, cursor, probe, check, batch, spent,
          lap>>
upstream == <<quota, owed>>
loops == <<cached, cursor, probe, check, batch>>

\* An event of the environment: a chat charged, an upstream call that fails, a
\* credential failure, a billing reset, a panel check, a switch, a restart.
Spend(what) ==
  /\ spent[what] < Bound[what]
  /\ SumFunction(spent) < MaxEvents
  /\ spent' = [spent EXCEPT ![what] = @ + 1]

NoProbe == [at |-> "idle", acc |-> Nil, active |-> Nil, pat |-> Nil, st |-> Nil]
NoCheck == [at |-> "idle", acc |-> Nil, st |-> Nil]

\* The loop starts with the active account.
Init ==
  /\ quota \in [Accounts -> {FullQuota}]
  /\ owed = [a \in Accounts |-> 0]
  /\ snaps = [a \in Accounts |-> Nil]
  /\ stored = [a \in Accounts |-> Nil]
  /\ cached = [a \in Accounts |-> Nil]
  /\ active \in Accounts /\ panel = Nil
  /\ cursor = 0
  /\ probe = [NoProbe EXCEPT !.at = "fetch", !.acc = active, !.active = active]
  /\ check = NoCheck /\ batch = Nil
  /\ spent = [b \in Kinds |-> 0]
  /\ lap = {}

-------------------------------------------------------------------------------
(* Chats and health signals                                                *)

\* A chat served on account a is charged upstream; its frame follows.
Charge(a) ==
  /\ quota[a] > 0 /\ Spend("chats")
  /\ quota' = [quota EXCEPT ![a] = @ - 1]
  /\ owed' = [owed EXCEPT ![a] = @ + 1]
  /\ UNCHANGED <<snaps, stored, active, panel, loops, lap>>

\* The billing cycle ends and the allowance is whole again.
Refill(a) ==
  /\ Spend("refills")
  /\ quota' = [quota EXCEPT ![a] = FullQuota]
  /\ UNCHANGED <<owed, snaps, stored, active, panel, loops, lap>>

\* Mutant: the persisted snapshot is preferred.
SeedPersisted(a) == IF stored[a] # Nil THEN stored[a] ELSE snaps[a]

\* The snapshot a write starts from: the memory's, or a copy of the persisted one.
Seed(a) == IF snaps[a] # Nil THEN snaps[a] ELSE stored[a]

Based(snap) == IF snap = Nil THEN FALSE ELSE snap.based

\* deductCredits: without an authoritative total nothing is deducted.
Deduct(a) ==
  /\ owed[a] > 0
  /\ owed' = [owed EXCEPT ![a] = @ - 1]
  /\ LET snap == Seed(a) IN
     \/ /\ Based(snap)
        /\ snaps' = [snaps EXCEPT ![a] = [snap EXCEPT !.left = IF @ > 0 THEN @ - 1 ELSE 0]]
     \/ ~Based(snap) /\ UNCHANGED snaps
  /\ UNCHANGED <<quota, stored, active, panel, loops, spent, lap>>

\* The frame never arrives: the client or the gateway cut the stream.
FrameLost(a) ==
  /\ owed[a] > 0
  /\ owed' = [owed EXCEPT ![a] = @ - 1]
  /\ UNCHANGED <<quota, snaps, stored, active, panel, loops, spent, lap>>

\* markAccountFailure
MarkFailure(a) ==
  /\ Spend("failures")
  /\ LET snap == IF Seed(a) = Nil THEN Blank ELSE Seed(a) IN
     snaps' = [snaps EXCEPT ![a] = [snap EXCEPT !.cool = TRUE]]
  /\ UNCHANGED <<upstream, stored, active, panel, loops, lap>>

-------------------------------------------------------------------------------
(* The account loop                                                        *)

\* probeAccounts: the active account first, then the others in the pool's order.
Place(a) ==
  IF a = active THEN 0
  ELSE Cardinality({b \in Accounts : b < a /\ b # active}) + 1
ProbedAt(i) == CHOOSE a \in Accounts : Place(a) = i

\* Mutant: the cursor runs over the accounts without the active one.
TickShort ==
  /\ probe.at = "idle"
  /\ LET acc == ProbedAt(cursor) IN
     /\ probe' = [NoProbe EXCEPT !.at = "fetch", !.acc = acc, !.active = active]
     /\ lap' = IF lap = Accounts THEN {acc} ELSE lap \cup {acc}
  /\ cursor' = (cursor + 1) % Cardinality(Accounts \ {active})
  /\ UNCHANGED <<upstream, snaps, stored, cached, active, panel, check, batch, spent>>

Tick ==
  /\ probe.at = "idle"
  /\ LET acc == ProbedAt(cursor) IN
     /\ probe' = [NoProbe EXCEPT !.at = "fetch", !.acc = acc, !.active = active]
     /\ lap' = IF lap = Accounts THEN {acc} ELSE lap \cup {acc}
  /\ cursor' = (cursor + 1) % Cardinality(Accounts)
  /\ UNCHANGED <<upstream, snaps, stored, cached, active, panel, check, batch, spent>>

\* What EnsureAccountStatus makes of the upstream's answers, given the status
\* of the last ones: both endpoints answer; only the gateway's does, and the
\* quota is the last one known or none; nothing does.
Full(a) == [based |-> TRUE, left |-> quota[a], over |-> quota[a] = 0]
IdentityOnly(a, last) ==
  IF Based(last) THEN last
  ELSE [based |-> FALSE, left |-> 0, over |-> quota[a] = 0]

ProbeAnswered ==
  /\ probe.at = "fetch"
  /\ \E st \in {Full(probe.acc), IdentityOnly(probe.acc, cached[probe.acc]), cached[probe.acc]} :
       /\ IF st = Full(probe.acc) THEN UNCHANGED spent ELSE Spend("faults")
       /\ cached' = [cached EXCEPT ![probe.acc] = st]
       /\ probe' = IF st = Nil THEN NoProbe ELSE [probe EXCEPT !.at = "apply", !.st = st]
  /\ UNCHANGED <<upstream, snaps, stored, active, panel, cursor, check, batch, lap>>

\* Mutant: deductions are taken for newer than the answer.
ApplyQuotaLowest ==
  /\ probe.at = "apply"
  /\ LET left == IF Based(snaps[probe.acc]) /\ snaps[probe.acc].left < probe.st.left
                 THEN snaps[probe.acc].left ELSE probe.st.left
     IN snaps' = [snaps EXCEPT ![probe.acc] =
          [based |-> probe.st.based, left |-> left, over |-> probe.st.over, cool |-> probe.st.over]]
  /\ probe' = IF probe.acc = probe.active THEN [probe EXCEPT !.at = "write", !.pat = active]
                                          ELSE NoProbe
  /\ UNCHANGED <<upstream, stored, cached, active, panel, cursor, check, batch, spent, lap>>

\* Mutant: every probe goes on to the recorder.
ApplyQuotaAll ==
  /\ probe.at = "apply"
  /\ snaps' = [snaps EXCEPT ![probe.acc] =
       [based |-> probe.st.based, left |-> probe.st.left, over |-> probe.st.over, cool |-> probe.st.over]]
  /\ probe' = [probe EXCEPT !.at = "write", !.pat = active]
  /\ UNCHANGED <<upstream, stored, cached, active, panel, cursor, check, batch, spent, lap>>

\* applyQuotaToSnapshot; the loop goes on to the panel's recorder for the
\* account that was active when the probe began, with the PAT of this moment.
ApplyQuota ==
  /\ probe.at = "apply"
  /\ snaps' = [snaps EXCEPT ![probe.acc] =
       [based |-> probe.st.based, left |-> probe.st.left, over |-> probe.st.over, cool |-> probe.st.over]]
  /\ probe' = IF probe.acc = probe.active THEN [probe EXCEPT !.at = "write", !.pat = active]
                                          ELSE NoProbe
  /\ UNCHANGED <<upstream, stored, cached, active, panel, cursor, check, batch, spent, lap>>

\* applyAccountWrite
WritePanel ==
  /\ probe.at = "write"
  /\ \/ active = probe.pat /\ panel' = probe.acc
     \/ active # probe.pat /\ UNCHANGED panel
  /\ probe' = NoProbe
  /\ UNCHANGED <<upstream, snaps, stored, cached, active, cursor, check, batch, spent, lap>>

-------------------------------------------------------------------------------
(* The panel: check and switch                                             *)

CheckBegins(a) ==
  /\ check.at = "idle" /\ Spend("checks")
  /\ check' = [NoCheck EXCEPT !.at = "fetch", !.acc = a]
  /\ UNCHANGED <<upstream, snaps, stored, active, panel, cached, cursor, probe, batch, lap>>

\* A check uses a bridge of its own, which knows no earlier status.
CheckAnswered ==
  /\ check.at = "fetch"
  /\ \E st \in {Full(check.acc), IdentityOnly(check.acc, Nil), Nil} :
       /\ IF st = Full(check.acc) THEN UNCHANGED spent ELSE Spend("faults")
       /\ check' = [check EXCEPT !.at = IF st = Nil THEN "store" ELSE "seed", !.st = st]
  /\ UNCHANGED <<upstream, snaps, stored, active, panel, cached, cursor, probe, batch, lap>>

\* A check's snapshot carries no cooldown.
Checked == IF check.st = Nil THEN Blank
           ELSE [based |-> check.st.based, left |-> check.st.left, over |-> check.st.over, cool |-> FALSE]

CheckSeeds ==
  /\ check.at = "seed"
  /\ snaps' = [snaps EXCEPT ![check.acc] = Checked]
  /\ check' = [check EXCEPT !.at = "store"]
  /\ UNCHANGED <<upstream, stored, active, panel, cached, cursor, probe, batch, spent, lap>>

\* handleAccountCheck persists the outcome, a failure in the place of the snapshot.
CheckStores ==
  /\ check.at = "store"
  /\ stored' = [stored EXCEPT ![check.acc] = Checked]
  /\ check' = NoCheck
  /\ UNCHANGED <<upstream, snaps, active, panel, cached, cursor, probe, batch, spent, lap>>

Switch(a) ==
  /\ a # active /\ Spend("switches")
  /\ active' = a
  /\ lap' = {}
  /\ UNCHANGED <<upstream, snaps, stored, panel, loops>>

-------------------------------------------------------------------------------
(* The flush and the restart                                               *)

FlushCopies ==
  /\ batch = Nil /\ \E a \in Accounts : snaps[a] # Nil
  /\ batch' = snaps
  /\ UNCHANGED <<upstream, snaps, stored, active, panel, cached, cursor, probe, check, spent, lap>>

\* Mutant: an account that has a persisted snapshot keeps it.
FlushSavesFirst ==
  /\ batch # Nil
  /\ stored' = [a \in Accounts |-> IF stored[a] = Nil THEN batch[a] ELSE stored[a]]
  /\ batch' = Nil
  /\ UNCHANGED <<upstream, snaps, active, panel, cached, cursor, probe, check, spent, lap>>

FlushSaves ==
  /\ batch # Nil
  /\ stored' = [a \in Accounts |-> IF batch[a] = Nil THEN stored[a] ELSE batch[a]]
  /\ batch' = Nil
  /\ UNCHANGED <<upstream, snaps, active, panel, cached, cursor, probe, check, spent, lap>>

\* Memory is gone and the store is loaded from the file; main clears the panel's
\* account once. While it runs nothing clears it on a switch: the hook for that
\* fires in currentBridge, which is only called while the pool is empty.
Restart ==
  /\ Spend("restarts")
  /\ owed' = [a \in Accounts |-> 0]
  /\ snaps' = [a \in Accounts |-> Nil]
  /\ cached' = [a \in Accounts |-> Nil]
  /\ cursor' = 0
  /\ probe' = [NoProbe EXCEPT !.at = "fetch", !.acc = active, !.active = active]
  /\ check' = NoCheck /\ batch' = Nil
  /\ lap' = {} /\ panel' = Nil
  /\ UNCHANGED <<quota, stored, active>>

ProbeStep == Tick \/ ProbeAnswered \/ ApplyQuota \/ WritePanel
CheckStep == CheckAnswered \/ CheckSeeds \/ CheckStores
FlushStep == FlushCopies \/ FlushSaves
FrameStep(a) == Deduct(a) \/ FrameLost(a)

Next ==
  \/ \E a \in Accounts :
       Charge(a) \/ Refill(a) \/ FrameStep(a) \/ MarkFailure(a) \/ CheckBegins(a) \/ Switch(a)
  \/ ProbeStep \/ CheckStep \/ FlushStep \/ Restart

Spec == Init /\ [][Next]_vars

\* The loops tick, every upstream call is bounded by a timeout, and a frame
\* arrives or its stream is cut.
Fairness ==
  /\ WF_vars(ProbeStep) /\ WF_vars(CheckStep) /\ WF_vars(FlushStep)
  /\ \A a \in Accounts : WF_vars(FrameStep(a))

FairSpec == Spec /\ Fairness

-------------------------------------------------------------------------------
(* Properties                                                              *)

\* Types of the snapshots and of the loops' locals.
TypeOK ==
  /\ quota \in [Accounts -> 0 .. FullQuota]
  /\ owed \in [Accounts -> Nat]
  /\ snaps \in [Accounts -> Snapshot \cup {Nil}]
  /\ stored \in [Accounts -> Snapshot \cup {Nil}]
  /\ cached \in [Accounts -> Status \cup {Nil}]
  /\ active \in Accounts /\ panel \in Accounts \cup {Nil}
  /\ cursor \in 0 .. Cardinality(Accounts) - 1
  /\ probe \in [at : {"idle", "fetch", "apply", "write"}, acc : Accounts \cup {Nil},
                active : Accounts \cup {Nil}, pat : Accounts \cup {Nil},
                st : Status \cup {Nil}]
  /\ check \in [at : {"idle", "fetch", "seed", "store"}, acc : Accounts \cup {Nil}, st : Status \cup {Nil}]
  /\ batch \in [Accounts -> Snapshot \cup {Nil}] \cup {Nil}
  /\ spent \in [Kinds -> Nat]
  /\ lap \subseteq Accounts

\* Between two switches no account is probed twice before all were probed once.
RotationFair == [][\A a \in lap : Tick /\ probe'.acc = a => lap = Accounts]_vars

Cooling(a) == IF snaps[a] = Nil THEN FALSE ELSE snaps[a].cool

\* A cooldown is lifted by a status of the upstream that reaches the snapshot, or
\* lost in a restart: no deduction, flush, switch or probe of another account
\* lifts it, whichever copy of the snapshot it started from.
CooldownSurvives ==
  [][\A a \in Accounts :
       Cooling(a) /\ ~Cooling(a)' =>
         \/ probe.at = "apply" /\ probe.acc = a /\ ~probe.st.over
         \/ check.at = "seed" /\ check.acc = a
         \/ spent'["restarts"] # spent["restarts"]]_vars

\* The drift between the pool's credits and the upstream's is repaired: late or
\* lost frames, failing calls, checks and restarts all happen, and once they
\* stop every snapshot tells what the upstream knows.
DriftRepaired ==
  <>[](\A a \in Accounts :
         /\ Based(snaps[a])
         /\ snaps[a].left = quota[a] /\ snaps[a].over = (quota[a] = 0))

\* A flush may write older copies over newer snapshots, and a check its failure;
\* in the end the store has what the upstream knows.
EventuallySaved ==
  <>[](\A a \in Accounts :
         Based(stored[a]) /\ stored[a].left = quota[a] /\ stored[a].over = (quota[a] = 0))

\* The panel ends up with the active account's metadata.
PanelFollowsActive == <>[](panel = active)

\* What the comment at main.go:411-413 says: metadata of a replaced PAT is never
\* written to the recorder.
NoForeignWrite == [][panel' # panel => panel' = active]_vars
===============================================================================
