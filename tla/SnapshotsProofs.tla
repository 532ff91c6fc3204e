--------------------------- MODULE SnapshotsProofs ----------------------------
(***************************************************************************)
(* Theorems about Snapshots, for every pool and any number of events: the  *)
(* type invariant, that only the upstream's status or a restart lifts a    *)
(* cooldown, and that the account loop probes every account before it      *)
(* probes one again. That the drift is repaired in the end stays with TLC. *)
(***************************************************************************)
EXTENDS Snapshots, FiniteSetTheorems, TLAPS

USE AccountAssumption, BoundAssumption, NilAssumption

Pool == Cardinality(Accounts)

\* The pool is finite and not empty.
LEMMA PoolSize == Pool \in Nat \ {0}
BY FS_CardinalityType, FS_EmptySet DEF Pool

-------------------------------------------------------------------------------
(* The order in which the account loop probes the pool.                    *)

Before(a) == {b \in Accounts : b < a /\ b # active}

\* The accounts before one are fewer than the pool, by that one and by the active one.
LEMMA BeforeSize ==
  ASSUME active \in Accounts, NEW a \in Accounts \ {active}
  PROVE  IsFiniteSet(Before(a)) /\ Cardinality(Before(a)) \in 0..(Pool - 2)
<1>1. Before(a) \in SUBSET ((Accounts \ {active}) \ {a})
  BY DEF Before
<1>2. /\ IsFiniteSet(Accounts \ {active}) /\ Cardinality(Accounts \ {active}) = Pool - 1
      /\ IsFiniteSet((Accounts \ {active}) \ {a})
      /\ Cardinality((Accounts \ {active}) \ {a}) = Pool - 2
  <2>1. IsFiniteSet(Accounts \ {active}) /\ Cardinality(Accounts \ {active}) = Pool - 1
    BY FS_RemoveElement DEF Pool
  <2>2. /\ IsFiniteSet((Accounts \ {active}) \ {a})
        /\ Cardinality((Accounts \ {active}) \ {a}) = (Pool - 1) - 1
    <3> DEFINE others == Accounts \ {active}
    <3>1. a \in others /\ IsFiniteSet(others) /\ Cardinality(others) = Pool - 1
      BY <2>1
    <3> HIDE DEF others
    <3>2. /\ IsFiniteSet(others \ {a})
          /\ Cardinality(others \ {a}) = Cardinality(others) - 1
      BY <3>1, FS_RemoveElement
    <3>3. IsFiniteSet(others \ {a}) /\ Cardinality(others \ {a}) = Pool - 1 - 1
      BY <3>1, <3>2
    <3> QED BY <3>3 DEF others
  <2> QED BY <2>1, <2>2, PoolSize
<1>3. IsFiniteSet(Before(a)) /\ Cardinality(Before(a)) <= Pool - 2
  BY <1>1, <1>2, FS_Subset
<1>4. Cardinality(Before(a)) \in Nat
  BY <1>3, FS_CardinalityType
<1> QED BY <1>3, <1>4, PoolSize

\* Of two accounts besides the active one, the lower has the lower place.
LEMMA PlaceGrows ==
  ASSUME active \in Accounts, NEW a \in Accounts \ {active}, NEW b \in Accounts \ {active}, a < b
  PROVE  Place(a) < Place(b)
<1>1. Before(a) \cup {a} \in SUBSET Before(b) /\ a \notin Before(a)
  <2>1. \A c \in Accounts : c < a => c < b
    <3> TAKE c \in Accounts
    <3> QED OBVIOUS
  <2>2. a \in Before(b) /\ ~(a < a)
    BY DEF Before
  <2> QED BY <2>1, <2>2 DEF Before
<1>2. /\ IsFiniteSet(Before(a)) /\ IsFiniteSet(Before(b))
      /\ Cardinality(Before(a)) \in Nat /\ Cardinality(Before(b)) \in Nat
  BY BeforeSize, PoolSize
<1>3. Cardinality(Before(a) \cup {a}) = Cardinality(Before(a)) + 1
  BY <1>1, <1>2, FS_AddElement
<1>4. Cardinality(Before(a) \cup {a}) <= Cardinality(Before(b))
  BY <1>1, <1>2, FS_Subset
<1>5. Place(a) = Cardinality(Before(a)) + 1 /\ Place(b) = Cardinality(Before(b)) + 1
  BY DEF Place, Before
<1> QED BY <1>2, <1>3, <1>4, <1>5

\* Every account has a place among those of the pool.
LEMMA PlaceType ==
  ASSUME active \in Accounts, NEW a \in Accounts
  PROVE  Place(a) \in 0..(Pool - 1)
<1>1. CASE a = active
  BY <1>1, PoolSize DEF Place
<1>2. CASE a # active
  <2>1. Place(a) = Cardinality(Before(a)) + 1
    BY <1>2 DEF Place, Before
  <2>2. Cardinality(Before(a)) \in 0..(Pool - 2)
    BY <1>2, BeforeSize
  <2> QED BY <2>1, <2>2, PoolSize
<1> QED BY <1>1, <1>2

\* No two accounts share a place.
LEMMA PlaceInjective ==
  ASSUME active \in Accounts, NEW a \in Accounts, NEW b \in Accounts, Place(a) = Place(b)
  PROVE  a = b
<1>1. \A c \in Accounts \ {active} : Place(c) > 0 /\ Place(active) = 0
  <2> TAKE c \in Accounts \ {active}
  <2>1. Place(c) = Cardinality(Before(c)) + 1 /\ Place(active) = 0
    BY DEF Place, Before
  <2>2. Cardinality(Before(c)) \in 0..(Pool - 2)
    BY BeforeSize
  <2> QED BY <2>1, <2>2, PoolSize
<1>2. CASE a = active \/ b = active
  BY <1>1, <1>2
<1>3. CASE a # active /\ b # active
  <2>1. Place(a) \in 0..(Pool - 1) /\ Place(b) \in 0..(Pool - 1)
    BY PlaceType
  <2>2. ~(a < b) /\ ~(b < a)
    BY <1>3, <2>1, PlaceGrows, PoolSize
  <2> QED BY <2>2
<1> QED BY <1>2, <1>3

\* Every place is an account's: as many places as accounts and no two the same.
LEMMA ProbedAtPlace ==
  ASSUME active \in Accounts, NEW i \in 0..(Pool - 1)
  PROVE  ProbedAt(i) \in Accounts /\ Place(ProbedAt(i)) = i
<1> DEFINE T == 0..(Pool - 1)
           place == [a \in Accounts |-> Place(a)]
<1>1. IsFiniteSet(T) /\ Cardinality(T) = Pool
  BY PoolSize, FS_Interval
<1>2. place \in Injection(Accounts, T)
  <2>1. place \in [Accounts -> T]
    BY PlaceType
  <2>2. \A a, b \in Accounts : place[a] = place[b] => a = b
    BY PlaceInjective
  <2> HIDE DEF T, place
  <2> QED BY <2>1, <2>2 DEF Injection, IsInjective
<1>3. place \in Surjection(Accounts, T)
  <2> HIDE DEF T, place
  <2> QED BY <1>1, <1>2, FS_Injection DEF Pool
<1>4. \E a \in Accounts : Place(a) = i
  BY <1>3 DEF Surjection
<1> QED BY <1>4 DEF ProbedAt

-------------------------------------------------------------------------------
(* Type correctness.                                                       *)

\* A probe or a check under way is one of an account, and what it is about to
\* apply is a status.
LocalsOK ==
  /\ probe.at # "idle" => probe.acc \in Accounts
  /\ probe.at = "apply" => probe.st \in Status
  /\ check.at # "idle" => check.acc \in Accounts
  /\ check.at = "seed" => check.st \in Status

SnapshotsInv == TypeOK /\ LocalsOK

\* An event is counted.
LEMMA SpendType ==
  ASSUME spent \in [Kinds -> Nat], NEW k \in Kinds, Spend(k)
  PROVE  spent' \in [Kinds -> Nat] /\ spent'[k] # spent[k]
<1>1. spent' = [spent EXCEPT ![k] = spent[k] + 1]
  BY DEF Spend
<1> QED BY <1>1

\* A step that is no event, or one of some kind.
LEMMA SpendsType ==
  ASSUME spent \in [Kinds -> Nat],
         UNCHANGED spent \/ \E k \in Kinds : Spend(k)
  PROVE  spent' \in [Kinds -> Nat]
BY SpendType

\* What the upstream's answers make of the last status is a status.
LEMMA StatusType ==
  ASSUME quota \in [Accounts -> 0..FullQuota], NEW a \in Accounts,
         NEW last \in Status \cup {Nil}
  PROVE  Full(a) \in Status /\ IdentityOnly(a, last) \in Status
<1>1. Full(a) \in Status
  BY DEF Full, Status
<1>2. CASE Based(last)
  <2>1. last # Nil
    BY <1>2 DEF Based
  <2> QED BY <1>1, <1>2, <2>1 DEF IdentityOnly
<1>3. CASE ~Based(last)
  <2>1. [based |-> FALSE, left |-> 0, over |-> quota[a] = 0] \in Status
    BY DEF Status
  <2> QED BY <1>1, <1>3, <2>1 DEF IdentityOnly
<1> QED BY <1>2, <1>3

\* A snapshot keeps its type, and is one, whichever field is set.
LEMMA SnapshotFields ==
  ASSUME NEW s \in Snapshot
  PROVE  /\ [s EXCEPT !.cool = TRUE] \in Snapshot
         /\ [s EXCEPT !.cool = TRUE].cool = TRUE
         /\ [s EXCEPT !.left = IF @ > 0 THEN @ - 1 ELSE 0] \in Snapshot
         /\ [s EXCEPT !.left = IF @ > 0 THEN @ - 1 ELSE 0].cool = s.cool
<1>1. [s EXCEPT !.cool = TRUE] \in Snapshot /\ [s EXCEPT !.cool = TRUE].cool = TRUE
  BY DEF Snapshot
<1>2. (IF s.left > 0 THEN s.left - 1 ELSE 0) \in 0..FullQuota
  <2>1. s.left \in 0..FullQuota
    BY DEF Snapshot
  <2> QED BY <2>1
<1>3. ASSUME NEW n \in 0..FullQuota
      PROVE  [s EXCEPT !.left = n] \in Snapshot /\ [s EXCEPT !.left = n].cool = s.cool
  BY DEF Snapshot
<1> QED BY <1>1, <1>2, <1>3

\* A status, and any cooldown, make a snapshot.
LEMMA StatusSnapshot ==
  ASSUME NEW st \in Status, NEW cool \in BOOLEAN
  PROVE  [based |-> st.based, left |-> st.left, over |-> st.over, cool |-> cool] \in Snapshot
BY DEF Status, Snapshot

\* The snapshot a write starts from is one, or there is none.
LEMMA SeedType ==
  ASSUME TypeOK, NEW a \in Accounts
  PROVE  Seed(a) \in Snapshot \cup {Nil}
BY DEF Seed, TypeOK

\* Nothing has been probed when the process starts.
LEMMA InitType == Init => SnapshotsInv
<1> SUFFICES ASSUME Init PROVE SnapshotsInv
  OBVIOUS
<1>1. probe = [at |-> "fetch", acc |-> active, active |-> active, pat |-> Nil, st |-> Nil]
  BY DEF Init, NoProbe
<1>2. check = [at |-> "idle", acc |-> Nil, st |-> Nil]
  BY DEF Init, NoCheck
<1>3. cursor \in 0..(Cardinality(Accounts) - 1)
  BY PoolSize DEF Init, Pool
<1>4. LocalsOK
  BY <1>1, <1>2 DEF Init, LocalsOK
<1>5. /\ probe \in [at : {"idle", "fetch", "apply", "write"}, acc : Accounts \cup {Nil},
                active : Accounts \cup {Nil}, pat : Accounts \cup {Nil},
                st : Status \cup {Nil}]
      /\ check \in [at : {"idle", "fetch", "seed", "store"}, acc : Accounts \cup {Nil}, st : Status \cup {Nil}]
  BY <1>1, <1>2 DEF Init
<1> QED BY <1>3, <1>4, <1>5 DEF Init, SnapshotsInv, TypeOK

\* Chats, refills, failures, the start of a check and a switch keep the types.
LEMMA EventType ==
  ASSUME SnapshotsInv, NEW a \in Accounts,
         \/ Charge(a) \/ Refill(a) \/ FrameStep(a)
         \/ MarkFailure(a) \/ CheckBegins(a) \/ Switch(a)
  PROVE  SnapshotsInv'
<1> USE DEF SnapshotsInv, LocalsOK, upstream, loops
<1>0. spent' \in [Kinds -> Nat]
  <2>1. UNCHANGED spent \/ \E k \in Kinds : Spend(k)
    BY DEF Charge, Refill, FrameStep, Deduct, FrameLost, MarkFailure, CheckBegins, Switch, Kinds
  <2> QED BY <2>1, SpendsType DEF TypeOK
<1>1. CASE Charge(a)
  <2>1. quota' \in [Accounts -> 0..FullQuota]
    <3>1. quota[a] \in 0..FullQuota /\ quota[a] > 0 /\ quota' = [quota EXCEPT ![a] = quota[a] - 1]
      BY <1>1 DEF Charge, TypeOK
    <3>2. quota[a] - 1 \in 0..FullQuota
      BY <3>1
    <3> QED BY <3>1, <3>2 DEF TypeOK
  <2>2. owed' \in [Accounts -> Nat]
    <3>1. owed' = [owed EXCEPT ![a] = owed[a] + 1] /\ owed \in [Accounts -> Nat]
      BY <1>1 DEF Charge, TypeOK
    <3> QED BY ONLY <3>1, a \in Accounts
  <2> QED BY <1>0, <1>1, <2>1, <2>2 DEF Charge, TypeOK
<1>2. CASE Refill(a)
  <2>1. quota' \in [Accounts -> 0..FullQuota]
    BY <1>2 DEF Refill, TypeOK
  <2> QED BY <1>0, <1>2, <2>1 DEF Refill, TypeOK
<1>3. CASE FrameStep(a)
  <2>1. owed' \in [Accounts -> Nat]
    BY <1>3 DEF FrameStep, Deduct, FrameLost, TypeOK
  <2>2. snaps' \in [Accounts -> Snapshot \cup {Nil}]
    <3>1. CASE UNCHANGED snaps
      BY <3>1 DEF TypeOK
    <3>2. CASE /\ Based(Seed(a))
               /\ snaps' = [snaps EXCEPT ![a] =
                    [Seed(a) EXCEPT !.left = IF @ > 0 THEN @ - 1 ELSE 0]]
      <4>1. Seed(a) \in Snapshot
        BY <3>2, SeedType DEF Based
      <4> DEFINE new == [Seed(a) EXCEPT !.left = IF @ > 0 THEN @ - 1 ELSE 0]
      <4>2. new \in Snapshot
        BY <4>1, SnapshotFields
      <4>3. snaps' = [snaps EXCEPT ![a] = new]
        BY <3>2
      <4> HIDE DEF new
      <4> QED BY <4>2, <4>3 DEF TypeOK
    <3> QED BY <1>3, <3>1, <3>2 DEF FrameStep, Deduct, FrameLost
  <2>3. UNCHANGED <<quota, stored, active, panel, loops, spent, lap>>
    BY <1>3 DEF FrameStep, Deduct, FrameLost
  <2> QED BY <1>0, <2>1, <2>2, <2>3 DEF TypeOK
<1>4. CASE MarkFailure(a)
  <2> DEFINE snap == IF Seed(a) = Nil THEN Blank ELSE Seed(a)
             new == [snap EXCEPT !.cool = TRUE]
  <2>1. snap \in Snapshot
    <3>1. Blank \in Snapshot
      BY DEF Blank, Snapshot
    <3> QED BY <3>1, SeedType
  <2>2. new \in Snapshot
    BY <2>1, SnapshotFields
  <2>3. snaps' = [snaps EXCEPT ![a] = new]
    BY <1>4 DEF MarkFailure
  <2>4. snaps' \in [Accounts -> Snapshot \cup {Nil}]
    <3> HIDE DEF new
    <3> QED BY <2>2, <2>3 DEF TypeOK
  <2> QED BY <1>0, <1>4, <2>4 DEF MarkFailure, TypeOK
<1>5. CASE CheckBegins(a)
  <2>1. check' = [at |-> "fetch", acc |-> a, st |-> Nil]
    BY <1>5 DEF CheckBegins, NoCheck
  <2>2. check' \in [at : {"idle", "fetch", "seed", "store"}, acc : Accounts \cup {Nil}, st : Status \cup {Nil}]
    BY <2>1
  <2> QED BY <1>0, <1>5, <2>1, <2>2 DEF CheckBegins, TypeOK
<1>6. CASE Switch(a)
  BY <1>0, <1>6 DEF Switch, TypeOK
<1> QED BY <1>1, <1>2, <1>3, <1>4, <1>5, <1>6

\* The account loop keeps the types: every tick finds an account at the cursor.
LEMMA ProbeType ==
  ASSUME SnapshotsInv, ProbeStep
  PROVE  SnapshotsInv'
<1> USE DEF SnapshotsInv, LocalsOK, upstream, loops
<1> DEFINE Probe == [at : {"idle", "fetch", "apply", "write"}, acc : Accounts \cup {Nil},
                     active : Accounts \cup {Nil}, pat : Accounts \cup {Nil}, st : Status \cup {Nil}]
<1>0. probe \in Probe /\ NoProbe \in Probe /\ NoProbe.at = "idle"
  BY DEF TypeOK, NoProbe
<1>1. CASE Tick
  <2> DEFINE acc == ProbedAt(cursor)
  <2>1. acc \in Accounts
    BY ProbedAtPlace DEF TypeOK, Pool
  <2>2. probe' = [at |-> "fetch", acc |-> acc, active |-> active, pat |-> Nil, st |-> Nil]
    BY <1>1 DEF Tick, NoProbe
  <2>3. probe' \in Probe /\ probe'.at = "fetch" /\ probe'.acc \in Accounts
    BY <2>1, <2>2 DEF TypeOK
  <2>4. cursor' \in 0..(Cardinality(Accounts) - 1)
    BY <1>1, PoolSize DEF Tick, TypeOK, Pool
  <2>5. lap' \subseteq Accounts
    BY <1>1, <2>1 DEF Tick, TypeOK
  <2> HIDE DEF acc
  <2> QED BY <1>1, <2>3, <2>4, <2>5 DEF Tick, TypeOK
<1>2. CASE ProbeAnswered
  <2>1. PICK st \in {Full(probe.acc), IdentityOnly(probe.acc, cached[probe.acc]), cached[probe.acc]} :
          /\ IF st = Full(probe.acc) THEN UNCHANGED spent ELSE Spend("faults")
          /\ cached' = [cached EXCEPT ![probe.acc] = st]
          /\ probe' = IF st = Nil THEN NoProbe ELSE [probe EXCEPT !.at = "apply", !.st = st]
    BY <1>2 DEF ProbeAnswered
  <2>2. probe.acc \in Accounts /\ st \in Status \cup {Nil}
    <3>1. probe.acc \in Accounts
      BY <1>2 DEF ProbeAnswered
    <3>2. cached[probe.acc] \in Status \cup {Nil}
      BY <3>1 DEF TypeOK
    <3>3. Full(probe.acc) \in Status /\ IdentityOnly(probe.acc, cached[probe.acc]) \in Status
      BY <3>1, <3>2, StatusType DEF TypeOK
    <3> QED BY <2>1, <3>1, <3>2, <3>3
  <2>3. spent' \in [Kinds -> Nat]
    BY <2>1, SpendsType DEF TypeOK, Kinds
  <2>4. probe' \in Probe /\ (probe'.at # "idle" => probe'.acc \in Accounts /\ probe'.st \in Status)
    <3>1. CASE st = Nil
      BY <1>0, <2>1, <3>1
    <3>2. CASE st # Nil
      <4>1. probe' = [probe EXCEPT !.at = "apply", !.st = st] /\ st \in Status
        BY <2>1, <2>2, <3>2
      <4> QED BY <1>0, <2>2, <4>1
    <3> QED BY <3>1, <3>2
  <2>5. cached' \in [Accounts -> Status \cup {Nil}]
    BY <2>1, <2>2 DEF TypeOK
  <2> QED BY <1>2, <2>3, <2>4, <2>5 DEF ProbeAnswered, TypeOK
<1>3. CASE ApplyQuota
  <2> DEFINE new == [based |-> probe.st.based, left |-> probe.st.left, over |-> probe.st.over, cool |-> probe.st.over]
  <2>1. new \in Snapshot
    <3>1. probe.st \in Status /\ probe.st.over \in BOOLEAN
      BY <1>3 DEF ApplyQuota, Status
    <3> QED BY <3>1, StatusSnapshot
  <2>2. snaps' = [snaps EXCEPT ![probe.acc] = new]
    BY <1>3 DEF ApplyQuota
  <2>3. snaps' \in [Accounts -> Snapshot \cup {Nil}]
    <3> HIDE DEF new
    <3> QED BY <2>1, <2>2 DEF TypeOK
  <2>4. probe' \in {NoProbe, [probe EXCEPT !.at = "write", !.pat = active]}
    BY <1>3 DEF ApplyQuota
  <2>5. probe.acc \in Accounts /\ active \in Accounts
    BY <1>3 DEF ApplyQuota, TypeOK
  <2>6. probe' \in Probe /\ probe'.at \in {"idle", "write"} /\ (probe'.at # "idle" => probe'.acc \in Accounts)
    BY <1>0, <2>4, <2>5
  <2> QED BY <1>3, <2>3, <2>6 DEF ApplyQuota, TypeOK
<1>4. CASE WritePanel
  <2>1. panel' \in Accounts \cup {Nil}
    BY <1>4 DEF WritePanel, TypeOK
  <2>2. probe' \in Probe /\ probe'.at = "idle"
    BY <1>0, <1>4 DEF WritePanel
  <2> QED BY <1>4, <2>1, <2>2 DEF WritePanel, TypeOK
<1> QED BY <1>1, <1>2, <1>3, <1>4 DEF ProbeStep

\* A check's snapshot is one, without a cooldown.
LEMMA CheckedType ==
  ASSUME TypeOK
  PROVE  Checked \in Snapshot /\ Checked.cool = FALSE
<1>1. CASE check.st = Nil
  BY <1>1 DEF Checked, Blank, Snapshot
<1>2. CASE check.st # Nil
  <2>1. check.st \in Status
    BY <1>2 DEF TypeOK
  <2> QED BY <1>2, <2>1, StatusSnapshot DEF Checked
<1> QED BY <1>1, <1>2

\* The panel's check keeps the types.
LEMMA CheckType ==
  ASSUME SnapshotsInv, CheckStep
  PROVE  SnapshotsInv'
<1> USE DEF SnapshotsInv, LocalsOK, upstream, loops
<1> DEFINE Checks == [at : {"idle", "fetch", "seed", "store"}, acc : Accounts \cup {Nil}, st : Status \cup {Nil}]
<1>0. check \in Checks /\ NoCheck \in Checks /\ NoCheck.at = "idle"
  BY DEF TypeOK, NoCheck
<1>1. CASE CheckAnswered
  <2>1. PICK st \in {Full(check.acc), IdentityOnly(check.acc, Nil), Nil} :
          /\ IF st = Full(check.acc) THEN UNCHANGED spent ELSE Spend("faults")
          /\ check' = [check EXCEPT !.at = IF st = Nil THEN "store" ELSE "seed", !.st = st]
    BY <1>1 DEF CheckAnswered
  <2>2. check.acc \in Accounts /\ st \in Status \cup {Nil}
    BY <1>1, <2>1, StatusType DEF CheckAnswered, TypeOK
  <2>3. spent' \in [Kinds -> Nat]
    BY <2>1, SpendsType DEF TypeOK, Kinds
  <2>4. check' \in Checks /\ check'.acc \in Accounts /\ (check'.at = "seed" => check'.st \in Status)
    BY <1>0, <2>1, <2>2
  <2> QED BY <1>1, <2>3, <2>4 DEF CheckAnswered, TypeOK
<1>2. CASE CheckSeeds
  <2>1. snaps' \in [Accounts -> Snapshot \cup {Nil}]
    BY <1>2, CheckedType DEF CheckSeeds, TypeOK
  <2>2. check' \in Checks /\ check'.at = "store" /\ check'.acc \in Accounts
    BY <1>0, <1>2 DEF CheckSeeds
  <2> QED BY <1>2, <2>1, <2>2 DEF CheckSeeds, TypeOK
<1>3. CASE CheckStores
  <2>1. stored' \in [Accounts -> Snapshot \cup {Nil}]
    BY <1>3, CheckedType DEF CheckStores, TypeOK
  <2>2. check' \in Checks /\ check'.at = "idle"
    BY <1>0, <1>3 DEF CheckStores
  <2> QED BY <1>3, <2>1, <2>2 DEF CheckStores, TypeOK
<1> QED BY <1>1, <1>2, <1>3 DEF CheckStep

\* The flush, a restart and doing nothing keep the types.
LEMMA RestType ==
  ASSUME SnapshotsInv, FlushStep \/ Restart \/ UNCHANGED vars
  PROVE  SnapshotsInv'
<1> USE DEF SnapshotsInv, LocalsOK, upstream, loops
<1>1. CASE FlushCopies
  BY <1>1 DEF FlushCopies, TypeOK
<1>2. CASE FlushSaves
  <2>1. batch \in [Accounts -> Snapshot \cup {Nil}]
    BY <1>2 DEF FlushSaves, TypeOK
  <2>2. stored' \in [Accounts -> Snapshot \cup {Nil}]
    BY <1>2, <2>1 DEF FlushSaves, TypeOK
  <2> QED BY <1>2, <2>2 DEF FlushSaves, TypeOK
<1>3. CASE Restart
  <2>1. probe' = [at |-> "fetch", acc |-> active, active |-> active, pat |-> Nil, st |-> Nil]
    BY <1>3 DEF Restart, NoProbe
  <2>2. check' = [at |-> "idle", acc |-> Nil, st |-> Nil]
    BY <1>3 DEF Restart, NoCheck
  <2>3. spent' \in [Kinds -> Nat]
    BY <1>3, SpendsType DEF Restart, TypeOK, Kinds
  <2>4. cursor' \in 0..(Cardinality(Accounts) - 1)
    BY <1>3, PoolSize DEF Restart, Pool
  <2>5. /\ probe' \in [at : {"idle", "fetch", "apply", "write"}, acc : Accounts \cup {Nil},
                active : Accounts \cup {Nil}, pat : Accounts \cup {Nil},
                st : Status \cup {Nil}]
        /\ check' \in [at : {"idle", "fetch", "seed", "store"}, acc : Accounts \cup {Nil}, st : Status \cup {Nil}]
        /\ active \in Accounts
    BY <2>1, <2>2 DEF TypeOK
  <2>6. LocalsOK'
    BY <2>1, <2>2, <2>5
  <2> QED BY <1>3, <2>3, <2>4, <2>5, <2>6 DEF Restart, TypeOK
<1>4. CASE UNCHANGED vars
  BY <1>4 DEF vars, TypeOK
<1> QED BY <1>1, <1>2, <1>3, <1>4 DEF FlushStep

\* Every step keeps the types.
LEMMA StepType == SnapshotsInv /\ [Next]_vars => SnapshotsInv'
BY EventType, ProbeType, CheckType, RestType DEF Next

\* They hold in every reachable state.
LEMMA TypeAlways == Spec => []SnapshotsInv
BY InitType, StepType, PTL DEF Spec

\* Every variable keeps its type: in particular each tick of the account loop
\* finds an account to probe, and what a probe applies is a status of it.
THEOREM TypeCorrect == Spec => []TypeOK
<1>1. SnapshotsInv => TypeOK
  BY DEF SnapshotsInv
<1> QED BY <1>1, TypeAlways, PTL

-------------------------------------------------------------------------------
(* Cooldowns.                                                              *)

\* A cooldown is lifted only by a status of the upstream that reaches the
\* snapshot, or lost in a restart: a deduction, a failure, a flush, a switch or a
\* probe of another account never lifts it (deductCredits, markAccountFailure,
\* applyQuotaToSnapshot, seedSnapshot).
THEOREM CooldownSurvivesHolds == Spec => CooldownSurvives
<1> DEFINE Lifted(a) == \/ probe.at = "apply" /\ probe.acc = a /\ ~probe.st.over
                        \/ check.at = "seed" /\ check.acc = a
                        \/ spent'["restarts"] # spent["restarts"]
           Kept == \A a \in Accounts : Cooling(a) /\ ~Cooling(a)' => Lifted(a)
<1>1. ASSUME SnapshotsInv, [Next]_vars PROVE [Kept]_vars
  <2> SUFFICES ASSUME NEW a \in Accounts, Cooling(a), ~Cooling(a)' PROVE Lifted(a)
    OBVIOUS
  <2>0. snaps[a] \in Snapshot /\ snaps[a] # Nil /\ snaps[a].cool = TRUE
        /\ snaps \in [Accounts -> Snapshot \cup {Nil}]
    BY <1>1 DEF Cooling, SnapshotsInv, TypeOK, Snapshot
  <2>1. ASSUME NEW s \in Snapshot, snaps'[a] = s, s.cool = TRUE PROVE FALSE
    <3>1. snaps'[a] # Nil /\ snaps'[a].cool = TRUE
      BY <2>1
    <3> QED BY <3>1 DEF Cooling
  <2>2. snaps'[a] # snaps[a]
    BY <2>0, <2>1
  <2>3. CASE \E b \in Accounts : Deduct(b)
    <3>1. PICK b \in Accounts : Deduct(b)
      BY <2>3
    <3> DEFINE new == [Seed(b) EXCEPT !.left = IF @ > 0 THEN @ - 1 ELSE 0]
    <3>2. b = a /\ snaps' = [snaps EXCEPT ![b] = new]
      BY <2>0, <2>2, <3>1 DEF Deduct
    <3>3. Seed(b) = snaps[a]
      BY <2>0, <3>2 DEF Seed
    <3>4. new \in Snapshot /\ new.cool = TRUE
      BY <2>0, <3>3, SnapshotFields
    <3>5. snaps'[a] = new
      BY <2>0, <3>2
    <3> HIDE DEF new
    <3> QED BY <2>1, <3>4, <3>5
  <2>4. CASE \E b \in Accounts : MarkFailure(b)
    <3>1. PICK b \in Accounts : MarkFailure(b)
      BY <2>4
    <3> DEFINE new == [snaps[a] EXCEPT !.cool = TRUE]
    <3>2. b = a
      BY <2>0, <2>2, <3>1 DEF MarkFailure
    <3>3. Seed(a) = snaps[a] /\ Seed(a) # Nil
      BY <2>0 DEF Seed
    <3>4. snaps'[a] = new
      BY <2>0, <3>1, <3>2, <3>3 DEF MarkFailure
    <3>5. new \in Snapshot /\ new.cool = TRUE
      BY <2>0, SnapshotFields
    <3> HIDE DEF new
    <3> QED BY <2>1, <3>4, <3>5
  <2>5. CASE ApplyQuota
    <3> DEFINE new == [based |-> probe.st.based, left |-> probe.st.left, over |-> probe.st.over, cool |-> probe.st.over]
    <3>1. probe.at = "apply" /\ snaps' = [snaps EXCEPT ![probe.acc] = new]
      BY <2>5 DEF ApplyQuota
    <3>2. probe.acc = a /\ snaps'[a] = new
      BY <2>0, <2>2, <3>1
    <3>3. probe.st \in Status /\ probe.st.over \in BOOLEAN
      BY <1>1, <3>1 DEF SnapshotsInv, LocalsOK, Status
    <3>4. new \in Snapshot /\ new.cool = probe.st.over
      BY <3>3, StatusSnapshot
    <3> HIDE DEF new
    <3>5. ~probe.st.over
      BY <2>1, <3>2, <3>3, <3>4
    <3> QED BY <3>1, <3>2, <3>5
  <2>6. CASE CheckSeeds
    BY <2>0, <2>2, <2>6 DEF CheckSeeds
  <2>7. CASE Restart
    <3>1. spent'["restarts"] # spent["restarts"]
      BY <1>1, <2>7, SpendType DEF Restart, SnapshotsInv, TypeOK, Kinds
    <3> QED BY <3>1
  <2>8. \/ UNCHANGED snaps \/ \E b \in Accounts : Deduct(b)
        \/ \E b \in Accounts : MarkFailure(b)
        \/ ApplyQuota \/ CheckSeeds \/ Restart
    BY <1>1 DEF Next, vars, Charge, Refill, FrameStep, FrameLost, CheckBegins, Switch, ProbeStep,
       Tick, ProbeAnswered, WritePanel, CheckStep, CheckAnswered, CheckStores, FlushStep,
       FlushCopies, FlushSaves
  <2> HIDE DEF Lifted
  <2> QED BY <2>2, <2>3, <2>4, <2>5, <2>6, <2>7, <2>8
<1> QED BY <1>1, TypeAlways, PTL DEF Spec, CooldownSurvives

-------------------------------------------------------------------------------
(* The rotation of the account loop.                                       *)

\* The accounts probed since some start are those whose places lie, cyclically,
\* from that start up to the cursor.
Lap(start) ==
  \/ start <= cursor /\ lap = {a \in Accounts : start <= Place(a) /\ Place(a) < cursor}
  \/ cursor <= start /\ lap = {a \in Accounts : start <= Place(a) \/ Place(a) < cursor}

LapInv == \E start \in 0..(Pool - 1) : Lap(start)

\* The account under the cursor is probed again only after the whole pool.
LEMMA CursorAhead ==
  ASSUME SnapshotsInv, LapInv, ProbedAt(cursor) \in lap
  PROVE  lap = Accounts
<1>0. active \in Accounts /\ cursor \in 0..(Pool - 1)
  BY DEF SnapshotsInv, TypeOK, Pool
<1>1. /\ ProbedAt(cursor) \in Accounts /\ Place(ProbedAt(cursor)) = cursor
      /\ \A a \in Accounts : Place(a) \in 0..(Pool - 1)
  BY <1>0, ProbedAtPlace, PlaceType
<1>2. PICK start \in 0..(Pool - 1) : Lap(start)
  BY DEF LapInv
<1>3. cursor = start /\ lap = {a \in Accounts : start <= Place(a) \/ Place(a) < cursor}
  <2>1. ~(start <= cursor /\ lap = {a \in Accounts : start <= Place(a) /\ Place(a) < cursor})
    BY <1>0, <1>1
  <2>2. cursor <= start /\ lap = {a \in Accounts : start <= Place(a) \/ Place(a) < cursor}
    BY <1>2, <2>1 DEF Lap
  <2>3. start <= cursor
    BY <1>0, <1>1, <2>2
  <2> QED BY <1>0, <2>2, <2>3
<1>4. ASSUME NEW a \in Accounts PROVE a \in lap
  BY <1>0, <1>1, <1>3
<1>5. lap \subseteq Accounts
  BY DEF SnapshotsInv, TypeOK
<1> QED BY <1>4, <1>5

\* A tick moves the cursor past the account it probes.
LEMMA TickLap ==
  ASSUME SnapshotsInv, LapInv, Tick
  PROVE  LapInv'
<1> DEFINE acc == ProbedAt(cursor)
<1>0. active \in Accounts /\ cursor \in 0..(Pool - 1) /\ Pool \in Nat \ {0} /\ lap \subseteq Accounts
  BY PoolSize DEF SnapshotsInv, TypeOK, Pool
<1>1. acc \in Accounts /\ Place(acc) = cursor
  BY <1>0, ProbedAtPlace
<1>2. ASSUME NEW a \in Accounts
      PROVE  Place(a) \in 0..(Pool - 1) /\ (Place(a) = cursor <=> a = acc)
  BY <1>0, <1>1, PlaceType, PlaceInjective
<1>3. /\ lap' = IF lap = Accounts THEN {acc} ELSE lap \cup {acc}
      /\ cursor' = IF cursor + 1 = Pool THEN 0 ELSE cursor + 1
      /\ Pool' = Pool
  BY <1>0 DEF Tick, Pool
<1>4. \A a : Place(a)' = Place(a)
  BY DEF Tick, Place
<1> HIDE DEF acc
<1> SUFFICES \E start \in 0..(Pool - 1) :
       \/ start <= cursor' /\ lap' = {a \in Accounts : start <= Place(a) /\ Place(a) < cursor'}
       \/ cursor' <= start /\ lap' = {a \in Accounts : start <= Place(a) \/ Place(a) < cursor'}
  BY <1>3, <1>4 DEF LapInv, Lap
<1>5. CASE lap = Accounts
  <2>1. CASE cursor + 1 = Pool
    <3>1. cursor' = 0 /\ cursor' <= cursor
      BY <1>0, <1>3, <2>1
    <3>2. \A a \in Accounts : (cursor <= Place(a) \/ Place(a) < cursor') <=> a = acc
      BY <1>0, <1>2, <2>1, <3>1
    <3>3. lap' = {a \in Accounts : cursor <= Place(a) \/ Place(a) < cursor'}
      BY <1>1, <1>3, <1>5, <3>2
    <3> QED BY <1>0, <3>1, <3>3
  <2>2. CASE cursor + 1 # Pool
    <3>1. cursor' = cursor + 1 /\ cursor <= cursor'
      BY <1>0, <1>3, <2>2
    <3>2. \A a \in Accounts : (cursor <= Place(a) /\ Place(a) < cursor') <=> a = acc
      BY <1>0, <1>2, <3>1
    <3>3. lap' = {a \in Accounts : cursor <= Place(a) /\ Place(a) < cursor'}
      BY <1>1, <1>3, <1>5, <3>2
    <3> QED BY <1>0, <3>1, <3>3
  <2> QED BY <2>1, <2>2
<1>6. CASE lap # Accounts
  <2>0. lap' = lap \cup {acc}
    BY <1>3, <1>6
  <2>1. PICK start \in 0..(Pool - 1) : Lap(start)
    BY DEF LapInv
  <2>2. CASE start <= cursor /\ lap = {a \in Accounts : start <= Place(a) /\ Place(a) < cursor}
    <3>1. \A a \in Accounts : a \in lap' <=> (start <= Place(a) /\ Place(a) < cursor + 1)
      BY <1>0, <1>2, <2>0, <2>2
    <3>2. CASE cursor + 1 = Pool
      <4>1. cursor' = 0 /\ cursor' <= start
        BY <1>0, <1>3, <3>2
      <4>2. \A a \in Accounts : (start <= Place(a) \/ Place(a) < cursor')
                              <=> (start <= Place(a) /\ Place(a) < cursor + 1)
        BY <1>0, <1>2, <3>2, <4>1
      <4>3. lap' = {a \in Accounts : start <= Place(a) \/ Place(a) < cursor'}
        BY <1>0, <1>1, <2>0, <3>1, <4>2
      <4> QED BY <4>1, <4>3
    <3>3. CASE cursor + 1 # Pool
      <4>1. cursor' = cursor + 1 /\ start <= cursor'
        BY <1>0, <1>3, <2>2, <3>3
      <4>2. lap' = {a \in Accounts : start <= Place(a) /\ Place(a) < cursor'}
        BY <1>0, <1>1, <2>0, <3>1, <4>1
      <4> QED BY <4>1, <4>2
    <3> QED BY <3>2, <3>3
  <2>3. CASE cursor <= start /\ lap = {a \in Accounts : start <= Place(a) \/ Place(a) < cursor}
    <3>1. cursor < start
      <4>1. ASSUME start = cursor PROVE lap = Accounts
        <5>1. \A a \in Accounts : start <= Place(a) \/ Place(a) < cursor
          BY <1>0, <1>2, <4>1
        <5> QED BY <2>3, <5>1
      <4> QED BY <1>0, <1>6, <2>3, <4>1
    <3>2. cursor' = cursor + 1 /\ cursor' <= start
      BY <1>0, <1>3, <3>1
    <3>3. \A a \in Accounts : a \in lap' <=> (start <= Place(a) \/ Place(a) < cursor')
      BY <1>0, <1>2, <2>0, <2>3, <3>2
    <3>4. lap' = {a \in Accounts : start <= Place(a) \/ Place(a) < cursor'}
      BY <1>0, <1>1, <2>0, <3>3
    <3> QED BY <3>2, <3>4
  <2> QED BY <2>1, <2>2, <2>3 DEF Lap
<1> QED BY <1>5, <1>6

\* A lap that begins at the cursor.
LEMMA EmptyLap ==
  ASSUME SnapshotsInv', lap' = {}
  PROVE  LapInv'
<1>1. cursor' \in 0..(Pool - 1) /\ Pool' = Pool
  BY DEF SnapshotsInv, TypeOK, Pool
<1>3. {a \in Accounts : cursor' <= Place(a)' /\ Place(a)' < cursor'} = {}
  <2>1. ASSUME NEW a \in Accounts PROVE Place(a)' \in Int
    <3> DEFINE before == {b \in Accounts : b < a /\ b # active'}
    <3>1. before \in SUBSET Accounts
      OBVIOUS
    <3>2. Cardinality(before) \in Nat
      BY <3>1, FS_Subset, FS_CardinalityType
    <3>3. Place(a)' = IF a = active' THEN 0 ELSE Cardinality(before) + 1
      BY DEF Place
    <3> HIDE DEF before
    <3> QED BY <3>2, <3>3
  <2>2. ASSUME NEW a \in Accounts, cursor' <= Place(a)', Place(a)' < cursor' PROVE FALSE
    BY <1>1, <2>1, <2>2
  <2> QED BY <2>2
<1>4. Lap(cursor)'
  BY <1>1, <1>3 DEF Lap
<1> QED BY <1>1, <1>4 DEF LapInv

\* A switch and a restart begin a lap, a tick continues it, and nothing else
\* moves the cursor or the order.
LEMMA LapStep ==
  ASSUME SnapshotsInv, LapInv, [Next]_vars
  PROVE  LapInv'
<1>1. CASE Tick
  BY <1>1, TickLap
<1>2. CASE Restart \/ \E a \in Accounts : Switch(a)
  BY <1>2, EmptyLap, StepType DEF Restart, Switch
<1>3. CASE UNCHANGED <<cursor, active, lap>>
  <2>1. \A a : Place(a)' = Place(a)
    BY <1>3 DEF Place
  <2> QED BY <1>3, <2>1 DEF LapInv, Lap, Pool
<1>4. \/ Tick \/ Restart \/ \E a \in Accounts : Switch(a)
      \/ UNCHANGED <<cursor, active, lap>>
  BY DEF Next, vars, loops, Charge, Refill, FrameStep, FrameLost, Deduct, MarkFailure, CheckBegins,
     ProbeStep, ProbeAnswered, ApplyQuota, WritePanel, CheckStep, CheckAnswered, CheckSeeds,
     CheckStores, FlushStep, FlushCopies, FlushSaves
<1> QED BY <1>1, <1>2, <1>3, <1>4

\* Between two switches or restarts the account loop probes no account again
\* before it has probed all of the pool, wherever the cursor stood when the order
\* changed (the account loop of main.go and its probeAccounts).
THEOREM RotationFairHolds == Spec => RotationFair
<1> DEFINE Fair == \A a \in lap : Tick /\ probe'.acc = a => lap = Accounts
<1>1. Init => LapInv
  <2> SUFFICES ASSUME Init PROVE LapInv
    OBVIOUS
  <2>1. cursor = 0 /\ lap = {} /\ active \in Accounts /\ 0 \in 0..(Pool - 1)
    BY PoolSize DEF Init
  <2>2. {a \in Accounts : 0 <= Place(a) /\ Place(a) < 0} = {}
    <3>1. \A a \in Accounts : Place(a) \in 0..(Pool - 1)
      BY <2>1, PlaceType
    <3>2. \A a \in Accounts : ~(Place(a) < 0)
      BY <3>1
    <3> QED BY <3>2
  <2>3. Lap(0)
    BY <2>1, <2>2 DEF Lap
  <2> QED BY <2>1, <2>3 DEF LapInv
<1>2. SnapshotsInv /\ LapInv /\ [Next]_vars => LapInv'
  BY LapStep
<1>3. SnapshotsInv /\ LapInv /\ [Next]_vars => [Fair]_vars
  <2> SUFFICES ASSUME SnapshotsInv, LapInv, NEW a \in lap, Tick, probe'.acc = a
               PROVE  lap = Accounts
    OBVIOUS
  <2>1. probe' = [at |-> "fetch", acc |-> ProbedAt(cursor), active |-> active, pat |-> Nil, st |-> Nil]
    BY DEF Tick, NoProbe
  <2>2. ProbedAt(cursor) = a
    BY <2>1
  <2> QED BY <2>2, CursorAhead
<1> QED BY <1>1, <1>2, <1>3, TypeAlways, PTL DEF Spec, RotationFair
===============================================================================
