--------------------------- MODULE RecordingProofs ----------------------------
(***************************************************************************)
(* Proofs about Recording, for any requests, log cap, and number of        *)
(* fetches, failing saves and crashes: the type invariant and the safety   *)
(* properties. That a shutdown completes stays with TLC.                   *)
(***************************************************************************)
EXTENDS Recording, SequenceTheorems, TLAPS

USE BoundAssumption

\* Pruning keeps a log a log, within the cap, and keeps its newest entries.
LEMMA PrunedLog ==
  ASSUME NEW s \in Seq(Entry)
  PROVE  /\ Pruned(s) \in Seq(Entry)
         /\ Len(Pruned(s)) <= MaxEntries
         /\ \E k \in Nat : /\ Len(Pruned(s)) = Len(s) - k
                           /\ \A i \in 1..Len(Pruned(s)) : Pruned(s)[i] = s[i + k]
<1>1. CASE Len(s) > MaxEntries
  <2>1. Pruned(s) = SubSeq(s, Len(s) - MaxEntries + 1, Len(s))
    BY <1>1 DEF Pruned
  <2>2. /\ Pruned(s) \in Seq(Entry)
        /\ Len(Pruned(s)) = MaxEntries
        /\ \A i \in 1..Len(Pruned(s)) : Pruned(s)[i] = s[i + (Len(s) - MaxEntries)]
    BY <1>1, <2>1
  <2>3. Len(s) - MaxEntries \in Nat
    BY <1>1
  <2> QED BY <2>2, <2>3
<1>2. CASE Len(s) <= MaxEntries
  <2>0. Len(s) \in Nat /\ ~(Len(s) > MaxEntries)
    BY <1>2, LenProperties
  <2>1. Pruned(s) = SubSeq(s, 1, Len(s))
    BY <2>0 DEF Pruned
  <2>2. /\ Pruned(s) \in Seq(Entry)
        /\ Len(Pruned(s)) = Len(s)
        /\ \A i \in 1..Len(Pruned(s)) : Pruned(s)[i] = s[i + 0]
    <3>1. Len(s) \in Nat /\ \A i \in 1..Len(s) : s[i] \in Entry
      BY LenProperties, ElementOfSeq
    <3>2. /\ Pruned(s) \in Seq(Entry)
          /\ Len(Pruned(s)) = IF 1 <= Len(s) THEN Len(s) - 1 + 1 ELSE 0
          /\ \A i \in 1..(Len(s) - 1 + 1) : Pruned(s)[i] = s[1 + i - 1]
      BY <2>1, <3>1, SubSeqProperties
    <3> QED BY <3>1, <3>2
  <2> QED BY <1>2, <2>2
<1> QED BY <1>1, <1>2

\* The ID that follows a log is a positive number above its newest entry's.
LEMMA IDAfterLog ==
  ASSUME NEW s \in Seq(Entry)
  PROVE  IDAfter(s) \in Nat \ {0} /\ (s # <<>> => s[Len(s)].id < IDAfter(s))
<1>1. CASE s = <<>>
  BY <1>1 DEF IDAfter
<1>2. CASE s # <<>>
  <2>1. Len(s) \in 1..Len(s)
    BY <1>2, EmptySeq, LenProperties
  <2>2. s[Len(s)] \in Entry
    BY <2>1, ElementOfSeq
  <2>3. s[Len(s)].id \in Nat
    BY <2>2 DEF Entry
  <2> QED BY <1>2, <2>3 DEF IDAfter
<1> QED BY <1>1, <1>2

\* A restored recorder has its type.
LEMMA RestoredStats ==
  ASSUME NEW s \in StatsData
  PROVE  /\ Restored(s) \in StatsData
         /\ Restored(s).counted = s.counted
         /\ s.account = 0 => Restored(s) = s
BY DEF Restored, StatsData

\* A new account number leaves the recorder's data well typed.
LEMMA AccountWrite ==
  ASSUME NEW s \in StatsData, NEW n \in Nat
  PROVE  [s EXCEPT !.account = n] \in StatsData
BY DEF StatsData

\* A flushed section leaves the configuration well typed.
LEMMA SectionWrites ==
  ASSUME NEW c \in Sections
  PROVE  /\ \A s \in StatsData : [c EXCEPT !.stats = s] \in Sections
         /\ \A l \in Seq(Entry) : [c EXCEPT !.logs = l] \in Sections
BY DEF Sections

-------------------------------------------------------------------------------
(* The type invariant, one lemma per group of actions.                     *)

\* A chat handler keeps the types.
LEMMA ServingType ==
  ASSUME TypeOK, NEW r \in Requests, Serving(r)
  PROVE  TypeOK'
<1> USE DEF TypeOK, Sections, stopVars, storeVars, boundVars
<1>1. CASE Arrive(r)
  BY <1>1 DEF Arrive, statsVars, logVars
<1>2. CASE Record(r)
  <2>1. stats' \in StatsData
    BY <1>2 DEF Record, StatsData
  <2> QED BY <1>2, <2>1 DEF Record, logVars
<1>3. CASE ClientGone(r)
  BY <1>3 DEF ClientGone, statsVars, logVars
<1>4. CASE LogRequest(r)
  <2>1. [id |-> nextID, request |-> r] \in Entry
    BY DEF Entry
  <2>2. Append(entries, [id |-> nextID, request |-> r]) \in Seq(Entry)
    BY <2>1
  <2>3. entries' \in Seq(Entry)
    BY <1>4, <2>2, PrunedLog DEF LogRequest
  <2> QED BY <1>4, <2>3 DEF LogRequest, statsVars
<1> QED BY <1>1, <1>2, <1>3, <1>4 DEF Serving

\* The account loop keeps the types.
LEMMA AccountLoopType ==
  ASSUME TypeOK, AccountLoop
  PROVE  TypeOK'
<1>0. SetAccount => stats' \in StatsData
  <2>1. stats \in StatsData /\ rounds \in Nat
    BY DEF TypeOK
  <2>2. [stats EXCEPT !.account = rounds] \in StatsData
    BY <2>1, AccountWrite
  <2> QED BY <2>2, Zenon DEF SetAccount
<1> USE DEF TypeOK, stopVars, storeVars, logVars
<1>1. CASE Fetch
  BY <1>1 DEF Fetch, statsVars
<1>2. CASE SetAccount
  BY <1>0, <1>2 DEF SetAccount, boundVars
<1>3. CASE FetchFails
  BY <1>3 DEF FetchFails, statsVars, boundVars
<1>4. CASE StopAccount
  BY <1>4 DEF StopAccount, statsVars, boundVars
<1> QED BY <1>1, <1>2, <1>3, <1>4 DEF AccountLoop

\* The stats loop and the other saves keep the types.
LEMMA StatsLoopType ==
  ASSUME TypeOK, StatsLoop \/ OtherSave
  PROVE  TypeOK'
<1>0. AfterFlush \in {"idle", "stopped"}
  BY DEF AfterFlush
<1>a. FlushStats \/ FlushLogs => conf' \in Sections
  <2>1. conf \in Sections /\ stats \in StatsData /\ entries \in Seq(Entry)
    BY DEF TypeOK
  <2>2. /\ [conf EXCEPT !.stats = stats] \in Sections
        /\ [conf EXCEPT !.logs = entries] \in Sections
    BY <2>1, SectionWrites
  <2> QED BY <2>1, <2>2, Zenon DEF FlushStats, FlushLogs
<1> USE DEF TypeOK, stopVars, boundVars
<1>1. CASE Wake
  BY <1>1 DEF Wake, statsVars, logVars, storeVars
<1>2. CASE FlushStats
  BY <1>a, <1>2 DEF FlushStats, logVars
<1>3. CASE SaveStats
  BY <1>3 DEF SaveStats, statsVars, logVars
<1>4. CASE SaveStatsFails
  BY <1>4 DEF SaveStatsFails, logVars, storeVars
<1>5. CASE FlushLogs
  <2>1. /\ flusher' \in {"idle", "stopped", "saveLogs"}
        /\ logsDirty' \in BOOLEAN
    BY <1>0, <1>5 DEF FlushLogs
  <2> QED BY <1>a, <1>5, <2>1 DEF FlushLogs, statsVars
<1>6. CASE SaveLogs
  BY <1>0, <1>6 DEF SaveLogs, statsVars, logVars
<1>7. CASE SaveLogsFails
  BY <1>0, <1>7 DEF SaveLogsFails, statsVars, storeVars
<1>8. CASE OtherSave
  BY <1>8 DEF OtherSave, statsVars, logVars
<1> QED BY <1>1, <1>2, <1>3, <1>4, <1>5, <1>6, <1>7, <1>8 DEF StatsLoop

\* The shutdown keeps the types.
LEMMA StoppingType ==
  ASSUME TypeOK, Signal \/ Stopping
  PROVE  TypeOK'
<1> USE DEF TypeOK, statsVars, logVars, storeVars, boundVars
<1>1. CASE Signal
  BY <1>1 DEF Signal
<1>2. CASE BeginDrain
  BY <1>2 DEF BeginDrain
<1>3. CASE Drained
  BY <1>3 DEF Drained
<1>4. CASE DrainExpires
  BY <1>4 DEF DrainExpires
<1>5. CASE JoinAccount
  BY <1>5 DEF JoinAccount
<1>6. CASE JoinStats
  BY <1>6 DEF JoinStats
<1>7. CASE AwaitDrain
  BY <1>7 DEF AwaitDrain
<1>8. CASE Exit
  BY <1>8 DEF Exit
<1> QED BY <1>1, <1>2, <1>3, <1>4, <1>5, <1>6, <1>7, <1>8 DEF Stopping

\* A crash and the restart after it keep the types.
LEMMA CrashType ==
  ASSUME TypeOK, Crash
  PROVE  TypeOK'
<1> USE DEF TypeOK, Sections
<1>1. stats' \in StatsData
  BY RestoredStats DEF Crash
<1>2. entries' \in Seq(Entry) /\ nextID' \in Nat \ {0}
  BY PrunedLog, IDAfterLog DEF Crash
<1>3. dirty' \in BOOLEAN /\ logsDirty' \in BOOLEAN
  BY DEF Crash
<1>4. crashes' \in 0..MaxCrashes
  BY DEF Crash
<1> QED BY <1>1, <1>2, <1>3, <1>4 DEF Crash

\* TypeOK: every variable keeps its type through every interleaving of handlers,
\* flushes, shutdown and crashes.
THEOREM RecordingTypeCorrect == Spec => []TypeOK
<1>1. Init => TypeOK
  <2> SUFFICES ASSUME Init PROVE TypeOK
    OBVIOUS
  <2>1. NoStats \in StatsData /\ <<>> \in Seq(Entry)
    BY DEF NoStats, StatsData
  <2>2. stats \in StatsData /\ entries \in Seq(Entry)
        /\ conf \in Sections /\ disk \in Sections
    BY <2>1 DEF Init, Sections
  <2>3. dirty \in BOOLEAN /\ logsDirty \in BOOLEAN /\ final \in BOOLEAN /\ alive \in BOOLEAN
    BY Zenon DEF Init
  <2> QED BY <2>2, <2>3 DEF Init, TypeOK
<1>2. TypeOK /\ [Next]_vars => TypeOK'
  <2> SUFFICES ASSUME TypeOK, [Next]_vars PROVE TypeOK'
    OBVIOUS
  <2>1. CASE UNCHANGED vars
    BY <2>1 DEF TypeOK, vars, statsVars, logVars, storeVars, stopVars, boundVars
  <2> QED BY <2>1, ServingType, AccountLoopType, StatsLoopType, StoppingType, CrashType
          DEF Next, Exited
<1> QED BY <1>1, <1>2, PTL DEF Spec

-------------------------------------------------------------------------------
(* What is clean is persisted, and what is persisted is kept.              *)

\* What makes CleanIsPersisted inductive: a clean recorder's data is also what
\* the store's configuration holds, so that no other save takes it back.
CleanInv ==
  /\ CleanIsPersisted
  /\ ~dirty => stats = conf.stats
  /\ ~logsDirty => entries = conf.logs

\* CleanInv is kept by every step.
LEMMA CleanStep ==
  ASSUME TypeOK, CleanInv, [Next]_vars
  PROVE  CleanInv'
<1> USE DEF CleanInv, CleanIsPersisted, statsVars, logVars, storeVars
<1>1. CASE UNCHANGED vars
  BY <1>1 DEF vars
<1>2. ASSUME NEW r \in Requests, Serving(r) PROVE CleanInv'
  BY <1>2 DEF Serving, Arrive, Record, ClientGone, LogRequest
<1>3. CASE AccountLoop
  BY <1>3 DEF AccountLoop, Fetch, SetAccount, FetchFails, StopAccount
<1>4. CASE StatsLoop
  <2>1. AfterFlush \notin {"saveStats", "saveLogs"}
    BY DEF AfterFlush
  <2>2. CASE Wake \/ FlushStats
    BY <2>2 DEF Wake, FlushStats, TypeOK, Sections
  <2>3. CASE SaveStats
    BY <2>3 DEF SaveStats
  <2>4. CASE SaveStatsFails
    BY <2>4 DEF SaveStatsFails
  <2>5. CASE FlushLogs
    BY <2>1, <2>5 DEF FlushLogs, TypeOK, Sections
  <2>6. CASE SaveLogs
    BY <2>1, <2>6 DEF SaveLogs
  <2>7. CASE SaveLogsFails
    BY <2>1, <2>7 DEF SaveLogsFails
  <2> QED BY <1>4, <2>2, <2>3, <2>4, <2>5, <2>6, <2>7 DEF StatsLoop
<1>5. CASE Signal \/ Stopping
  BY <1>5 DEF Signal, Stopping, BeginDrain, Drained, DrainExpires, JoinAccount,
              JoinStats, AwaitDrain, Exit
<1>6. CASE Crash
  <2>1. disk.stats \in StatsData /\ disk.logs \in Seq(Entry)
    BY DEF TypeOK, Sections
  <2>2. ~dirty' => stats' = disk'.stats
    BY <1>6, <2>1, RestoredStats DEF Crash
  <2>3. ~logsDirty' => entries' = disk'.logs
    <3>1. Pruned(<<>>) = <<>>
      <4>1. <<>> \in Seq(Entry) /\ Len(<<>>) = 0
        OBVIOUS
      <4>2. PICK k \in Nat : Len(Pruned(<<>>)) = 0 - k
        BY <4>1, PrunedLog
      <4>3. Pruned(<<>>) \in Seq(Entry)
        BY <4>1, PrunedLog
      <4> QED BY <4>2, <4>3, EmptySeq, LenProperties
    <3> QED BY <1>6, <3>1 DEF Crash
  <2> QED BY <1>6, <2>2, <2>3 DEF Crash
<1>7. CASE OtherSave \/ Exited
  BY <1>7 DEF OtherSave, Exited, vars
<1> QED BY <1>1, <1>2, <1>3, <1>4, <1>5, <1>6, <1>7 DEF Next

\* CleanInv holds in every state.
LEMMA CleanInvariant == Spec => []CleanInv
<1>1. Init => CleanInv
  BY DEF Init, CleanInv, CleanIsPersisted
<1> QED BY <1>1, CleanStep, RecordingTypeCorrect, PTL DEF Spec

\* CleanIsPersisted: for every interleaving of records, flushes, failing saves
\* and crashes a clean recorder's data is in the file.
THEOREM CleanIsPersistedHolds == Spec => []CleanIsPersisted
<1>1. CleanInv => CleanIsPersisted
  BY DEF CleanInv
<1> QED BY <1>1, CleanInvariant, PTL

\* No version of the counters is behind an older one: the file's are among the
\* configuration's, and these among the recorder's.
NothingBehind ==
  /\ disk.stats.counted \subseteq conf.stats.counted
  /\ conf.stats.counted \subseteq stats.counted

\* NothingBehind is kept by every step.
LEMMA BehindStep ==
  ASSUME TypeOK, NothingBehind, [Next]_vars
  PROVE  NothingBehind'
<1> USE DEF NothingBehind, statsVars, storeVars
<1>1. CASE UNCHANGED vars
  BY <1>1 DEF vars
<1>2. ASSUME NEW r \in Requests, Serving(r) PROVE NothingBehind'
  <2>1. CASE Record(r)
    <3>1. stats'.counted = stats.counted \cup {r}
      BY <2>1 DEF Record, TypeOK, StatsData
    <3> QED BY <2>1, <3>1 DEF Record
  <2>2. CASE Arrive(r) \/ ClientGone(r) \/ LogRequest(r)
    BY <2>2 DEF Arrive, ClientGone, LogRequest
  <2> QED BY <1>2, <2>1, <2>2 DEF Serving
<1>3. CASE AccountLoop
  <2>1. CASE SetAccount
    <3>1. stats'.counted = stats.counted
      BY <2>1 DEF SetAccount, TypeOK, StatsData
    <3> QED BY <2>1, <3>1 DEF SetAccount
  <2>2. CASE Fetch \/ FetchFails \/ StopAccount
    BY <2>2 DEF Fetch, FetchFails, StopAccount
  <2> QED BY <1>3, <2>1, <2>2 DEF AccountLoop
<1>4. CASE StatsLoop
  <2>1. CASE FlushStats \/ FlushLogs
    <3>1. conf'.stats \in {conf.stats, stats}
      BY <2>1 DEF FlushStats, FlushLogs, TypeOK, Sections
    <3>2. UNCHANGED <<stats, disk>>
      BY <2>1 DEF FlushStats, FlushLogs
    <3> QED BY <3>1, <3>2
  <2>2. CASE Wake \/ SaveStats \/ SaveStatsFails \/ SaveLogs \/ SaveLogsFails
    BY <2>2 DEF Wake, SaveStats, SaveStatsFails, SaveLogs, SaveLogsFails
  <2> QED BY <1>4, <2>1, <2>2 DEF StatsLoop
<1>5. CASE Signal \/ Stopping
  BY <1>5 DEF Signal, Stopping, BeginDrain, Drained, DrainExpires, JoinAccount,
              JoinStats, AwaitDrain, Exit
<1>6. CASE Crash
  <2>1. stats'.counted = disk.stats.counted
    BY <1>6, RestoredStats DEF Crash, TypeOK, Sections
  <2> QED BY <1>6, <2>1 DEF Crash
<1>7. CASE OtherSave \/ Exited
  BY <1>7 DEF OtherSave, Exited, vars
<1> QED BY <1>1, <1>2, <1>3, <1>4, <1>5, <1>6, <1>7 DEF Next

\* PersistedIsKept: no step takes a request out of the file's counters.
THEOREM PersistedIsKeptHolds == Spec => PersistedIsKept
<1>1. Init => NothingBehind
  BY DEF Init, NothingBehind, NoStats
<1>2. ASSUME TypeOK, NothingBehind, [Next]_vars
      PROVE  [disk.stats.counted \subseteq disk'.stats.counted]_vars
  <2> USE DEF storeVars
  <2>1. CASE disk' = disk
    BY <2>1
  <2>2. CASE disk' = conf
    BY <1>2, <2>2 DEF NothingBehind
  <2>3. ASSUME NEW r \in Requests, Serving(r) PROVE disk' = disk
    BY <2>3 DEF Serving, Arrive, Record, ClientGone, LogRequest
  <2>4. AccountLoop => disk' = disk
    BY DEF AccountLoop, Fetch, SetAccount, FetchFails, StopAccount
  <2>5. StatsLoop \/ OtherSave => disk' = disk \/ disk' = conf
    BY DEF StatsLoop, Wake, FlushStats, SaveStats, SaveStatsFails, FlushLogs, SaveLogs,
           SaveLogsFails, OtherSave
  <2>6. Signal \/ Stopping => disk' = disk
    BY DEF Signal, Stopping, BeginDrain, Drained, DrainExpires, JoinAccount,
           JoinStats, AwaitDrain, Exit
  <2>7. Crash \/ Exited \/ UNCHANGED vars => disk' = disk
    BY DEF Crash, Exited, vars
  <2> QED BY <1>2, <2>1, <2>2, <2>3, <2>4, <2>5, <2>6, <2>7 DEF Next
<1> QED BY <1>1, <1>2, BehindStep, RecordingTypeCorrect, PTL DEF Spec, PersistedIsKept

-------------------------------------------------------------------------------
(* The orderly exit.                                                       *)

\* What the order of stopBackgroundLoops buys: the stats loop is only stopped
\* after the account loop, so from its final flush on the account's metadata is
\* fixed, and each save without a failure brings the file closer to it.
AccountJoinedFirst ==
  /\ StatsStopClosed => account = "stopped"
  /\ final => StatsStopClosed
  /\ flusher = "stopped" => final
  /\ ~alive => flusher = "stopped"
  /\ final /\ flusher \in {"saveStats", "flushLogs", "saveLogs", "stopped"}
       => conf.stats.account = stats.account
  /\ failures = 0 /\ final /\ flusher \in {"flushLogs", "saveLogs", "stopped"}
       => disk.stats.account = stats.account

\* AccountJoinedFirst is kept by every step.
LEMMA JoinedStep ==
  ASSUME TypeOK, CleanInv, AccountJoinedFirst, [Next]_vars
  PROVE  AccountJoinedFirst'
<1> USE DEF AccountJoinedFirst, StatsStopClosed, statsVars, storeVars, stopVars, boundVars
<1>1. CASE UNCHANGED vars
  BY <1>1 DEF vars
<1>2. ASSUME NEW r \in Requests, Serving(r) PROVE AccountJoinedFirst'
  <2>1. CASE Record(r)
    <3>1. stats'.account = stats.account
      BY <2>1 DEF Record, TypeOK, StatsData
    <3> QED BY <2>1, <3>1 DEF Record
  <2>2. CASE Arrive(r) \/ ClientGone(r) \/ LogRequest(r)
    BY <2>2 DEF Arrive, ClientGone, LogRequest
  <2> QED BY <1>2, <2>1, <2>2 DEF Serving
<1>3. CASE AccountLoop
  BY <1>3 DEF AccountLoop, Fetch, SetAccount, FetchFails, StopAccount
<1>4. CASE StatsLoop
  <2>1. CASE Wake
    BY <2>1 DEF Wake
  <2>2. CASE FlushStats
    <3>1. conf'.stats = stats
      BY <2>2 DEF FlushStats, CleanInv, TypeOK, Sections
    <3>2. ~dirty => disk.stats = stats
      BY <2>2 DEF FlushStats, CleanInv, CleanIsPersisted
    <3> QED BY <2>2, <3>1, <3>2 DEF FlushStats
  <2>3. CASE SaveStats
    BY <2>3 DEF SaveStats
  <2>4. CASE SaveStatsFails \/ SaveLogsFails
    <3>1. failures' # 0
      BY <2>4 DEF SaveStatsFails, SaveLogsFails, TypeOK
    <3>2. /\ UNCHANGED <<stats, conf, stopper, account, alive, final>>
          /\ flusher \in {"saveStats", "saveLogs"}
          /\ flusher' = "stopped" => final
      BY <2>4 DEF SaveStatsFails, SaveLogsFails, AfterFlush
    <3> QED BY <3>1, <3>2
  <2>5. CASE FlushLogs
    <3>1. conf'.stats = conf.stats
      BY <2>5 DEF FlushLogs, TypeOK, Sections
    <3> QED BY <2>5, <3>1 DEF FlushLogs, AfterFlush
  <2>6. CASE SaveLogs
    BY <2>6 DEF SaveLogs, AfterFlush
  <2> QED BY <1>4, <2>1, <2>2, <2>3, <2>4, <2>5, <2>6 DEF StatsLoop
<1>5. CASE Signal \/ Stopping
  BY <1>5 DEF Signal, Stopping, BeginDrain, Drained, DrainExpires, JoinAccount,
              JoinStats, AwaitDrain, Exit
<1>6. CASE Crash
  BY <1>6 DEF Crash
<1>7. CASE OtherSave
  BY <1>7 DEF OtherSave
<1>8. CASE Exited
  BY <1>8 DEF Exited, vars
<1> QED BY <1>1, <1>2, <1>3, <1>4, <1>5, <1>6, <1>7, <1>8 DEF Next

\* AccountWriteSurvives: an orderly exit without a failed save leaves the account
\* loop's last write in the file.
THEOREM AccountWriteSurvivesHolds == Spec => []AccountWriteSurvives
<1>1. Init => AccountJoinedFirst
  BY DEF Init, AccountJoinedFirst, StatsStopClosed
<1>2. AccountJoinedFirst => AccountWriteSurvives
  BY DEF AccountJoinedFirst, AccountWriteSurvives
<1> QED BY <1>1, <1>2, JoinedStep, RecordingTypeCorrect, CleanInvariant, PTL
        DEF Spec

-------------------------------------------------------------------------------
(* The order of the log.                                                   *)

\* A log in order: IDs strictly increase and the cap is kept.
Ordered(s) == Increasing(s) /\ Len(s) <= MaxEntries

\* The invariant behind LogOrdered: the configuration's log is in order too.
LogsInOrder ==
  /\ Ordered(entries) /\ Ordered(disk.logs) /\ Ordered(conf.logs)
  /\ \A i \in 1..Len(entries) : entries[i].id < nextID

\* Pruning an increasing log whose IDs are below a bound leaves it in order, with
\* its IDs below that bound.
LEMMA PrunedOrdered ==
  ASSUME NEW s \in Seq(Entry), Increasing(s),
         NEW b \in Nat, \A i \in 1..Len(s) : s[i].id < b
  PROVE  Ordered(Pruned(s)) /\ \A i \in 1..Len(Pruned(s)) : Pruned(s)[i].id < b
<1>1. PICK k \in Nat : /\ Len(Pruned(s)) = Len(s) - k
                       /\ \A i \in 1..Len(Pruned(s)) : Pruned(s)[i] = s[i + k]
  BY PrunedLog
<1>2. Len(s) \in Nat /\ Len(Pruned(s)) \in Nat
  BY PrunedLog, LenProperties
<1>3. \A i \in 1..Len(Pruned(s)) : i + k \in 1..Len(s)
  BY <1>1, <1>2
<1>4. \A i \in 1..Len(Pruned(s)) : Pruned(s)[i].id < b
  BY <1>1, <1>3
<1>5. ASSUME NEW i \in 1..Len(Pruned(s)), NEW j \in 1..Len(Pruned(s)), i < j
      PROVE  Pruned(s)[i].id < Pruned(s)[j].id
  <2>1. i + k \in 1..Len(s) /\ j + k \in 1..Len(s) /\ i + k < j + k
    BY <1>2, <1>3, <1>5
  <2>2. s[i + k].id < s[j + k].id
    BY <2>1 DEF Increasing
  <2> QED BY <1>1, <2>2
<1> QED BY <1>4, <1>5, PrunedLog DEF Ordered, Increasing

\* One more entry, whose ID is above all others, leaves a log increasing.
LEMMA AppendIncreasing ==
  ASSUME NEW s \in Seq(Entry), Increasing(s), NEW e \in Entry,
         \A i \in 1..Len(s) : s[i].id < e.id
  PROVE  /\ Increasing(Append(s, e))
         /\ \A i \in 1..Len(Append(s, e)) : Append(s, e)[i].id < e.id + 1
<1>1. /\ Len(s) \in Nat
      /\ Len(Append(s, e)) = Len(s) + 1
      /\ \A i \in 1..Len(s) : Append(s, e)[i] = s[i]
      /\ Append(s, e)[Len(s) + 1] = e
  BY AppendProperties, LenProperties
<1>2. \A i \in 1..Len(s) : s[i].id \in Nat
  <2>1. \A i \in 1..Len(s) : s[i] \in Entry
    BY ElementOfSeq
  <2> QED BY <2>1 DEF Entry
<1>3. e.id \in Nat
  BY DEF Entry
<1>4. ASSUME NEW i \in 1..(Len(s) + 1), NEW j \in 1..(Len(s) + 1), i < j
      PROVE  Append(s, e)[i].id < Append(s, e)[j].id
  <2>1. i \in 1..Len(s)
    BY <1>1, <1>4
  <2>2. CASE j \in 1..Len(s)
    BY <1>1, <1>4, <2>1, <2>2 DEF Increasing
  <2>3. CASE j = Len(s) + 1
    BY <1>1, <2>1, <2>3
  <2> QED BY <1>1, <2>2, <2>3
<1>5. ASSUME NEW i \in 1..(Len(s) + 1) PROVE Append(s, e)[i].id < e.id + 1
  <2>1. CASE i \in 1..Len(s)
    <3>1. Append(s, e)[i] = s[i] /\ s[i].id < e.id /\ s[i].id \in Nat
      BY <1>1, <1>2, <2>1
    <3> QED BY <1>3, <3>1
  <2>2. CASE i = Len(s) + 1
    BY <1>1, <1>3, <2>2
  <2> QED BY <1>1, <2>1, <2>2
<1> QED BY <1>1, <1>4, <1>5 DEF Increasing

\* Every ID of an increasing log is below the one that follows it.
LEMMA IDAfterAll ==
  ASSUME NEW s \in Seq(Entry), Increasing(s)
  PROVE  \A i \in 1..Len(s) : s[i].id < IDAfter(s)
<1> SUFFICES ASSUME NEW i \in 1..Len(s) PROVE s[i].id < IDAfter(s)
  OBVIOUS
<1>1. Len(s) \in Nat /\ Len(s) \in 1..Len(s) /\ s # <<>>
  BY LenProperties, EmptySeq
<1>2. s[i] \in Entry /\ s[Len(s)] \in Entry
  BY <1>1, ElementOfSeq
<1>3. s[i].id \in Nat /\ s[Len(s)].id \in Nat
  BY <1>2 DEF Entry
<1>4. s[Len(s)].id < IDAfter(s) /\ IDAfter(s) \in Nat
  BY <1>1, IDAfterLog
<1>5. CASE i = Len(s)
  BY <1>4, <1>5
<1>6. CASE i < Len(s)
  <2>1. s[i].id < s[Len(s)].id
    BY <1>1, <1>6 DEF Increasing
  <2> QED BY <1>3, <1>4, <2>1
<1> QED BY <1>1, <1>5, <1>6

\* LogsInOrder is kept by every step.
LEMMA OrderStep ==
  ASSUME TypeOK, LogsInOrder, [Next]_vars
  PROVE  LogsInOrder'
<1> USE DEF LogsInOrder
<1>1. CASE UNCHANGED <<entries, disk, conf, nextID>>
  BY <1>1
<1>2. ASSUME NEW r \in Requests, LogRequest(r) PROVE LogsInOrder'
  <2> DEFINE e == [id |-> nextID, request |-> r]
             longer == Append(entries, e)
  <2>1. e \in Entry /\ e.id = nextID /\ nextID \in Nat /\ entries \in Seq(Entry)
    BY DEF Entry, TypeOK
  <2>2. longer \in Seq(Entry)
    BY <2>1
  <2>3. Increasing(longer) /\ \A i \in 1..Len(longer) : longer[i].id < nextID + 1
    BY <2>1, AppendIncreasing DEF Ordered
  <2>4. Ordered(Pruned(longer))
        /\ \A i \in 1..Len(Pruned(longer)) : Pruned(longer)[i].id < nextID + 1
    <3>1. nextID + 1 \in Nat
      BY <2>1
    <3> HIDE DEF longer
    <3> QED BY <2>2, <2>3, <3>1, PrunedOrdered
  <2>5. entries' = Pruned(longer) /\ nextID' = nextID + 1
        /\ UNCHANGED <<disk, conf>>
    BY <1>2 DEF LogRequest, storeVars
  <2> QED BY <2>4, <2>5
<1>3. CASE SaveStats \/ SaveLogs \/ OtherSave
  BY <1>3 DEF SaveStats, SaveLogs, OtherSave, logVars
<1>4. CASE FlushStats
  <2>1. conf'.logs = conf.logs
    BY <1>4 DEF FlushStats, TypeOK, Sections
  <2> QED BY <1>4, <2>1 DEF FlushStats, logVars
<1>5. CASE FlushLogs
  <2>1. conf'.logs \in {conf.logs, entries}
    BY <1>5 DEF FlushLogs, TypeOK, Sections
  <2> QED BY <1>5, <2>1 DEF FlushLogs
<1>6. CASE SaveLogsFails
  BY <1>6 DEF SaveLogsFails, storeVars
<1>7. CASE Crash
  <2>1. disk.logs \in Seq(Entry) /\ Increasing(disk.logs)
    BY DEF TypeOK, Sections, Ordered
  <2>2. IDAfter(disk.logs) \in Nat
        /\ \A i \in 1..Len(disk.logs) : disk.logs[i].id < IDAfter(disk.logs)
    BY <2>1, IDAfterLog, IDAfterAll
  <2>3. Ordered(Pruned(disk.logs))
        /\ \A i \in 1..Len(Pruned(disk.logs)) : Pruned(disk.logs)[i].id < IDAfter(disk.logs)
    BY <2>1, <2>2, PrunedOrdered
  <2> QED BY <1>7, <2>3 DEF Crash
<1>8. ASSUME NEW r \in Requests, Arrive(r) \/ Record(r) \/ ClientGone(r)
      PROVE  UNCHANGED <<entries, disk, conf, nextID>>
  BY <1>8 DEF Arrive, Record, ClientGone, logVars, storeVars
<1>9. AccountLoop \/ Wake \/ SaveStatsFails
        => UNCHANGED <<entries, disk, conf, nextID>>
  BY DEF AccountLoop, Fetch, SetAccount, FetchFails, StopAccount, Wake,
         SaveStatsFails, logVars, storeVars
<1>10. Signal \/ Stopping \/ Exited \/ UNCHANGED vars
         => UNCHANGED <<entries, disk, conf, nextID>>
  BY DEF Signal, Stopping, BeginDrain, Drained, DrainExpires, JoinAccount, JoinStats,
         AwaitDrain, Exit, Exited, vars, logVars, storeVars
<1> QED BY <1>1, <1>2, <1>3, <1>4, <1>5, <1>6, <1>7, <1>8, <1>9, <1>10
        DEF Next, Serving, StatsLoop

\* LogOrdered: IDs strictly increase in memory and in the file, across restarts
\* that lost flushes, and neither log outgrows the cap.
THEOREM LogOrderedHolds == Spec => []LogOrdered
<1>1. Init => LogsInOrder
  BY DEF Init, LogsInOrder, Ordered, Increasing
<1>2. LogsInOrder => LogOrdered
  BY DEF LogsInOrder, LogOrdered, Ordered
<1> QED BY <1>1, <1>2, OrderStep, RecordingTypeCorrect, PTL DEF Spec
===============================================================================
