------------------------------ MODULE Recording -------------------------------
(***************************************************************************)
(* How the bridge's counters and request log reach data.json, and what a   *)
(* shutdown keeps of them. Chat handlers record into stats.Recorder and    *)
(* logs.Recorder (memory), the account loop writes the account's metadata, *)
(* the stats loop of main.go flushes both recorders every 30 s, and on a   *)
(* signal main.go stops the loops, flushes for the last time and drains    *)
(* the requests still being served. The process can also simply die.       *)
(*                                                                         *)
(* A recorder's data goes to the store's configuration first, and a save   *)
(* writes the whole configuration: one that failed is made up for by any   *)
(* other save of the store. A save is one step, since a crash inside it    *)
(* leaves the old file or the new one. A counter is the set of requests it *)
(* counts.                                                                 *)
(***************************************************************************)
EXTENDS Integers, Sequences

CONSTANTS
  Requests,     \* chat requests that may arrive
  MaxEntries,   \* log entries retained
  MaxRounds,    \* bound on the account loop's successful fetches
  MaxFailures,  \* bound on failing saves
  MaxCrashes    \* bound on crashes

ASSUME BoundAssumption ==
  /\ MaxEntries \in Nat \ {0}
  /\ MaxRounds \in Nat /\ MaxFailures \in Nat /\ MaxCrashes \in Nat

VARIABLES
  at,          \* at[r]: where the handler of request r stands
  stats,       \* the stats recorder's data
  dirty,       \* its dirty flag
  entries,     \* the log recorder's entries
  nextID,      \* the ID of its next entry
  logsDirty,
  conf,        \* the stats and logs sections of the store's configuration
  disk,        \* those sections of data.json
  flusher,     \* the stats loop
  final,       \* its flush is the final one
  account,     \* the account loop
  stopper,     \* the signal handler's goroutine (shutdown, stopBackgroundLoops)
  drain,       \* srv.Shutdown's goroutine
  alive,       \* main has not returned
  rounds, failures, crashes

statsVars == <<stats, dirty>>
logVars == <<entries, nextID, logsDirty>>
storeVars == <<conf, disk>>
stopVars == <<stopper, drain, alive>>
boundVars == <<rounds, failures, crashes>>
vars == <<at, statsVars, logVars, storeVars, flusher, final, account, stopVars, boundVars>>

NoStats == [counted |-> {}, account |-> 0]

Init ==
  /\ at = [r \in Requests |-> "away"]
  /\ stats = NoStats /\ dirty = FALSE
  /\ entries = <<>> /\ nextID = 1 /\ logsDirty = FALSE
  /\ conf = [stats |-> NoStats, logs |-> <<>>] /\ disk = conf
  /\ flusher = "idle" /\ final = FALSE
  /\ account = "idle"
  /\ stopper = "none" /\ drain = "none" /\ alive = TRUE
  /\ rounds = 0 /\ failures = 0 /\ crashes = 0

-------------------------------------------------------------------------------
(* The chat handlers.                                                      *)

\* The listener is open until srv.Shutdown closes it.
Arrive(r) ==
  /\ alive
  /\ at[r] = "away"
  /\ drain = "none"
  /\ at' = [at EXCEPT ![r] = "serving"]
  /\ UNCHANGED <<statsVars, logVars, storeVars, flusher, final, account, stopVars, boundVars>>

\* The request is counted: its usage during the stream, its outcome after the
\* response has been written. Both mark the recorder dirty; one step stands for both.
Record(r) ==
  /\ alive
  /\ at[r] = "serving"
  /\ stats' = [stats EXCEPT !.counted = @ \cup {r}]
  /\ dirty' = TRUE
  /\ at' = [at EXCEPT ![r] = "answered"]
  /\ UNCHANGED <<logVars, storeVars, flusher, final, account, stopVars, boundVars>>

\* A client that went away is not counted.
ClientGone(r) ==
  /\ alive
  /\ at[r] = "serving"
  /\ at' = [at EXCEPT ![r] = "answered"]
  /\ UNCHANGED <<statsVars, logVars, storeVars, flusher, final, account, stopVars, boundVars>>

\* pruneLocked's cap: the newest entries stay.
Pruned(s) ==
  SubSeq(s, IF Len(s) > MaxEntries THEN Len(s) - MaxEntries + 1 ELSE 1, Len(s))

\* The deferred log record, the handler's last step.
LogRequest(r) ==
  /\ alive
  /\ at[r] = "answered"
  /\ entries' = Pruned(Append(entries, [id |-> nextID, request |-> r]))
  /\ nextID' = nextID + 1
  /\ logsDirty' = TRUE
  /\ at' = [at EXCEPT ![r] = "done"]
  /\ UNCHANGED <<statsVars, storeVars, flusher, final, account, stopVars, boundVars>>

-------------------------------------------------------------------------------
(* The account loop: a fetch outside every lock, then the recorder write.  *)

\* close(accountStop), close(statsStop): what the stopper has closed by now.
AccountStopClosed == stopper # "none"
StatsStopClosed == stopper \in {"joinStats", "awaitDrain", "finished"}

Fetch ==
  /\ alive
  /\ account = "idle"
  /\ rounds < MaxRounds
  /\ rounds' = rounds + 1
  /\ account' = "fetching"
  /\ UNCHANGED <<at, statsVars, logVars, storeVars, flusher, final, stopVars, failures, crashes>>

SetAccount ==
  /\ alive
  /\ account = "fetching"
  /\ stats' = [stats EXCEPT !.account = rounds]
  /\ dirty' = TRUE
  /\ account' = "idle"
  /\ UNCHANGED <<at, logVars, storeVars, flusher, final, stopVars, boundVars>>

FetchFails ==
  /\ alive
  /\ account = "fetching"
  /\ account' = "idle"
  /\ UNCHANGED <<at, statsVars, logVars, storeVars, flusher, final, stopVars, boundVars>>

StopAccount ==
  /\ alive
  /\ account = "idle"
  /\ AccountStopClosed
  /\ account' = "stopped"
  /\ UNCHANGED <<at, statsVars, logVars, storeVars, flusher, final, stopVars, boundVars>>

-------------------------------------------------------------------------------
(* The stats loop: a tick or the stop, then both recorders' Flush.         *)

Wake ==
  /\ alive
  /\ flusher = "idle"
  /\ final' \in (IF StatsStopClosed THEN BOOLEAN ELSE {FALSE})
  /\ flusher' = "flushStats"
  /\ UNCHANGED <<at, statsVars, logVars, storeVars, account, stopVars, boundVars>>

\* Under the recorder's lock: copy, and reset the dirty flag. SaveStats of the
\* store then puts the copy in the configuration.
FlushStats ==
  /\ alive
  /\ flusher = "flushStats"
  /\ IF dirty THEN /\ conf' = [conf EXCEPT !.stats = stats]
                   /\ dirty' = FALSE
                   /\ flusher' = "saveStats"
              ELSE /\ flusher' = "flushLogs"
                   /\ UNCHANGED <<conf, dirty>>
  /\ UNCHANGED <<at, stats, logVars, disk, final, account, stopVars, boundVars>>

\* Mutant: the dirty flag is reset once the save is over.
SaveStatsClears ==
  /\ alive
  /\ flusher = "saveStats"
  /\ disk' = conf
  /\ dirty' = FALSE
  /\ flusher' = "flushLogs"
  /\ UNCHANGED <<at, stats, logVars, conf, final, account, stopVars, boundVars>>

SaveStats ==
  /\ alive
  /\ flusher = "saveStats"
  /\ disk' = conf
  /\ flusher' = "flushLogs"
  /\ UNCHANGED <<at, statsVars, logVars, conf, final, account, stopVars, boundVars>>

SaveStatsFails ==
  /\ alive
  /\ flusher = "saveStats"
  /\ failures < MaxFailures
  /\ failures' = failures + 1
  /\ dirty' = TRUE
  /\ flusher' = "flushLogs"
  /\ UNCHANGED <<at, stats, logVars, storeVars, final, account, stopVars,
                 rounds, crashes>>

\* The loop goes back to its select, or returns after the final flush.
AfterFlush == IF final THEN "stopped" ELSE "idle"

FlushLogs ==
  /\ alive
  /\ flusher = "flushLogs"
  /\ IF logsDirty THEN /\ conf' = [conf EXCEPT !.logs = entries]
                       /\ logsDirty' = FALSE
                       /\ flusher' = "saveLogs"
                  ELSE /\ flusher' = AfterFlush
                       /\ UNCHANGED <<conf, logsDirty>>
  /\ UNCHANGED <<at, statsVars, entries, nextID, disk, final, account, stopVars, boundVars>>

SaveLogs ==
  /\ alive
  /\ flusher = "saveLogs"
  /\ disk' = conf
  /\ flusher' = AfterFlush
  /\ UNCHANGED <<at, statsVars, logVars, conf, final, account, stopVars, boundVars>>

SaveLogsFails ==
  /\ alive
  /\ flusher = "saveLogs"
  /\ failures < MaxFailures
  /\ failures' = failures + 1
  /\ logsDirty' = TRUE
  /\ flusher' = AfterFlush
  /\ UNCHANGED <<at, statsVars, entries, nextID, storeVars, final, account,
                 stopVars, rounds, crashes>>

\* Another save of the store: a snapshot flush, an admin handler.
OtherSave ==
  /\ alive
  /\ disk' = conf
  /\ UNCHANGED <<at, statsVars, logVars, conf, flusher, final, account, stopVars, boundVars>>

-------------------------------------------------------------------------------
(* shutdown and stopBackgroundLoops.                                       *)

\* The signal: the account loop is told to stop, the drain is started.
Signal ==
  /\ alive
  /\ stopper = "none"
  /\ stopper' = "joinAccount"
  /\ UNCHANGED <<at, statsVars, logVars, storeVars, flusher, final, account, drain, alive, boundVars>>

BeginDrain ==
  /\ alive
  /\ stopper # "none"
  /\ drain = "none"
  /\ drain' = "waiting"
  /\ UNCHANGED <<at, statsVars, logVars, storeVars, flusher, final, account, stopper, alive, boundVars>>

Drained ==
  /\ alive
  /\ drain = "waiting"
  /\ \A r \in Requests : at[r] \in {"away", "done"}
  /\ drain' = "done"
  /\ UNCHANGED <<at, statsVars, logVars, storeVars, flusher, final, account, stopper, alive, boundVars>>

\* Mutant: the drain has no deadline.
DrainWaits == FALSE

\* Fifteen seconds are over and a request is still being served.
DrainExpires ==
  /\ alive
  /\ drain = "waiting"
  /\ \E r \in Requests : at[r] \notin {"away", "done"}
  /\ drain' = "expired"
  /\ UNCHANGED <<at, statsVars, logVars, storeVars, flusher, final, account, stopper, alive, boundVars>>

\* Mutant: the stats loop is stopped without waiting for the account loop.
JoinAccountUnawaited ==
  /\ alive
  /\ stopper = "joinAccount"
  /\ stopper' = "joinStats"
  /\ UNCHANGED <<at, statsVars, logVars, storeVars, flusher, final, account, drain, alive, boundVars>>

JoinAccount ==
  /\ alive
  /\ stopper = "joinAccount"
  /\ account = "stopped"
  /\ stopper' = "joinStats"
  /\ UNCHANGED <<at, statsVars, logVars, storeVars, flusher, final, account, drain, alive, boundVars>>

JoinStats ==
  /\ alive
  /\ stopper = "joinStats"
  /\ flusher = "stopped"
  /\ stopper' = "awaitDrain"
  /\ UNCHANGED <<at, statsVars, logVars, storeVars, flusher, final, account, drain, alive, boundVars>>

AwaitDrain ==
  /\ alive
  /\ stopper = "awaitDrain"
  /\ drain \in {"done", "expired"}
  /\ stopper' = "finished"
  /\ UNCHANGED <<at, statsVars, logVars, storeVars, flusher, final, account, drain, alive, boundVars>>

\* main has received the drain's outcome and the end of the stats loop.
Exit ==
  /\ alive
  /\ stopper = "finished"
  /\ flusher = "stopped"
  /\ alive' = FALSE
  /\ UNCHANGED <<at, statsVars, logVars, storeVars, flusher, final, account, stopper, drain, boundVars>>

\* Mutant: the log IDs start over.
IDAfterRestart(s) == 1

\* Mutant: the IDs of an empty log start at zero.
IDAfterZero(s) == IF s = <<>> THEN 0 ELSE s[Len(s)].id + 1

\* NewRecorder: one more than the newest restored ID.
IDAfter(s) == IF s = <<>> THEN 1 ELSE s[Len(s)].id + 1

\* Mutant: the persisted counters are not restored.
RestoredEmpty(s) == NoStats

\* NewRecorder restores the counters; main drops the account's metadata.
Restored(s) == [s EXCEPT !.account = 0]

\* The process dies, or a second signal kills it, and it is started again.
Crash ==
  /\ alive
  /\ crashes < MaxCrashes
  /\ crashes' = crashes + 1
  /\ at' = [r \in Requests |-> IF at[r] = "away" THEN "away" ELSE "done"]
  /\ stats' = Restored(disk.stats)
  /\ dirty' = (disk.stats.account # 0)
  /\ entries' = Pruned(disk.logs)
  /\ nextID' = IDAfter(disk.logs)
  /\ logsDirty' = (disk.logs # <<>>)
  /\ conf' = disk
  /\ flusher' = "idle" /\ final' = FALSE
  /\ account' = "idle"
  /\ stopper' = "none" /\ drain' = "none"
  /\ UNCHANGED <<disk, alive, rounds, failures>>

-------------------------------------------------------------------------------
Serving(r) == Arrive(r) \/ Record(r) \/ ClientGone(r) \/ LogRequest(r)
AccountLoop == Fetch \/ SetAccount \/ FetchFails \/ StopAccount
StatsLoop == Wake \/ FlushStats \/ SaveStats \/ SaveStatsFails \/ FlushLogs
               \/ SaveLogs \/ SaveLogsFails
Stopping == BeginDrain \/ Drained \/ DrainExpires \/ JoinAccount \/ JoinStats
              \/ AwaitDrain \/ Exit

Exited == ~alive /\ UNCHANGED vars

Next == (\E r \in Requests : Serving(r)) \/ AccountLoop \/ StatsLoop \/ OtherSave
          \/ Signal \/ Stopping \/ Crash \/ Exited

Spec == Init /\ [][Next]_vars

\* A fetch ends within its 30 s, the drain within its 15 s, saves return, and a
\* goroutine that can run does. Both cases of the stats loop's select stay ready
\* once the stop is closed, and select picks one at random: it is not for ever
\* the tick. Nothing is assumed of the requests, whose streams may go on.
Fairness ==
  /\ WF_vars(SetAccount \/ FetchFails \/ StopAccount)
  /\ WF_vars(FlushStats \/ SaveStats \/ SaveStatsFails)
  /\ WF_vars(FlushLogs \/ SaveLogs \/ SaveLogsFails)
  /\ SF_vars(Wake /\ final')
  /\ SF_vars(StopAccount)
  /\ WF_vars(BeginDrain \/ Drained \/ DrainExpires)
  /\ WF_vars(JoinAccount \/ JoinStats \/ AwaitDrain \/ Exit)

FairSpec == Spec /\ Fairness
-------------------------------------------------------------------------------
(* Properties.                                                             *)

Entry == [id : Nat, request : Requests]
StatsData == [counted : SUBSET Requests, account : Nat]
Sections == [stats : StatsData, logs : Seq(Entry)]

TypeOK ==
  /\ at \in [Requests -> {"away", "serving", "answered", "done"}]
  /\ stats \in StatsData
  /\ dirty \in BOOLEAN /\ logsDirty \in BOOLEAN
  /\ entries \in Seq(Entry)
  /\ nextID \in Nat \ {0}
  /\ conf \in Sections /\ disk \in Sections
  /\ flusher \in {"idle", "flushStats", "saveStats", "flushLogs", "saveLogs", "stopped"}
  /\ final \in BOOLEAN
  /\ account \in {"idle", "fetching", "stopped"}
  /\ stopper \in {"none", "joinAccount", "joinStats", "awaitDrain", "finished"}
  /\ drain \in {"none", "waiting", "done", "expired"}
  /\ alive \in BOOLEAN
  /\ rounds \in 0..MaxRounds /\ failures \in 0..MaxFailures /\ crashes \in 0..MaxCrashes

\* Recorder.Flush (stats and logs): a recorder that thinks it is clean has its
\* data in the file, unless it is being saved; what is recorded during a save or
\* survives a failed one stays marked for the next flush.
CleanIsPersisted ==
  /\ ~dirty => stats = IF flusher = "saveStats" THEN conf.stats ELSE disk.stats
  /\ ~logsDirty => entries = IF flusher = "saveLogs" THEN conf.logs ELSE disk.logs

Increasing(s) == \A i, j \in 1..Len(s) : i < j => s[i].id < s[j].id

\* logs.Recorder: over restarts and lost flushes the entries keep strictly
\* increasing IDs below the next one, and stay within the cap.
LogOrdered ==
  /\ Increasing(entries) /\ Increasing(disk.logs)
  /\ \A i \in 1..Len(entries) : entries[i].id < nextID
  /\ Len(entries) <= MaxEntries /\ Len(disk.logs) <= MaxEntries

\* stopBackgroundLoops: "a SetAccount/SetBillingCycle landing after that flush
\* would be lost on exit" - after an orderly exit without a failed save the file
\* has the account loop's last write.
AccountWriteSurvives ==
  ~alive /\ failures = 0 => disk.stats.account = stats.account

\* Flush, NewRecorder: what a flush has persisted is never taken back, by later
\* flushes, failing saves, crashes or restarts.
PersistedIsKept ==
  [][disk.stats.counted \subseteq disk'.stats.counted]_vars

\* shutdown: once the signal has arrived the process exits (unless it is killed
\* and started again), however long a stream goes on.
ShutdownCompletes == stopper = "joinAccount" ~> (~alive \/ stopper = "none")

\* README: "wait for in-flight requests (15 s at most) and complete the final
\* flush of the statistics, so that no data is lost" - after an orderly exit
\* whose drain did complete and without a failed save, every request counted in
\* memory is counted in the file.
DrainedIsPersisted ==
  ~alive /\ drain = "done" /\ failures = 0 => stats.counted \subseteq disk.stats.counted
===============================================================================
