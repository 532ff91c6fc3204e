----------------------------- MODULE AccountPool ------------------------------
(***************************************************************************)
(* The account pool of store/store.go and the admin handlers that change   *)
(* it (admin/admin.go). Every store method changes the configuration under *)
(* the store's lock, releases it, and then saves the whole configuration   *)
(* under the lock again; a handler calls several of them. Handlers run     *)
(* concurrently, a save can fail (the change stays in memory) and the      *)
(* process can restart at any point and load the file.                     *)
(*                                                                         *)
(* An account is its ID and its token; IDs are numbered in the order of    *)
(* creation, which is the order of the pool's list. Notes, regions,        *)
(* weights and snapshots are left out.                                     *)
(***************************************************************************)
EXTENDS Integers, FiniteSets

CONSTANTS
  Tokens,           \* personal access tokens an admin may submit
  NoToken,          \* the empty token
  Handlers,         \* admin requests served at the same time
  MaxCalls,         \* bound on the admin requests
  MaxRestarts,      \* bound on the restarts
  MaxSaveFailures   \* bound on the saves that fail

ASSUME TokenAssumption == NoToken \notin Tokens
ASSUME BoundAssumption ==
  MaxCalls \in Nat /\ MaxRestarts \in Nat /\ MaxSaveFailures \in Nat

VARIABLES
  mem,        \* the configuration in memory
  disk,       \* the configuration in data.json
  fresh,      \* the next account ID
  pc,         \* where each handler stands
  op,         \* the endpoint it serves
  token,      \* the token of its request
  target,     \* the account its request names, or its lookup found
  oldPAT,     \* the mirror it read before writing it
  calls, restarts, failures,
  \* history, read by properties only
  acked,      \* accounts whose submission was acknowledged, not deleted since
  unbacked,   \* those acknowledged although they were in no saved file, nor are since
  removed,    \* tokens whose deletion was acknowledged, not submitted since
  patWritten  \* whether the legacy token endpoint was ever used

handlerVars == <<pc, op, token, target, oldPAT>>
boundVars == <<calls, restarts, failures>>
historyVars == <<acked, unbacked, removed, patWritten>>
vars == <<mem, disk, fresh, handlerVars, boundVars, historyVars>>

NoID == 0
Account == [id : Nat \ {NoID}, pat : Tokens]
Config == [accounts : SUBSET Account, active : Nat, pat : Tokens \cup {NoToken}]
Empty == [accounts |-> {}, active |-> NoID, pat |-> NoToken]

IDs(c) == {a.id : a \in c.accounts}
PATs(c) == {a.pat : a \in c.accounts}

Init ==
  /\ mem = Empty /\ disk = Empty
  /\ fresh = 1
  /\ pc = [h \in Handlers |-> "idle"]
  /\ op = [h \in Handlers |-> "none"]
  /\ token = [h \in Handlers |-> NoToken]
  /\ target = [h \in Handlers |-> NoID]
  /\ oldPAT = [h \in Handlers |-> NoToken]
  /\ calls = 0 /\ restarts = 0 /\ failures = 0
  /\ acked = {} /\ unbacked = {} /\ removed = {} /\ patWritten = FALSE

Go(h, where) == pc' = [pc EXCEPT ![h] = where]

\* The handler has written its response.
Done(h) ==
  /\ pc' = [pc EXCEPT ![h] = "idle"]
  /\ op' = [op EXCEPT ![h] = "none"]
  /\ token' = [token EXCEPT ![h] = NoToken]
  /\ target' = [target EXCEPT ![h] = NoID]
  /\ oldPAT' = [oldPAT EXCEPT ![h] = NoToken]

-------------------------------------------------------------------------------
(* The requests: POST pat, POST accounts, DELETE accounts, POST switch.    *)

\* An admin request arrives; its handler's first critical section follows.
Call(h, what, t, id, where) ==
  /\ pc[h] = "idle"
  /\ calls < MaxCalls
  /\ calls' = calls + 1
  /\ op' = [op EXCEPT ![h] = what]
  /\ token' = [token EXCEPT ![h] = t]
  /\ target' = [target EXCEPT ![h] = id]
  /\ Go(h, where)
  /\ removed' = removed \ {t}
  /\ UNCHANGED <<mem, disk, fresh, restarts, failures, acked, unbacked>>

\* handlePAT reads the mirror first.
PostPAT(h, t) ==
  /\ Call(h, "pat", t, NoID, "setPAT")
  /\ oldPAT' = [oldPAT EXCEPT ![h] = mem.pat]
  /\ patWritten' = TRUE

\* handleAccounts refuses the empty token without a change.
PostAccount(h, t) ==
  /\ t # NoToken
  /\ Call(h, "post", t, NoID, "lookup")
  /\ UNCHANGED <<oldPAT, patWritten>>

DeleteRequest(h, id) ==
  /\ Call(h, "delete", NoToken, id, "delete")
  /\ UNCHANGED <<oldPAT, patWritten>>

SwitchRequest(h, id) ==
  /\ Call(h, "switch", NoToken, id, "activate")
  /\ UNCHANGED <<oldPAT, patWritten>>

-------------------------------------------------------------------------------
(* The store's critical sections.                                          *)

SetPAT(h) ==
  /\ pc[h] = "setPAT"
  /\ mem' = [mem EXCEPT !.pat = token[h]]
  /\ Go(h, "savePAT")
  /\ UNCHANGED <<disk, fresh, op, token, target, oldPAT, boundVars, historyVars>>

\* activateExisting's scan of a copy of the pool.
Lookup(h) ==
  /\ pc[h] = "lookup"
  /\ IF token[h] \in PATs(mem)
     THEN /\ \E a \in mem.accounts : /\ a.pat = token[h]
                                     /\ target' = [target EXCEPT ![h] = a.id]
          /\ Go(h, "activate")
     ELSE Go(h, "add") /\ UNCHANGED target
  /\ UNCHANGED <<mem, disk, fresh, op, token, oldPAT, boundVars, historyVars>>

\* The marker and the mirror move in one critical section. The switch endpoint
\* reports a failing save; activateExisting drops the error.
ActivateAccount(h) ==
  /\ pc[h] = "activate"
  /\ \E a \in mem.accounts :
       /\ a.id = target[h]
       /\ mem' = [mem EXCEPT !.active = a.id, !.pat = a.pat]
  /\ Go(h, IF op[h] = "switch" THEN "save" ELSE "saveIgnored")
  /\ UNCHANGED <<disk, fresh, op, token, target, oldPAT, boundVars, historyVars>>

\* The account is gone: activateExisting still reports a switch.
ActivateMissing(h) ==
  /\ pc[h] = "activate"
  /\ target[h] \notin IDs(mem)
  /\ Done(h)
  /\ UNCHANGED <<mem, disk, fresh, boundVars, historyVars>>

WithAccount(c, a) ==
  [accounts |-> c.accounts \cup {a},
   active   |-> IF c.active = NoID THEN a.id ELSE c.active,
   pat      |-> IF c.active = NoID THEN a.pat ELSE c.pat]

\* Mutant: the handler's lookup is the only check for a duplicate.
AddUnchecked(h) ==
  /\ pc[h] = "add"
  /\ mem' = WithAccount(mem, [id |-> fresh, pat |-> token[h]])
  /\ fresh' = fresh + 1
  /\ target' = [target EXCEPT ![h] = fresh]
  /\ Go(h, IF op[h] = "post" THEN "save" ELSE "saveIgnored")
  /\ UNCHANGED <<disk, op, token, oldPAT, boundVars, historyVars>>

\* POST accounts reports a failing save; ensureAccount drops the error.
AddAccount(h) ==
  /\ pc[h] = "add"
  /\ token[h] \notin PATs(mem)
  /\ mem' = WithAccount(mem, [id |-> fresh, pat |-> token[h]])
  /\ fresh' = fresh + 1
  /\ target' = [target EXCEPT ![h] = fresh]
  /\ Go(h, IF op[h] = "post" THEN "save" ELSE "saveIgnored")
  /\ UNCHANGED <<disk, op, token, oldPAT, boundVars, historyVars>>

\* Another handler pooled the token since the lookup: POST accounts fails, and
\* ensureAccount drops the error and leaves the marker where it is.
AddDuplicate(h) ==
  /\ pc[h] = "add"
  /\ token[h] \in PATs(mem)
  /\ Done(h)
  /\ UNCHANGED <<mem, disk, fresh, boundVars, historyVars>>

First(S) == {a \in S : \A b \in S : a.id <= b.id}

\* Mutant: only the marker moves to the first remaining account.
WithoutStaleMirror(c, id) ==
  LET left == {a \in c.accounts : a.id # id} IN
  IF c.active # id THEN {[c EXCEPT !.accounts = left]}
  ELSE IF left = {} THEN {Empty}
  ELSE {[c EXCEPT !.accounts = left, !.active = a.id] : a \in First(left)}

\* The configuration without an account (a set of one element): the marker and
\* the mirror move to the first remaining account, or are cleared.
Without(c, id) ==
  LET left == {a \in c.accounts : a.id # id} IN
  IF c.active # id THEN {[c EXCEPT !.accounts = left]}
  ELSE IF left = {} THEN {Empty}
  ELSE {[accounts |-> left, active |-> a.id, pat |-> a.pat] : a \in First(left)}

\* The token of the deleted account is remembered for the acknowledgement.
DeleteAccount(h) ==
  /\ pc[h] = "delete"
  /\ mem' \in Without(mem, target[h])
  /\ \E a \in mem.accounts : /\ a.id = target[h]
                             /\ token' = [token EXCEPT ![h] = a.pat]
  /\ acked' = acked \ {target[h]}
  /\ Go(h, "save")
  /\ UNCHANGED <<disk, fresh, op, target, oldPAT, boundVars, unbacked, removed, patWritten>>

DeleteMissing(h) ==
  /\ pc[h] = "delete"
  /\ target[h] \notin IDs(mem)
  /\ Done(h)
  /\ UNCHANGED <<mem, disk, fresh, boundVars, historyVars>>

-------------------------------------------------------------------------------
(* save: the whole configuration, as it is by now, replaces the file.      *)

\* The answer to a submission speaks of the account it added or found. A token is
\* gone once its deletion is acknowledged and no other request that carries it is
\* under way.
Acknowledge(h) ==
  /\ acked' = IF op[h] \in {"post", "pat"} /\ target[h] \in IDs(mem)
              THEN acked \cup {target[h]} ELSE acked
  /\ removed' = IF op[h] = "delete"
                   /\ \A g \in Handlers \ {h} : token[g] # token[h]
                   /\ token[h] \notin PATs(mem)
                THEN removed \cup {token[h]} ELSE removed
  /\ UNCHANGED patWritten

\* The file is the configuration in memory, whoever changed it.
Written ==
  /\ disk' = mem
  /\ unbacked' = unbacked \ IDs(mem)

Save(h) ==
  /\ pc[h] \in {"save", "saveIgnored"}
  /\ Written
  /\ Acknowledge(h)
  /\ Done(h)
  /\ UNCHANGED <<mem, fresh, boundVars>>

\* Mutant: a failed save is reported as a success.
SaveFailsSilently(h) ==
  /\ pc[h] = "save"
  /\ failures < MaxSaveFailures
  /\ failures' = failures + 1
  /\ Acknowledge(h)
  /\ Done(h)
  /\ UNCHANGED <<mem, disk, fresh, calls, restarts, unbacked>>

\* The handler answers with the error (409, 404); the file is as it was and memory
\* keeps the change.
SaveFails(h) ==
  /\ pc[h] = "save"
  /\ failures < MaxSaveFailures
  /\ failures' = failures + 1
  /\ Done(h)
  /\ UNCHANGED <<mem, disk, fresh, calls, restarts, historyVars>>

\* The handler has dropped the error and answers 200: the token's account is switched
\* to, or pooled by the token endpoint, in memory only.
IgnoredSaveFails(h) ==
  /\ pc[h] = "saveIgnored"
  /\ failures < MaxSaveFailures
  /\ failures' = failures + 1
  /\ Acknowledge(h)
  /\ unbacked' = unbacked \cup ({target[h]} \ IDs(disk))
  /\ Done(h)
  /\ UNCHANGED <<mem, disk, fresh, calls, restarts>>

\* Mutant: a token equal to the old mirror is left alone before the empty one
\* clears the marker.
SavePATComparesFirst(h) ==
  /\ pc[h] = "savePAT"
  /\ Written
  /\ Go(h, IF token[h] = oldPAT[h] THEN "unchanged"
           ELSE IF token[h] = NoToken THEN "readActive" ELSE "lookup")
  /\ UNCHANGED <<mem, fresh, op, token, target, oldPAT, boundVars,
                 acked, removed, patWritten>>

\* handlePAT, after SetPAT: clear the marker, align the pool, or nothing.
SavePAT(h) ==
  /\ pc[h] = "savePAT"
  /\ Written
  /\ Go(h, IF token[h] = NoToken THEN "readActive"
           ELSE IF token[h] = oldPAT[h] THEN "unchanged" ELSE "lookup")
  /\ UNCHANGED <<mem, fresh, op, token, target, oldPAT, boundVars,
                 acked, removed, patWritten>>

SavePATFails(h) ==
  /\ pc[h] = "savePAT"
  /\ failures < MaxSaveFailures
  /\ failures' = failures + 1
  /\ Done(h)
  /\ UNCHANGED <<mem, disk, fresh, calls, restarts, historyVars>>

ReadActive(h) ==
  /\ pc[h] = "readActive"
  /\ Go(h, IF mem.active # NoID THEN "clear" ELSE "unchanged")
  /\ UNCHANGED <<mem, disk, fresh, op, token, target, oldPAT, boundVars, historyVars>>

\* Mutant: the cleared marker is not saved.
ClearUnsaved(h) ==
  /\ pc[h] = "clear"
  /\ mem' = [mem EXCEPT !.active = NoID]
  /\ Done(h)
  /\ UNCHANGED <<disk, fresh, boundVars, historyVars>>

ClearActiveAccount(h) ==
  /\ pc[h] = "clear"
  /\ mem' = [mem EXCEPT !.active = NoID]
  /\ Go(h, "saveIgnored")
  /\ UNCHANGED <<disk, fresh, op, token, target, oldPAT, boundVars, historyVars>>

Unchanged(h) ==
  /\ pc[h] = "unchanged"
  /\ Done(h)
  /\ UNCHANGED <<mem, disk, fresh, boundVars, historyVars>>

\* Every other save of the store (the statistics' flush, a setting, an API key)
\* writes the whole configuration too, at any moment between the handlers' steps.
OtherSave ==
  /\ Written
  /\ UNCHANGED <<mem, fresh, handlerVars, boundVars, acked, removed, patWritten>>

-------------------------------------------------------------------------------
(* Restart: load the file; a mirrored token outside the pool is imported.  *)

Imported(c) ==
  IF c.pat = NoToken \/ c.pat \in PATs(c) THEN c
  ELSE [c EXCEPT !.accounts = @ \cup {[id |-> fresh, pat |-> c.pat]}]

\* With no marker the mirrored token's account becomes the active one.
Activated(c) ==
  IF c.active # NoID \/ c.pat = NoToken THEN {c}
  ELSE {[c EXCEPT !.active = a.id] : a \in {b \in c.accounts : b.pat = c.pat}}

Restart ==
  /\ restarts < MaxRestarts
  /\ restarts' = restarts + 1
  /\ mem' \in Activated(Imported(disk))
  /\ disk' = mem'
  /\ fresh' = IF Imported(disk) # disk THEN fresh + 1 ELSE fresh
  /\ pc' = [h \in Handlers |-> "idle"]
  /\ op' = [h \in Handlers |-> "none"]
  /\ token' = [h \in Handlers |-> NoToken]
  /\ target' = [h \in Handlers |-> NoID]
  /\ oldPAT' = [h \in Handlers |-> NoToken]
  /\ UNCHANGED <<calls, failures, historyVars>>

-------------------------------------------------------------------------------
Request(h) == \/ \E t \in Tokens \cup {NoToken} : PostPAT(h, t) \/ PostAccount(h, t)
              \/ \E id \in IDs(mem) : DeleteRequest(h, id) \/ SwitchRequest(h, id)

Step(h) == SetPAT(h) \/ SavePAT(h) \/ SavePATFails(h) \/ Lookup(h)
             \/ ActivateAccount(h) \/ ActivateMissing(h) \/ AddAccount(h)
             \/ AddDuplicate(h) \/ DeleteAccount(h) \/ DeleteMissing(h)
             \/ ReadActive(h) \/ ClearActiveAccount(h) \/ Unchanged(h)
             \/ Save(h) \/ SaveFails(h) \/ IgnoredSaveFails(h)

AtRest == (\A h \in Handlers : pc[h] = "idle") /\ UNCHANGED vars

Next == \/ \E h \in Handlers : Request(h) \/ Step(h)
        \/ OtherSave
        \/ Restart
        \/ AtRest

Spec == Init /\ [][Next]_vars
-------------------------------------------------------------------------------
(* Properties.                                                             *)

Places == {"idle", "setPAT", "savePAT", "lookup", "activate", "add", "delete",
           "readActive", "clear", "unchanged", "save", "saveIgnored"}

TypeOK ==
  /\ mem \in Config /\ disk \in Config
  /\ fresh \in Nat \ {NoID}
  /\ pc \in [Handlers -> Places]
  /\ op \in [Handlers -> {"none", "pat", "post", "delete", "switch"}]
  /\ token \in [Handlers -> Tokens \cup {NoToken}]
  /\ target \in [Handlers -> Nat]
  /\ oldPAT \in [Handlers -> Tokens \cup {NoToken}]
  /\ calls \in Nat /\ restarts \in Nat /\ failures \in Nat
  /\ acked \subseteq Nat /\ unbacked \subseteq Nat
  /\ removed \subseteq Tokens \cup {NoToken}
  /\ patWritten \in BOOLEAN

Quiet == \A h \in Handlers : pc[h] = "idle"

WellFormed(c) ==
  /\ \A a, b \in c.accounts : a.id = b.id \/ a.pat = b.pat => a = b
  /\ c.active = NoID \/ c.active \in IDs(c)

\* AddAccountWithRegion, ActivateAccount, DeleteAccount, load: whatever admin
\* requests overlap, no ID and no token is pooled twice and the active marker
\* names a pooled account, in memory and in the file a restart would load.
PoolWellFormed == WellFormed(mem) /\ WellFormed(disk)

Mirrored(c) == c.active # NoID => [id |-> c.active, pat |-> c.pat] \in c.accounts

\* ActivateAccount, DeleteAccount, load: adding, switching, deleting and
\* restarting keep the mirrored token that of the active account; it takes the
\* legacy token endpoint to part them.
MirrorFollowsActive == ~patWritten => Mirrored(mem) /\ Mirrored(disk)

\* save: once no request is under way and no save has failed, the file is the
\* configuration in memory, in whatever order overlapping requests saved.
QuietIsPersisted == Quiet /\ failures = 0 => disk = mem

\* handleAccounts, handlePAT: an account whose submission was answered with success
\* is in the pool and in the file until it is deleted, over failed saves and
\* restarts. The exception is the answer of a handler that dropped the error of its
\* save: an account that was in no file then is in memory only, which a restart ends,
\* until any later save writes it.
AckedSurvives ==
  /\ acked \ unbacked \subseteq IDs(mem) \cap IDs(disk)
  /\ restarts = 0 => acked \subseteq IDs(mem)

\* handlePAT: "an empty mirror must not coexist with an active pool entry" - it
\* never does between requests as long as no save fails and nothing restarts.
EmptyMirrorInactive ==
  Quiet /\ failures = 0 /\ restarts = 0 /\ mem.pat = NoToken => mem.active = NoID

\* store.go: "DeleteAccount removes an account" - a token whose deletion was
\* acknowledged stays out of the pool until it is submitted again.
DeletedStaysDeleted == removed \cap PATs(mem) = {}
===============================================================================
