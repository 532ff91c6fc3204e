-------------------------- MODULE AccountPoolProofs ---------------------------
(***************************************************************************)
(* Proofs about AccountPool, for any number of tokens, handlers, requests, *)
(* restarts and failing saves: its type invariant and each of its safety   *)
(* invariants. Every invariant needs its own strengthening, stated where   *)
(* it is used; TypeInv is the one the others rest on.                      *)
(***************************************************************************)
EXTENDS AccountPool, TLAPS

\* What a lookup or an addition works on is a token, never the empty one.
Carries == \A h \in Handlers : pc[h] \in {"lookup", "add"} => token[h] \in Tokens

TypeInv == TypeOK /\ Carries

USE DEF NoID

\* Without returns configurations and drops nothing but the account it names.
LEMMA WithoutIsConfig ==
  ASSUME NEW c \in Config, NEW id \in Nat, NEW d \in Without(c, id)
  PROVE  /\ d \in Config
         /\ d.accounts = {a \in c.accounts : a.id # id}
         /\ c.active # id => d.active = c.active /\ d.pat = c.pat
         /\ c.active = id =>
              \/ d.active = NoID /\ d.pat = NoToken
              \/ \E a \in d.accounts : d.active = a.id /\ d.pat = a.pat
<1> DEFINE left == {a \in c.accounts : a.id # id}
<1>1. CASE c.active # id
  BY <1>1 DEF Without, Config
<1>2. CASE c.active = id /\ left = {}
  BY <1>2 DEF Without, Config, Empty
<1>3. CASE c.active = id /\ left # {}
  BY <1>3 DEF Without, Config, First, Account
<1> QED BY <1>1, <1>2, <1>3

\* What a restart loads is a configuration; it may add one account.
LEMMA LoadedIsConfig ==
  ASSUME NEW c \in Config, fresh \in Nat \ {NoID}, NEW d \in Activated(Imported(c))
  PROVE  /\ d \in Config
         /\ d.pat = c.pat
         /\ \/ d.accounts = c.accounts
            \/ /\ c.pat \in Tokens /\ c.pat \notin PATs(c)
               /\ d.accounts = c.accounts \cup {[id |-> fresh, pat |-> c.pat]}
               /\ Imported(c) # c
         /\ \/ d.active = c.active
            \/ c.active = NoID /\ c.pat # NoToken /\ d.active \in IDs(d)
<1> DEFINE i == Imported(c)
<1>1. /\ i \in Config
      /\ i.pat = c.pat /\ i.active = c.active
      /\ \/ i = c
         \/ /\ c.pat \in Tokens /\ c.pat \notin PATs(c)
            /\ i.accounts = c.accounts \cup {[id |-> fresh, pat |-> c.pat]}
            /\ i # c
  <2>1. CASE c.pat = NoToken \/ c.pat \in PATs(c)
    BY <2>1 DEF Imported
  <2>2. CASE c.pat # NoToken /\ c.pat \notin PATs(c)
    <3>1. c.pat \in Tokens
      BY <2>2 DEF Config
    <3>2. i = [c EXCEPT !.accounts = @ \cup {[id |-> fresh, pat |-> c.pat]}]
      BY <2>2 DEF Imported
    <3>3. [id |-> fresh, pat |-> c.pat] \notin c.accounts
      BY <2>2 DEF PATs
    <3> QED BY <2>2, <3>1, <3>2, <3>3 DEF Config, Account
  <2> QED BY <2>1, <2>2
<1>2. d \in Activated(i)
  OBVIOUS
<1>3. \/ d = i
      \/ /\ i.active = NoID /\ i.pat # NoToken
         /\ \E a \in i.accounts : d = [i EXCEPT !.active = a.id]
  BY <1>2 DEF Activated
<1> QED
  <2>1. CASE d = i
    BY <1>1, <2>1
  <2>2. CASE /\ i.active = NoID /\ i.pat # NoToken
             /\ \E a \in i.accounts : d = [i EXCEPT !.active = a.id]
    <3>1. PICK a \in i.accounts : d = [i EXCEPT !.active = a.id]
      BY <2>2
    <3>2. a.id \in Nat
      BY <1>1, <3>1 DEF Config, Account
    <3>3. d \in Config /\ d.accounts = i.accounts /\ d.pat = i.pat /\ d.active = a.id
      BY <1>1, <3>1, <3>2 DEF Config
    <3> QED BY <1>1, <2>2, <3>1, <3>3 DEF IDs
  <2> QED BY <1>3, <2>1, <2>2

-------------------------------------------------------------------------------
(* The type invariant.                                                     *)

\* A request arriving keeps the types.
LEMMA RequestType ==
  ASSUME TypeInv, NEW h \in Handlers, Request(h)
  PROVE  TypeInv'
<1> USE TokenAssumption, BoundAssumption
<1> USE DEF TypeInv, TypeOK, Carries, Call, Go, Places
<1>1. ASSUME NEW t \in Tokens \cup {NoToken}, PostPAT(h, t)
      PROVE  TypeInv'
  BY <1>1 DEF PostPAT, Config
<1>2. ASSUME NEW t \in Tokens \cup {NoToken}, PostAccount(h, t)
      PROVE  TypeInv'
  BY <1>2 DEF PostAccount
<1>3. ASSUME NEW id \in IDs(mem), DeleteRequest(h, id)
      PROVE  TypeInv'
  BY <1>3 DEF DeleteRequest, IDs, Config, Account
<1>4. ASSUME NEW id \in IDs(mem), SwitchRequest(h, id)
      PROVE  TypeInv'
  BY <1>4 DEF SwitchRequest, IDs, Config, Account
<1> QED BY <1>1, <1>2, <1>3, <1>4 DEF Request

\* A handler's step keeps the types.
LEMMA StepType ==
  ASSUME TypeInv, NEW h \in Handlers, Step(h)
  PROVE  TypeInv'
<1> USE TokenAssumption, BoundAssumption
<1> USE DEF TypeInv, TypeOK, Carries, Go, Done, Places, boundVars, historyVars, Written
<1>1. CASE SetPAT(h)
  BY <1>1 DEF SetPAT, Config
<1>2. CASE SavePAT(h)
  <2>1. pc'[h] \in Places /\ (pc'[h] = "lookup" => token[h] \in Tokens)
    BY <1>2 DEF SavePAT
  <2> QED BY <1>2, <2>1 DEF SavePAT
<1>3. CASE SavePATFails(h)
  BY <1>3 DEF SavePATFails
<1>4. CASE Lookup(h)
  BY <1>4 DEF Lookup, Config, Account
<1>5. CASE ActivateAccount(h)
  BY <1>5 DEF ActivateAccount, Config, Account
<1>6. CASE ActivateMissing(h)
  BY <1>6 DEF ActivateMissing
<1>7. CASE AddAccount(h)
  <2>1. [id |-> fresh, pat |-> token[h]] \in Account
    BY <1>7 DEF AddAccount, Account
  <2>2. mem' \in Config
    BY <1>7, <2>1 DEF AddAccount, WithAccount, Config
  <2> QED BY <1>7, <2>2 DEF AddAccount
<1>8. CASE AddDuplicate(h)
  BY <1>8 DEF AddDuplicate
<1>9. CASE DeleteAccount(h)
  <2>1. mem' \in Config
    BY <1>9, WithoutIsConfig DEF DeleteAccount
  <2>2. PICK a \in mem.accounts : token' = [token EXCEPT ![h] = a.pat]
    BY <1>9 DEF DeleteAccount
  <2>3. a.pat \in Tokens
    BY <2>2 DEF Config, Account
  <2> QED BY <1>9, <2>1, <2>2, <2>3 DEF DeleteAccount
<1>10. CASE DeleteMissing(h)
  BY <1>10 DEF DeleteMissing
<1>11. CASE ReadActive(h)
  BY <1>11 DEF ReadActive
<1>12. CASE ClearActiveAccount(h)
  BY <1>12 DEF ClearActiveAccount, Config
<1>13. CASE Unchanged(h)
  BY <1>13 DEF Unchanged
<1>14. CASE Save(h)
  <2>1. acked' \subseteq Nat /\ removed' \subseteq Tokens \cup {NoToken}
        /\ patWritten' \in BOOLEAN
    BY <1>14 DEF Save, Acknowledge
  <2> QED BY <1>14, <2>1 DEF Save
<1>15. CASE SaveFails(h)
  BY <1>15 DEF SaveFails
<1>16. CASE IgnoredSaveFails(h)
  <2>1. /\ acked' \subseteq Nat /\ unbacked' \subseteq Nat
        /\ removed' \subseteq Tokens \cup {NoToken} /\ patWritten' \in BOOLEAN
    BY <1>16 DEF IgnoredSaveFails, Acknowledge
  <2> QED BY <1>16, <2>1 DEF IgnoredSaveFails
<1> QED BY <1>1, <1>2, <1>3, <1>4, <1>5, <1>6, <1>7, <1>8, <1>9, <1>10, <1>11,
           <1>12, <1>13, <1>14, <1>15, <1>16 DEF Step

\* A restart keeps the types.
LEMMA RestartType ==
  ASSUME TypeInv, Restart
  PROVE  TypeInv'
<1>1. mem' \in Config
  BY LoadedIsConfig DEF TypeInv, TypeOK, Restart
<1> QED BY <1>1 DEF TypeInv, TypeOK, Carries, Restart, Places, historyVars

\* Type correctness of every state of the pool and its handlers, with the fact
\* that a handler looking up or adding a token carries one.
LEMMA TypeInvariant == Spec => []TypeInv
<1>1. Init => TypeInv
  <2>1. Empty \in Config
    BY DEF Empty, Config
  <2>2. ASSUME Init PROVE TypeOK
    <3>1. mem \in Config /\ disk \in Config
      BY <2>1, <2>2 DEF Init
    <3>2. /\ pc \in [Handlers -> Places]
          /\ op \in [Handlers -> {"none", "pat", "post", "delete", "switch"}]
          /\ token \in [Handlers -> Tokens \cup {NoToken}]
          /\ target \in [Handlers -> Nat]
          /\ oldPAT \in [Handlers -> Tokens \cup {NoToken}]
      BY <2>2 DEF Init, Places
    <3>3. /\ fresh \in Nat \ {NoID}
          /\ calls \in Nat /\ restarts \in Nat /\ failures \in Nat
          /\ acked \subseteq Nat /\ unbacked \subseteq Nat /\ removed \subseteq Tokens \cup {NoToken}
      BY <2>2 DEF Init
    <3>4. patWritten \in BOOLEAN
      BY <2>2, Zenon DEF Init
    <3> QED BY <3>1, <3>2, <3>3, <3>4 DEF TypeOK
  <2>3. Init => Carries
    BY DEF Init, Carries
  <2> QED BY <2>2, <2>3 DEF TypeInv
<1>2. TypeInv /\ [Next]_vars => TypeInv'
  <2> SUFFICES ASSUME TypeInv, [Next]_vars PROVE TypeInv'
    OBVIOUS
  <2>1. CASE UNCHANGED vars
    BY <2>1 DEF TypeInv, TypeOK, Carries, vars, handlerVars, boundVars, historyVars
  <2>2. CASE OtherSave
    BY <2>2 DEF OtherSave, Written, TypeInv, TypeOK, Carries, handlerVars, boundVars
  <2> QED BY <2>1, <2>2, RequestType, StepType, RestartType DEF Next, AtRest
<1> QED BY <1>1, <1>2, PTL DEF Spec

\* TypeOK: every variable keeps its type, whatever requests, saves and restarts
\* interleave.
THEOREM PoolTypeCorrect == Spec => []TypeOK
<1>1. TypeInv => TypeOK
  BY DEF TypeInv
<1> QED BY <1>1, TypeInvariant, PTL

-------------------------------------------------------------------------------
(* The pool's well-formedness. It is inductive together with the IDs being *)
(* below the next one, in memory and in the file.                          *)

Aged(c) == \A a \in c.accounts : a.id < fresh

Formed(c) == WellFormed(c) /\ Aged(c)

FormedInv == Formed(mem) /\ Formed(disk)

\* A configuration with one more account, whose ID is new and whose token is not
\* pooled yet, is well formed.
LEMMA GrownIsFormed ==
  ASSUME NEW c \in Config, fresh \in Nat \ {NoID}, Formed(c),
         NEW t \in Tokens, t \notin PATs(c),
         NEW d \in Config,
         d.accounts = c.accounts \cup {[id |-> fresh, pat |-> t]},
         d.active = NoID \/ d.active = c.active \/ d.active \in IDs(d)
  PROVE  WellFormed(d) /\ \A a \in d.accounts : a.id < fresh + 1
<1>1. \A a \in c.accounts : a.id \in Nat /\ a.id < fresh /\ a.pat # t
  BY DEF Config, Account, Formed, Aged, PATs
<1>2. \A a, b \in d.accounts : a.id = b.id \/ a.pat = b.pat => a = b
  BY <1>1 DEF Formed, WellFormed
<1>3. \A a \in d.accounts : a.id < fresh + 1
  BY <1>1
<1>4. IDs(c) \subseteq IDs(d)
  BY DEF IDs
<1>5. d.active = NoID \/ d.active \in IDs(d)
  BY <1>4 DEF Formed, WellFormed
<1> QED BY <1>2, <1>3, <1>5 DEF WellFormed

\* A configuration without one account is well formed.
LEMMA ShrunkIsFormed ==
  ASSUME NEW c \in Config, Formed(c), NEW id \in Nat, NEW d \in Without(c, id)
  PROVE  Formed(d)
<1>1. d.accounts = {a \in c.accounts : a.id # id}
  BY WithoutIsConfig
<1>2. \/ d.active = NoID
      \/ d.active \in IDs(d)
  <2>1. CASE c.active # id
    BY <2>1, <1>1, WithoutIsConfig DEF Formed, WellFormed, IDs
  <2>2. CASE c.active = id
    BY <2>2, WithoutIsConfig DEF IDs
  <2> QED BY <2>1, <2>2
<1> QED BY <1>1, <1>2 DEF Formed, WellFormed, Aged

\* A step keeps the pool well formed.
LEMMA FormedStep == TypeInv /\ FormedInv /\ [Next]_vars => FormedInv'
<1> SUFFICES ASSUME TypeInv, FormedInv, [Next]_vars PROVE FormedInv'
  OBVIOUS
<1> USE DEF TypeInv, TypeOK
<1>1. ASSUME UNCHANGED <<mem, disk, fresh>> PROVE FormedInv'
  BY <1>1 DEF FormedInv, Formed, WellFormed, Aged, IDs
<1>2. ASSUME disk' = mem, UNCHANGED <<mem, fresh>> PROVE FormedInv'
  BY <1>2 DEF FormedInv, Formed, WellFormed, Aged, IDs
<1>3. ASSUME mem'.accounts = mem.accounts, UNCHANGED <<disk, fresh>>,
             mem'.active = mem.active \/ mem'.active = NoID \/ mem'.active \in IDs(mem)
      PROVE  FormedInv'
  BY <1>3 DEF FormedInv, Formed, WellFormed, Aged, IDs
<1>4. ASSUME NEW h \in Handlers, AddAccount(h) PROVE FormedInv'
  <2> DEFINE a == [id |-> fresh, pat |-> token[h]]
  <2>1. token[h] \in Tokens /\ token[h] \notin PATs(mem)
    BY <1>4 DEF AddAccount, Carries
  <2>2. a \in Account
    BY <2>1 DEF Account
  <2>3. /\ mem' \in Config
        /\ mem'.accounts = mem.accounts \cup {a}
        /\ mem'.active = mem.active \/ mem'.active = a.id
    BY <1>4, <2>2 DEF AddAccount, WithAccount, Config
  <2>4. mem'.active = mem.active \/ mem'.active \in IDs(mem')
    BY <2>3 DEF IDs
  <2>5. WellFormed(mem') /\ \A b \in mem'.accounts : b.id < fresh + 1
    BY <2>1, <2>3, <2>4, GrownIsFormed DEF FormedInv
  <2>6. disk' = disk /\ fresh' = fresh + 1
    BY <1>4 DEF AddAccount
  <2>7. \A b \in disk.accounts : b.id < fresh + 1
    BY DEF FormedInv, Formed, Aged, Config, Account
  <2>8. WellFormed(mem)' /\ Aged(mem)'
    BY <2>5, <2>6 DEF WellFormed, Aged, IDs
  <2>9. WellFormed(disk)' /\ Aged(disk)'
    BY <2>6, <2>7 DEF FormedInv, Formed, WellFormed, Aged, IDs
  <2> QED BY <2>8, <2>9 DEF FormedInv, Formed
<1>5. ASSUME NEW h \in Handlers, DeleteAccount(h) PROVE FormedInv'
  <2>1. mem' \in Without(mem, target[h]) /\ UNCHANGED <<disk, fresh>>
    BY <1>5 DEF DeleteAccount
  <2>2. Formed(mem')
    BY <2>1, ShrunkIsFormed DEF FormedInv
  <2> QED BY <2>1, <2>2 DEF FormedInv, Formed, WellFormed, Aged, IDs
<1>6. ASSUME Restart PROVE FormedInv'
  <2>1. mem' \in Activated(Imported(disk)) /\ disk' = mem'
        /\ fresh' = IF Imported(disk) # disk THEN fresh + 1 ELSE fresh
    BY <1>6 DEF Restart
  <2>2. mem' \in Config
    BY <2>1, LoadedIsConfig
  <2>3. mem'.active = NoID \/ mem'.active = disk.active \/ mem'.active \in IDs(mem')
    BY <2>1, LoadedIsConfig
  <2>4. CASE mem'.accounts = disk.accounts
    <3>1. WellFormed(mem') /\ Aged(mem')
      BY <2>3, <2>4 DEF FormedInv, Formed, WellFormed, Aged, IDs
    <3>2. fresh' >= fresh /\ fresh' \in Nat
      BY <2>1
    <3>3. \A a \in mem'.accounts : a.id \in Nat /\ a.id < fresh'
      BY <2>2, <3>1, <3>2 DEF Aged, Config, Account
    <3> QED BY <2>1, <3>1, <3>3 DEF FormedInv, Formed, WellFormed, Aged, IDs
  <2>5. CASE /\ disk.pat \in Tokens /\ disk.pat \notin PATs(disk)
             /\ mem'.accounts = disk.accounts \cup {[id |-> fresh, pat |-> disk.pat]}
             /\ Imported(disk) # disk
    <3>1. WellFormed(mem') /\ \A a \in mem'.accounts : a.id < fresh + 1
      BY <2>2, <2>3, <2>5, GrownIsFormed DEF FormedInv
    <3>2. fresh' = fresh + 1
      BY <2>1, <2>5
    <3> QED BY <2>1, <3>1, <3>2 DEF FormedInv, Formed, WellFormed, Aged, IDs
  <2> QED BY <2>1, <2>4, <2>5, LoadedIsConfig
<1>7. ASSUME NEW h \in Handlers, Request(h) PROVE FormedInv'
  BY <1>7, <1>1 DEF Request, PostPAT, PostAccount, DeleteRequest, SwitchRequest, Call
<1>8. ASSUME NEW h \in Handlers, Step(h) PROVE FormedInv'
  <2>1. CASE SetPAT(h)
    BY <2>1, <1>3 DEF SetPAT, Config
  <2>2. CASE ActivateAccount(h)
    BY <2>2, <1>3 DEF ActivateAccount, Config, IDs
  <2>3. CASE ClearActiveAccount(h)
    BY <2>3, <1>3 DEF ClearActiveAccount, Config
  <2>4. CASE SavePAT(h) \/ Save(h)
    BY <2>4, <1>2 DEF SavePAT, Save, Written
  <2>5. CASE SavePATFails(h) \/ SaveFails(h) \/ IgnoredSaveFails(h) \/ Lookup(h)
             \/ ActivateMissing(h) \/ AddDuplicate(h) \/ DeleteMissing(h) \/ ReadActive(h)
             \/ Unchanged(h)
    BY <2>5, <1>1 DEF SavePATFails, SaveFails, IgnoredSaveFails, Lookup, ActivateMissing,
                      AddDuplicate, DeleteMissing, ReadActive, Unchanged
  <2> QED BY <1>8, <1>4, <1>5, <2>1, <2>2, <2>3, <2>4, <2>5 DEF Step
<1>9. CASE UNCHANGED vars
  BY <1>9, <1>1 DEF vars
<1>10. CASE OtherSave
  BY <1>10, <1>2 DEF OtherSave, Written
<1> QED BY <1>6, <1>7, <1>8, <1>9, <1>10 DEF Next, AtRest

\* PoolWellFormed: no ID and no token is pooled twice and the active marker names
\* a pooled account, in memory and in the file, for any number of handlers.
THEOREM PoolWellFormedHolds == Spec => []PoolWellFormed
<1>1. Init => FormedInv
  BY DEF Init, FormedInv, Formed, WellFormed, Aged, Empty
<1>2. FormedInv => PoolWellFormed
  BY DEF FormedInv, Formed, PoolWellFormed
<1> QED BY <1>1, <1>2, FormedStep, TypeInvariant, PTL DEF Spec

-------------------------------------------------------------------------------
(* The mirror. Without the token endpoint no handler is on its path, and a *)
(* configuration without an active account has an empty mirror, so that    *)
(* loading it changes nothing.                                             *)

MirroredOrEmpty(c) == IF c.active = NoID THEN c.pat = NoToken ELSE Mirrored(c)

PATPath == {"setPAT", "savePAT", "readActive", "clear", "unchanged"}

MirrorInv ==
  ~patWritten => /\ MirroredOrEmpty(mem) /\ MirroredOrEmpty(disk)
                 /\ \A h \in Handlers : pc[h] \notin PATPath

\* A step keeps the mirror as long as the token endpoint is not used.
LEMMA MirrorStep == TypeInv /\ MirrorInv /\ [Next]_vars => MirrorInv'
<1> SUFFICES ASSUME TypeInv, MirrorInv, [Next]_vars, ~patWritten' PROVE MirrorInv'
  BY DEF MirrorInv
<1> USE DEF TypeInv, TypeOK
<1> DEFINE Off == \A h \in Handlers : pc[h] \notin PATPath
<1>1. ASSUME UNCHANGED <<mem, disk, patWritten>>, Off' PROVE MirrorInv'
  BY <1>1 DEF MirrorInv, MirroredOrEmpty, Mirrored
<1>2. CASE UNCHANGED vars
  BY <1>2, <1>1 DEF vars, handlerVars, historyVars, MirrorInv
<1>3. ASSUME NEW h \in Handlers, Request(h) PROVE MirrorInv'
  <2>1. ~patWritten /\ Off
    BY <1>3 DEF Request, PostPAT, PostAccount, DeleteRequest, SwitchRequest, MirrorInv
  <2>2. Off'
    BY <1>3, <2>1 DEF Request, PostPAT, PostAccount, DeleteRequest, SwitchRequest,
                      Call, Go, PATPath
  <2> QED BY <1>3, <1>1, <2>2 DEF Request, PostPAT, PostAccount, DeleteRequest,
                                  SwitchRequest, Call
<1>4. ASSUME NEW h \in Handlers, Step(h) PROVE MirrorInv'
  <2>1. ~patWritten
    BY <1>4 DEF Step, SetPAT, SavePAT, SavePATFails, Lookup, ActivateAccount,
                ActivateMissing, AddAccount, AddDuplicate, DeleteAccount, DeleteMissing,
                ReadActive, ClearActiveAccount, Unchanged, Save, SaveFails, IgnoredSaveFails,
                Acknowledge, historyVars
  <2>2. Off /\ MirroredOrEmpty(mem) /\ MirroredOrEmpty(disk)
    BY <2>1 DEF MirrorInv
  <2>3. pc[h] \notin PATPath
    BY <2>2
  <2>4. CASE Lookup(h)
    <3>1. Off'
      BY <2>2, <2>4 DEF Lookup, Go, PATPath
    <3> QED BY <3>1, <2>4, <1>1 DEF Lookup, historyVars
  <2>5. CASE ActivateAccount(h)
    <3>1. Off'
      BY <2>2, <2>5 DEF ActivateAccount, Go, PATPath
    <3>2. Mirrored(mem')
      BY <2>5 DEF ActivateAccount, Mirrored, Config, Account
    <3>3. mem'.active # NoID
      BY <2>5 DEF ActivateAccount, Config, Account
    <3> QED BY <2>2, <2>5, <3>1, <3>2, <3>3
            DEF ActivateAccount, MirrorInv, MirroredOrEmpty, Mirrored
  <2>6. CASE AddAccount(h)
    <3>1. Off'
      BY <2>2, <2>6 DEF AddAccount, Go, PATPath
    <3>2. MirroredOrEmpty(mem')
      BY <2>2, <2>6 DEF AddAccount, WithAccount, MirroredOrEmpty, Mirrored, Config
    <3> QED BY <2>2, <2>6, <3>1, <3>2 DEF AddAccount, MirrorInv, MirroredOrEmpty, Mirrored
  <2>7. CASE DeleteAccount(h)
    <3>1. Off'
      BY <2>2, <2>7 DEF DeleteAccount, Go, PATPath
    <3>2. mem' \in Without(mem, target[h]) /\ mem' \in Config
      BY <2>7, WithoutIsConfig DEF DeleteAccount
    <3>3. mem'.accounts = {a \in mem.accounts : a.id # target[h]}
      BY <3>2, WithoutIsConfig
    <3>4. CASE mem.active # target[h]
      <4>1. mem'.active = mem.active /\ mem'.pat = mem.pat
        BY <3>2, <3>4, WithoutIsConfig
      <4> QED BY <2>2, <2>7, <3>1, <3>3, <3>4, <4>1
              DEF DeleteAccount, MirrorInv, MirroredOrEmpty, Mirrored
    <3>5. CASE mem.active = target[h]
      <4>1. \/ mem'.active = NoID /\ mem'.pat = NoToken
            \/ \E a \in mem'.accounts : mem'.active = a.id /\ mem'.pat = a.pat
        BY <3>2, <3>5, WithoutIsConfig
      <4>2. MirroredOrEmpty(mem')
        <5>1. CASE mem'.active = NoID /\ mem'.pat = NoToken
          BY <5>1 DEF MirroredOrEmpty
        <5>2. ASSUME NEW a \in mem'.accounts, mem'.active = a.id, mem'.pat = a.pat
              PROVE  MirroredOrEmpty(mem')
          <6>1. a = [id |-> a.id, pat |-> a.pat] /\ a.id # NoID
            BY <3>2, <5>2 DEF Config, Account
          <6> QED BY <5>2, <6>1 DEF MirroredOrEmpty, Mirrored
        <5> QED BY <4>1, <5>1, <5>2
      <4> QED BY <2>2, <2>7, <3>1, <4>2 DEF DeleteAccount, MirrorInv, MirroredOrEmpty, Mirrored
    <3> QED BY <3>4, <3>5
  <2>8. CASE Save(h)
    <3>1. Off'
      BY <2>2, <2>8 DEF Save, Done, PATPath
    <3> QED BY <2>2, <2>8, <3>1 DEF Save, Written, MirrorInv, MirroredOrEmpty, Mirrored
  <2>9. CASE ActivateMissing(h) \/ AddDuplicate(h) \/ DeleteMissing(h) \/ SaveFails(h)
               \/ IgnoredSaveFails(h)
    <3>1. Off'
      BY <2>2, <2>9 DEF ActivateMissing, AddDuplicate, DeleteMissing, SaveFails,
                        IgnoredSaveFails, Done, PATPath
    <3> QED BY <2>9, <3>1, <1>1 DEF ActivateMissing, AddDuplicate, DeleteMissing, SaveFails,
                                    IgnoredSaveFails, Acknowledge, historyVars
  <2>10. CASE SetPAT(h) \/ SavePAT(h) \/ SavePATFails(h) \/ ReadActive(h)
                \/ ClearActiveAccount(h) \/ Unchanged(h)
    BY <2>3, <2>10 DEF SetPAT, SavePAT, SavePATFails, ReadActive, ClearActiveAccount,
                       Unchanged, PATPath
  <2> QED BY <1>4, <2>4, <2>5, <2>6, <2>7, <2>8, <2>9, <2>10 DEF Step
<1>5. ASSUME Restart PROVE MirrorInv'
  <2>1. ~patWritten /\ MirroredOrEmpty(disk)
    BY <1>5 DEF Restart, historyVars, MirrorInv
  <2>2. Imported(disk) = disk
    BY <2>1 DEF Imported, MirroredOrEmpty, Mirrored, PATs
  <2>3. mem' = disk /\ disk' = disk
    BY <1>5, <2>1, <2>2 DEF Restart, Activated, MirroredOrEmpty
  <2>4. Off'
    BY <1>5 DEF Restart, PATPath
  <2> QED BY <2>1, <2>3, <2>4 DEF MirrorInv, MirroredOrEmpty, Mirrored
<1>6. CASE OtherSave
  BY <1>6 DEF OtherSave, Written, MirrorInv, MirroredOrEmpty, Mirrored, handlerVars
<1> QED BY <1>2, <1>3, <1>4, <1>5, <1>6 DEF Next, AtRest

\* MirrorFollowsActive: adding, switching, deleting and restarting keep the
\* mirrored token that of the active account while the token endpoint is unused.
THEOREM MirrorFollowsActiveHolds == Spec => []MirrorFollowsActive
<1>1. Init => MirrorInv
  BY DEF Init, MirrorInv, MirroredOrEmpty, Empty, PATPath
<1>2. MirrorInv => MirrorFollowsActive
  BY DEF MirrorInv, MirrorFollowsActive, MirroredOrEmpty, Mirrored
<1> QED BY <1>1, <1>2, MirrorStep, TypeInvariant, PTL DEF Spec

-------------------------------------------------------------------------------
(* Persistence.                                                            *)

Saving == {"save", "saveIgnored", "savePAT"}

\* A difference between memory and file has a handler on its way to a save.
PendingInv ==
  failures = 0 /\ disk # mem => \E h \in Handlers : pc[h] \in Saving

\* A step keeps every unsaved change in the hands of a handler.
LEMMA PendingStep == TypeInv /\ PendingInv /\ [Next]_vars => PendingInv'
<1> SUFFICES ASSUME TypeInv, PendingInv, [Next]_vars, failures' = 0, disk' # mem'
             PROVE  \E h \in Handlers : pc'[h] \in Saving
  BY DEF PendingInv
<1> USE DEF TypeInv, TypeOK
<1>1. failures = 0
  <2>1. \A n \in Nat : n + 1 # 0
    OBVIOUS
  <2> QED BY <2>1, ZenonT(60) DEF Next, Request, Step, PostPAT, PostAccount, DeleteRequest,
        SwitchRequest, Call, SetPAT, SavePAT, SavePATFails, Lookup, ActivateAccount,
        ActivateMissing, AddAccount, AddDuplicate, DeleteAccount, DeleteMissing, ReadActive,
        ClearActiveAccount, Unchanged, Save, SaveFails, IgnoredSaveFails, OtherSave, Restart, AtRest, boundVars,
        vars
<1>2. ASSUME NEW h \in Handlers, UNCHANGED <<mem, disk>>,
             pc[h] \notin Saving,
             \A g \in Handlers \ {h} : pc'[g] = pc[g]
      PROVE  \E g \in Handlers : pc'[g] \in Saving
  BY <1>1, <1>2 DEF PendingInv
<1>3. CASE UNCHANGED vars
  BY <1>1, <1>3 DEF vars, handlerVars, PendingInv
<1>4. CASE Restart
  BY <1>4 DEF Restart
<1>5. ASSUME NEW h \in Handlers, Request(h)
      PROVE  \E g \in Handlers : pc'[g] \in Saving
  BY <1>5, <1>2 DEF Request, PostPAT, PostAccount, DeleteRequest, SwitchRequest, Call, Go, Saving
<1>6. ASSUME NEW h \in Handlers, Step(h)
      PROVE  \E g \in Handlers : pc'[g] \in Saving
  <2>1. CASE SetPAT(h) \/ ActivateAccount(h) \/ AddAccount(h) \/ DeleteAccount(h)
               \/ ClearActiveAccount(h)
    BY <2>1 DEF SetPAT, ActivateAccount, AddAccount, DeleteAccount, ClearActiveAccount, Go, Saving
  <2>2. CASE SavePAT(h) \/ Save(h)
    BY <2>2 DEF SavePAT, Save, Written
  <2>3. CASE Lookup(h) \/ ActivateMissing(h) \/ AddDuplicate(h) \/ DeleteMissing(h)
               \/ ReadActive(h) \/ Unchanged(h)
    BY <2>3, <1>2 DEF Lookup, ActivateMissing, AddDuplicate, DeleteMissing, ReadActive,
                      Unchanged, Go, Done, Saving
  <2>4. CASE SavePATFails(h) \/ SaveFails(h) \/ IgnoredSaveFails(h)
    <3>1. failures' = failures + 1
      BY <2>4 DEF SavePATFails, SaveFails, IgnoredSaveFails
    <3> QED BY <3>1, <1>1
  <2> QED BY <1>6, <2>1, <2>2, <2>3, <2>4 DEF Step
<1>7. CASE OtherSave
  BY <1>7 DEF OtherSave, Written
<1> QED BY <1>3, <1>4, <1>5, <1>6, <1>7 DEF Next, AtRest

\* QuietIsPersisted: with no request under way and no failed save the file is the
\* configuration in memory.
THEOREM QuietIsPersistedHolds == Spec => []QuietIsPersisted
<1>1. Init => PendingInv
  BY DEF Init, PendingInv
<1>2. PendingInv => QuietIsPersisted
  BY DEF PendingInv, QuietIsPersisted, Quiet, Saving
<1> QED BY <1>1, <1>2, PendingStep, TypeInvariant, PTL DEF Spec

\* A step takes no acknowledged account away that is not deleted, nor out of the
\* file unless it never was in one.
LEMMA AckedStep == TypeInv /\ AckedSurvives /\ [Next]_vars => AckedSurvives'
<1> SUFFICES ASSUME TypeInv, AckedSurvives, [Next]_vars PROVE AckedSurvives'
  OBVIOUS
<1> USE DEF TypeInv, TypeOK
<1>1. ASSUME acked' = acked, unbacked' = unbacked, restarts' = restarts,
             mem.accounts \subseteq mem'.accounts, disk'.accounts = disk.accounts
      PROVE  AckedSurvives'
  BY <1>1 DEF AckedSurvives, IDs
<1>2. ASSUME Written, acked' = acked, restarts' = restarts, mem' = mem
      PROVE  AckedSurvives'
  BY <1>2 DEF Written, AckedSurvives, IDs
<1>3. CASE UNCHANGED vars
  BY <1>3, <1>1 DEF vars, historyVars, boundVars
<1>4. CASE Restart
  <2>1. mem' \in Activated(Imported(disk)) /\ disk' = mem' /\ acked' = acked
        /\ unbacked' = unbacked
    BY <1>4 DEF Restart, historyVars
  <2>2. disk.accounts \subseteq mem'.accounts
    BY <2>1, LoadedIsConfig
  <2>3. restarts' # 0
    BY <1>4 DEF Restart
  <2> QED BY <2>1, <2>2, <2>3 DEF AckedSurvives, IDs
<1>5. ASSUME NEW h \in Handlers, Request(h) PROVE AckedSurvives'
  BY <1>5, <1>1 DEF Request, PostPAT, PostAccount, DeleteRequest, SwitchRequest, Call
<1>6. ASSUME NEW h \in Handlers, Step(h) PROVE AckedSurvives'
  <2>1. CASE SetPAT(h) \/ ActivateAccount(h) \/ ClearActiveAccount(h)
    <3>1. mem'.accounts = mem.accounts /\ disk' = disk
          /\ UNCHANGED <<acked, unbacked, restarts>>
      BY <2>1 DEF SetPAT, ActivateAccount, ClearActiveAccount, Config, historyVars, boundVars
    <3> QED BY <3>1, <1>1
  <2>2. CASE AddAccount(h)
    BY <2>2, <1>1 DEF AddAccount, WithAccount, historyVars, boundVars
  <2>3. CASE DeleteAccount(h)
    <3>1. mem'.accounts = {a \in mem.accounts : a.id # target[h]}
      BY <2>3, WithoutIsConfig DEF DeleteAccount
    <3>2. acked' = acked \ {target[h]} /\ disk' = disk /\ unbacked' = unbacked
          /\ restarts' = restarts
      BY <2>3 DEF DeleteAccount, boundVars
    <3> QED BY <3>1, <3>2 DEF AckedSurvives, IDs
  <2>4. CASE Save(h)
    <3>1. /\ disk' = mem /\ mem' = mem /\ unbacked' = unbacked \ IDs(mem)
          /\ acked' \subseteq acked \cup (IDs(mem) \cap {target[h]})
          /\ restarts' = restarts
      BY <2>4 DEF Save, Written, Acknowledge, boundVars
    <3> QED BY <3>1 DEF AckedSurvives, IDs
  <2>5. CASE SavePAT(h)
    BY <2>5, <1>2 DEF SavePAT, boundVars
  <2>6. CASE IgnoredSaveFails(h)
    <3>1. /\ disk' = disk /\ mem' = mem
          /\ unbacked' = unbacked \cup ({target[h]} \ IDs(disk))
          /\ acked' \subseteq acked \cup (IDs(mem) \cap {target[h]})
          /\ restarts' = restarts
      BY <2>6 DEF IgnoredSaveFails, Acknowledge
    <3> QED BY <3>1 DEF AckedSurvives, IDs
  <2>7. CASE SavePATFails(h) \/ SaveFails(h) \/ Lookup(h) \/ ActivateMissing(h)
               \/ AddDuplicate(h) \/ DeleteMissing(h) \/ ReadActive(h) \/ Unchanged(h)
    BY <2>7, <1>1 DEF SavePATFails, SaveFails, Lookup, ActivateMissing, AddDuplicate,
                      DeleteMissing, ReadActive, Unchanged, historyVars, boundVars
  <2> QED BY <1>6, <2>1, <2>2, <2>3, <2>4, <2>5, <2>6, <2>7 DEF Step
<1>7. CASE OtherSave
  BY <1>7, <1>2 DEF OtherSave, boundVars
<1> QED BY <1>3, <1>4, <1>5, <1>6, <1>7 DEF Next, AtRest

\* AckedSurvives: an account whose submission was answered with success is in memory
\* and in the file until it is deleted, over any number of failed saves and restarts;
\* one whose save failed unheard is in memory until the process ends or a save writes it.
THEOREM AckedSurvivesHolds == Spec => []AckedSurvives
<1>1. Init => AckedSurvives
  BY DEF Init, AckedSurvives
<1> QED BY <1>1, AckedStep, TypeInvariant, PTL DEF Spec

-------------------------------------------------------------------------------
(* Clearing the mirror.                                                    *)

ClearPath == {"savePAT", "readActive", "clear"}

\* An empty mirror beside an active account has a handler about to clear it.
ClearingInv ==
  failures = 0 /\ restarts = 0 /\ mem.pat = NoToken /\ mem.active # NoID =>
    \E h \in Handlers : pc[h] \in ClearPath /\ token[h] = NoToken

\* A step keeps a handler about to clear the active account of an empty mirror.
LEMMA ClearingStep == TypeInv /\ ClearingInv /\ [Next]_vars => ClearingInv'
<1> DEFINE Clearer == \E h \in Handlers : pc[h] \in ClearPath /\ token[h] = NoToken
<1> SUFFICES ASSUME TypeInv, ClearingInv, [Next]_vars,
                    failures' = 0, restarts' = 0, mem'.pat = NoToken, mem'.active # NoID
             PROVE  Clearer'
  BY DEF ClearingInv
<1> USE TokenAssumption
<1> USE DEF TypeInv, TypeOK
<1>1. \A n \in Nat : n + 1 # 0
  OBVIOUS
<1>2. ASSUME NEW h \in Handlers, failures' = failures, restarts' = restarts,
             mem'.pat = mem.pat, mem'.active = mem.active, pc[h] \notin ClearPath,
             \A g \in Handlers \ {h} : pc'[g] = pc[g] /\ token'[g] = token[g]
      PROVE  Clearer'
  BY <1>2 DEF ClearingInv
<1>3. CASE UNCHANGED vars
  BY <1>3 DEF vars, handlerVars, boundVars, ClearingInv
<1>4. CASE Restart
  BY <1>1, <1>4 DEF Restart
<1>5. ASSUME NEW h \in Handlers, Request(h) PROVE Clearer'
  BY <1>5, <1>2 DEF Request, PostPAT, PostAccount, DeleteRequest, SwitchRequest, Call, Go,
                    ClearPath
<1>6. ASSUME NEW h \in Handlers, Step(h) PROVE Clearer'
  <2>1. CASE SetPAT(h)
    <3>1. token[h] = NoToken /\ pc'[h] = "savePAT" /\ token' = token
      BY <2>1 DEF SetPAT, Go, Config
    <3> QED BY <3>1 DEF ClearPath
  <2>2. CASE ActivateAccount(h)
    BY <2>2 DEF ActivateAccount, Config, Account
  <2>3. CASE AddAccount(h)
    <3>1. token[h] \in Tokens
      BY <2>3 DEF AddAccount, Carries
    <3>2. mem'.pat = mem.pat /\ mem'.active = mem.active
      BY <2>3, <3>1 DEF AddAccount, WithAccount
    <3> QED BY <3>2, <2>3, <1>2 DEF AddAccount, Go, ClearPath, boundVars
  <2>4. CASE DeleteAccount(h)
    <3>1. mem' \in Without(mem, target[h]) /\ mem' \in Config
      BY <2>4, WithoutIsConfig DEF DeleteAccount
    <3>2. \A a \in mem'.accounts : a.pat # NoToken
      BY <3>1 DEF Config, Account
    <3>3. mem'.pat = mem.pat /\ mem'.active = mem.active
      BY <3>1, <3>2, WithoutIsConfig
    <3> QED BY <3>3, <2>4, <1>2 DEF DeleteAccount, Go, ClearPath, boundVars
  <2>5. CASE SavePAT(h) \/ ReadActive(h)
    <3>1. mem' = mem /\ token' = token /\ failures' = failures /\ restarts' = restarts
      BY <2>5 DEF SavePAT, ReadActive, boundVars
    <3>2. PICK g \in Handlers : pc[g] \in ClearPath /\ token[g] = NoToken
      BY <3>1 DEF ClearingInv
    <3>3. pc'[g] \in ClearPath
      BY <2>5, <3>1, <3>2 DEF SavePAT, ReadActive, Go, ClearPath
    <3> QED BY <3>1, <3>2, <3>3
  <2>6. CASE ClearActiveAccount(h)
    BY <2>6 DEF ClearActiveAccount, Config
  <2>7. CASE SavePATFails(h) \/ SaveFails(h) \/ IgnoredSaveFails(h)
    BY <2>7, <1>1 DEF SavePATFails, SaveFails, IgnoredSaveFails
  <2>8. CASE Save(h) \/ Lookup(h) \/ ActivateMissing(h) \/ AddDuplicate(h)
               \/ DeleteMissing(h) \/ Unchanged(h)
    BY <2>8, <1>2 DEF Save, Lookup, ActivateMissing, AddDuplicate, DeleteMissing,
                      Unchanged, Go, Done, ClearPath, boundVars
  <2> QED BY <1>6, <2>1, <2>2, <2>3, <2>4, <2>5, <2>6, <2>7, <2>8 DEF Step
<1>7. CASE OtherSave
  BY <1>7 DEF OtherSave, handlerVars, boundVars, ClearingInv
<1> QED BY <1>3, <1>4, <1>5, <1>6, <1>7 DEF Next, AtRest

\* EmptyMirrorInactive: between requests an empty mirror never stands beside an
\* active account, as long as no save failed and nothing restarted.
THEOREM EmptyMirrorInactiveHolds == Spec => []EmptyMirrorInactive
<1>1. Init => ClearingInv
  BY DEF Init, ClearingInv, Empty
<1>2. ClearingInv => EmptyMirrorInactive
  BY DEF ClearingInv, EmptyMirrorInactive, Quiet, ClearPath
<1> QED BY <1>1, <1>2, ClearingStep, TypeInvariant, PTL DEF Spec
===============================================================================
