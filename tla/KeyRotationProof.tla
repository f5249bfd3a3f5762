--------------------------- MODULE KeyRotationProof ---------------------------
(***************************************************************************)
(* Keyrings stay usable when rotations are asked for on one unit only, for *)
(* any number of hosts, OSDs, rotations and faults.                        *)
(*                                                                         *)
(* A key passes from the action to the bag, from the bag to a hook and     *)
(* from the hook to the keyring.  The invariant says that keys do not      *)
(* overtake each other on this way: what is behind a pending key is that   *)
(* key as well, or nothing.                                                *)
(***************************************************************************)
EXTENDS KeyRotation, TLAPS

OneRotator == \A m, n \in Rotators : m = n

\* Nothing moves where no rotation was asked for; an action makes keys of OSDs
\* or of its own manager, and only the former reach the bag.
Origin ==
  /\ \A m \in Monitors :
       /\ action[m].pc = "idle" => action[m] = NoAction
       /\ m \notin Rotators => action[m].pc = "idle" /\ offered[m] = NoKeys
       /\ action[m].todo \subseteq OSDs \cup {m}
       /\ \A e \in Entities : action[m].made[e] # NoKey => e \in OSDs \cup {m}
       /\ \A e \in Entities : offered[m][e] # NoKey => e \in OSDs
  /\ \A h \in Hosts : hook[h].todo \subseteq Local(h)

\* A key that an action has made is pending until it is used, and no other is
\* made in the meantime.
MadeAccepted ==
  \A m \in Monitors, e \in Entities :
    action[m].made[e] # NoKey =>
      \/ action[m].made[e] = pend[e]
      \/ action[m].made[e] = auth[e] /\ pend[e] = NoKey

\* Bags and hooks hold keys that Ceph accepts.
OffersAccepted ==
  /\ \A m \in Monitors, e \in Entities :
       offered[m][e] \in {NoKey, auth[e], pend[e]}
  /\ \A h \in Hosts : \A o \in hook[h].todo :
       /\ hook[h].keys[o] # NoKey
       /\ hook[h].keys[o] \in {auth[o], pend[o]}

\* Once a hook has read the pending key no bag offers the current one, and once
\* it is imported no hook is about to import the current one.
InOrder ==
  /\ \A h \in Hosts : \A o \in hook[h].todo :
       hook[h].keys[o] = pend[o] =>
         \A m \in Monitors : offered[m][o] \in {NoKey, pend[o]}
  /\ \A e \in Entities : keyring[e] = pend[e] =>
       /\ \A m \in Monitors : offered[m][e] \in {NoKey, pend[e]}
       /\ \A h \in Hosts : e \in hook[h].todo => hook[h].keys[e] = pend[e]

KeysInv ==
  TypeOK /\ KeysUsable /\ Origin /\ MadeAccepted /\ OffersAccepted /\ InOrder

-----------------------------------------------------------------------------
(* Types                                                                   *)

LEMMA RecordsTyped ==
  ASSUME TypeOK
  PROVE  /\ NoKeys \in KeyMaps
         /\ NoAction \in Actions
         /\ NoHook \in Hooks
         /\ \A m \in Monitors : Failed(m) \in Hooks
<1>1. NoKeys \in KeyMaps
  BY DEF NoKeys, KeyMaps, Keys, NoKey, TypeOK
<1>2. QED
  BY <1>1 DEF NoAction, NoHook, Failed, Actions, Hooks

LEMMA TypeInit == Init => TypeOK
<1> SUFFICES ASSUME Init PROVE TypeOK
  OBVIOUS
<1>1. fresh = 2 /\ Keys = 0 .. 1
  BY DEF Init, Keys
<1>2. NoKeys \in KeyMaps
  BY <1>1 DEF NoKeys, KeyMaps, NoKey
<1>3. NoAction \in Actions /\ NoHook \in Hooks
  BY <1>2 DEF NoAction, NoHook, Actions, Hooks
<1>4. QED
  BY <1>1, <1>2, <1>3 DEF Init, TypeOK, NoKeys, NoKey, NoHook

LEMMA SameKeys ==
  ASSUME UNCHANGED fresh
  PROVE  Keys' = Keys /\ KeyMaps' = KeyMaps /\ Actions' = Actions
         /\ Hooks' = Hooks
  BY DEF Keys, KeyMaps, Actions, Hooks

LEMMA MoreKeys ==
  ASSUME TypeOK, fresh' = fresh + 1
  PROVE  /\ Keys \subseteq Keys' /\ KeyMaps \subseteq KeyMaps'
         /\ Actions \subseteq Actions' /\ Hooks \subseteq Hooks'
         /\ fresh \in Keys' \ Keys
<1>1. Keys \subseteq Keys' /\ fresh \in Keys' \ Keys
  BY DEF Keys, TypeOK
<1>2. KeyMaps \subseteq KeyMaps'
  BY <1>1 DEF KeyMaps
<1>3. QED
  BY <1>1, <1>2 DEF Actions, Hooks

LEMMA AuthenticateTyped ==
  ASSUME TypeOK, NEW e \in Entities, Authenticate(e)
  PROVE  /\ fresh' = fresh
         /\ auth' \in [Entities -> Keys \ {NoKey}]
         /\ pend' \in KeyMaps
         /\ \A f \in Entities : pend'[f] # auth'[f]
<1> USE DEF TypeOK, Authenticate, KeyMaps
<1>1. CASE keyring[e] = pend[e]
  <2>1. NoKey \in Keys
    BY DEF Keys, NoKey
  <2>2. pend[e] \in Keys \ {NoKey}
    BY <1>1
  <2>3. QED
    BY <1>1, <2>1, <2>2
<1>2. CASE keyring[e] # pend[e]
  BY <1>2
<1>3. QED
  BY <1>1, <1>2

\* What an action leaves alone keeps its type with the set of keys.
LEMMA CreateKeyTyped ==
  ASSUME TypeOK, NEW m \in Monitors, CreateKey(m)
  PROVE  TypeOK'
<1>1. PICK e \in action[m].todo :
        IF pend[e] = NoKey
        THEN /\ pend' = [pend EXCEPT ![e] = fresh] /\ fresh' = fresh + 1
             /\ Made(m, e, fresh)
        ELSE Made(m, e, pend[e]) /\ UNCHANGED <<pend, fresh>>
  BY DEF CreateKey
<1>2. action[m] \in Actions
  BY DEF TypeOK
<1>3. e \in Entities /\ action[m].made \in KeyMaps
  BY <1>1, <1>2 DEF Actions
<1>4. CASE pend[e] = NoKey
  <2>1. fresh' = fresh + 1
    BY <1>1, <1>4
  <2>2. [action[m].made EXCEPT ![e] = fresh] \in KeyMaps'
    BY <1>3, <2>1, MoreKeys DEF KeyMaps
  <2>3. [pc |-> "create", todo |-> action[m].todo \ {e},
         made |-> [action[m].made EXCEPT ![e] = fresh]] \in Actions'
    BY <1>2, <2>2 DEF Actions
  <2>4. action' \in [Monitors -> Actions']
    BY <1>1, <1>4, <2>1, <2>3, MoreKeys DEF Made, TypeOK
  <2>5. /\ pend' = [pend EXCEPT ![e] = fresh]
        /\ UNCHANGED <<auth, keyring, offered, wake, hook, spent>>
    BY <1>1, <1>4 DEF CreateKey
  <2>6. pend' \in KeyMaps'
    BY <1>3, <2>1, <2>5, MoreKeys DEF KeyMaps, TypeOK
  <2>7. \A f \in Entities : pend'[f] # auth'[f]
    BY <1>3, <2>1, <2>5, MoreKeys DEF KeyMaps, TypeOK
  <2>8. hook' \in [Hosts -> Hooks'] /\ offered' \in [Monitors -> KeyMaps']
    BY <2>1, <2>5, MoreKeys DEF TypeOK
  <2>9. /\ auth' \in [Entities -> (Keys \ {NoKey})']
        /\ keyring' \in [Entities -> (Keys \ {NoKey})']
    BY <2>1, <2>5, MoreKeys DEF TypeOK, NoKey
  <2>10. fresh' \in Nat \ {0, 1}
    BY <2>1 DEF TypeOK
  <2>11. QED
    BY <2>4, <2>5, <2>6, <2>7, <2>8, <2>9, <2>10 DEF TypeOK
<1>5. CASE pend[e] # NoKey
  <2>1. /\ UNCHANGED <<auth, pend, fresh, keyring, offered, wake, hook, spent>>
        /\ Made(m, e, pend[e])
    BY <1>1, <1>5 DEF CreateKey
  <2>2. [action[m].made EXCEPT ![e] = pend[e]] \in KeyMaps
    BY <1>3 DEF KeyMaps, TypeOK
  <2>3. [pc |-> "create", todo |-> action[m].todo \ {e},
         made |-> [action[m].made EXCEPT ![e] = pend[e]]] \in Actions
    BY <1>2, <2>2 DEF Actions
  <2>4. action' \in [Monitors -> Actions]
    BY <2>1, <2>3 DEF Made, TypeOK
  <2>5. QED
    BY <2>1, <2>4, SameKeys DEF TypeOK
<1>6. QED
  BY <1>4, <1>5

LEMMA HandleTyped ==
  ASSUME TypeOK, NEW h \in Hosts, NEW m \in Monitors, Handle(h, m)
  PROVE  /\ hook' \in [Hosts -> Hooks]
         /\ \A g \in Hosts : hook'[g].pc # "idle" => hook'[g].mon \in Monitors
<1>1. offered[m] \in KeyMaps /\ Local(h) \subseteq OSDs
  BY DEF TypeOK, Local
<1>2. [pc |-> "running", mon |-> m, keys |-> offered[m],
       todo |-> {o \in Local(h) : offered[m][o] # NoKey}, osd |-> "none"]
        \in Hooks
  BY <1>1 DEF Hooks
<1>3. QED
  BY <1>2 DEF Handle, TypeOK

LEMMA ImportTyped ==
  ASSUME TypeOK, NEW h \in Hosts, ImportPendingKey(h),
         \A o \in hook[h].todo : hook[h].keys[o] # NoKey
  PROVE  TypeOK'
<1>1. PICK o \in hook[h].todo :
        keyring' = [keyring EXCEPT ![o] = hook[h].keys[o]] /\ Imported(h, o)
  BY DEF ImportPendingKey
<1>2. hook[h] \in Hooks
  BY DEF TypeOK
<1>3. o \in OSDs /\ o \in Entities /\ hook[h].keys[o] \in Keys \ {NoKey}
  BY <1>1, <1>2 DEF Hooks, KeyMaps, Entities
<1>4. [pc |-> "running", mon |-> hook[h].mon, keys |-> hook[h].keys,
       todo |-> hook[h].todo \ {o}, osd |-> o] \in Hooks
  BY <1>2, <1>3 DEF Hooks
<1>5. hook' \in [Hosts -> Hooks]
  BY <1>1, <1>4 DEF Imported, TypeOK
<1>6. \A g \in Hosts : hook'[g].pc = hook[g].pc /\ hook'[g].mon = hook[g].mon
  BY <1>1 DEF ImportPendingKey, Imported, TypeOK
<1>7. keyring' \in [Entities -> Keys \ {NoKey}]
  BY <1>1, <1>3 DEF TypeOK
<1>8. QED
  BY <1>5, <1>6, <1>7, SameKeys DEF ImportPendingKey, ceph, TypeOK

\* What a hook imports is a key.
HooksHaveKeys ==
  \A h \in Hosts : \A o \in hook[h].todo : hook[h].keys[o] # NoKey

TypeInv == TypeOK /\ HooksHaveKeys

\* Every step keeps the types.
LEMMA TypeStep == TypeInv /\ [Next]_vars => TypeOK'
<1> SUFFICES ASSUME TypeInv, [Next]_vars PROVE TypeOK'
  OBVIOUS
<1>1. TypeOK
  BY DEF TypeInv
<1> USE <1>1, SameKeys, RecordsTyped
<1>2. ASSUME NEW m \in Monitors, StartRotation(m) PROVE TypeOK'
  <2>1. PICK S \in {{o} : o \in OSDs} \cup {OSDs, {m}} :
          action' = [action EXCEPT ![m] =
                       [pc |-> "create", todo |-> S, made |-> NoKeys]]
    BY <1>2 DEF StartRotation
  <2>2. [pc |-> "create", todo |-> S, made |-> NoKeys] \in Actions
    BY <2>1 DEF Actions, Entities
  <2>3. action' \in [Monitors -> Actions]
    BY <2>1, <2>2 DEF TypeOK
  <2>4. QED
    BY <1>2, <2>3 DEF StartRotation, ceph, TypeOK
<1>3. ASSUME NEW m \in Monitors, CreateKey(m) PROVE TypeOK'
  BY <1>3, CreateKeyTyped
<1>4. ASSUME NEW m \in Monitors, Offer(m) PROVE TypeOK'
  <2>1. action[m].made \in KeyMaps
    BY DEF TypeOK, Actions
  <2>2. QED
    BY <1>4, <2>1 DEF Offer, Everybody, ceph, TypeOK
<1>5. ASSUME NEW m \in Monitors, ReplaceKeyring(m) PROVE TypeOK'
  <2>1. action[m] \in Actions
    BY DEF TypeOK
  <2>2. [action[m] EXCEPT !.pc = "restart"] \in Actions
    BY <2>1 DEF Actions
  <2>3. action' \in [Monitors -> Actions]
    BY <1>5, <2>2 DEF ReplaceKeyring, TypeOK
  <2>4. m \in Entities /\ action[m].made[m] \in Keys \ {NoKey}
    BY <1>5, <2>1 DEF ReplaceKeyring, Actions, KeyMaps, Entities
  <2>5. keyring' \in [Entities -> Keys \ {NoKey}]
    BY <1>5, <2>4 DEF ReplaceKeyring, TypeOK
  <2>6. QED
    BY <1>5, <2>3, <2>5 DEF ReplaceKeyring, ceph, TypeOK
<1>6. ASSUME NEW m \in Monitors, RestartManager(m) PROVE TypeOK'
  BY <1>6, AuthenticateTyped DEF RestartManager, TypeOK, Entities
<1>7. ASSUME NEW m \in Monitors, RotationFails(m) PROVE TypeOK'
  BY <1>7 DEF RotationFails, ceph, TypeOK
<1>8. ASSUME NEW m \in Monitors, Refresh(m) PROVE TypeOK'
  BY <1>8 DEF Refresh, Everybody, ceph, TypeOK
<1>9. ASSUME NEW m \in Monitors, SettingsChange(m) PROVE TypeOK'
  BY <1>9 DEF SettingsChange, Everybody, ceph, TypeOK
<1>10. ASSUME NEW h \in Hosts, NEW m \in Monitors, BeginChanged(h, m)
       PROVE  TypeOK'
  BY <1>10, HandleTyped DEF BeginChanged, ceph, TypeOK
<1>11. ASSUME NEW h \in Hosts, ImportPendingKey(h) PROVE TypeOK'
  BY <1>11, ImportTyped DEF TypeInv, HooksHaveKeys
<1>12. ASSUME NEW h \in Hosts, RestartOsd(h) PROVE TypeOK'
  <2>1. hook[h] \in Hooks
    BY DEF TypeOK
  <2>2. hook[h].osd \in Entities
    BY <1>12, <2>1 DEF RestartOsd, Hooks, Entities
  <2>3. [hook[h] EXCEPT !.osd = "none"] \in Hooks
    BY <2>1 DEF Hooks
  <2>4. hook' \in [Hosts -> Hooks]
    BY <1>12, <2>3 DEF RestartOsd, TypeOK
  <2>5. \A g \in Hosts : hook'[g].pc = hook[g].pc /\ hook'[g].mon = hook[g].mon
    BY <1>12, <2>1 DEF RestartOsd, TypeOK, Hooks
  <2>6. QED
    BY <1>12, <2>2, <2>4, <2>5, AuthenticateTyped DEF RestartOsd, TypeOK
<1>13. ASSUME NEW h \in Hosts, EndChanged(h) PROVE TypeOK'
  <2>1. NoHook.pc = "idle"
    BY DEF NoHook
  <2>2. QED
    BY <1>13, <2>1 DEF EndChanged, ceph, TypeOK
<1>14. ASSUME NEW h \in Hosts, HookDies(h) PROVE TypeOK'
  <2>1. hook[h].mon \in Monitors
    BY <1>14 DEF HookDies, TypeOK
  <2>2. Failed(hook[h].mon).mon \in Monitors
    BY <2>1 DEF Failed
  <2>3. QED
    BY <1>14, <2>1, <2>2 DEF HookDies, ceph, TypeOK
<1>15. ASSUME NEW h \in Hosts, RetryChanged(h) PROVE TypeOK'
  <2>1. hook[h].mon \in Monitors
    BY <1>15 DEF RetryChanged, TypeOK
  <2>2. QED
    BY <1>15, <2>1, HandleTyped DEF RetryChanged, ceph, TypeOK
<1>16. ASSUME NEW e \in Entities, DaemonRestarts(e) PROVE TypeOK'
  BY <1>16, AuthenticateTyped DEF DaemonRestarts, TypeOK
<1>17. CASE UNCHANGED vars
  BY <1>17 DEF vars, TypeOK
<1>18. QED
  BY <1>2, <1>3, <1>4, <1>5, <1>6, <1>7, <1>8, <1>9, <1>10, <1>11, <1>12,
     <1>13, <1>14, <1>15, <1>16, <1>17 DEF Next, ActionStep, HookStep

\* A hook takes up only keys that its bag has, and changes none of them.
LEMMA HooksKeepKeys == TypeInv /\ [Next]_vars => HooksHaveKeys'
<1> SUFFICES ASSUME TypeInv, [Next]_vars PROVE HooksHaveKeys'
  OBVIOUS
<1>1. hook \in [Hosts -> Hooks] /\ DOMAIN hook = Hosts
  BY DEF TypeInv, TypeOK
<1> USE DEF HooksHaveKeys, TypeInv
<1>2. ASSUME UNCHANGED hook PROVE HooksHaveKeys'
  BY <1>2
<1>3. ASSUME NEW h \in Hosts, NEW m \in Monitors, Handle(h, m)
      PROVE  HooksHaveKeys'
  BY <1>1, <1>3 DEF Handle
<1>4. ASSUME NEW h \in Hosts, RetryChanged(h) PROVE HooksHaveKeys'
  <2>1. hook[h].mon \in Monitors
    BY <1>4 DEF RetryChanged, TypeOK
  <2>2. QED
    BY <1>3, <1>4, <2>1 DEF RetryChanged
<1>5. ASSUME NEW h \in Hosts, ImportPendingKey(h) PROVE HooksHaveKeys'
  <2>1. PICK o : Imported(h, o)
    BY <1>5 DEF ImportPendingKey
  <2>2. QED
    BY <1>1, <2>1 DEF Imported
<1>6. ASSUME NEW h \in Hosts, RestartOsd(h) PROVE HooksHaveKeys'
  <2>1. \A g \in Hosts : hook'[g].todo = hook[g].todo /\ hook'[g].keys = hook[g].keys
    BY <1>1, <1>6 DEF RestartOsd, Hooks
  <2>2. QED
    BY <2>1
<1>7. ASSUME NEW h \in Hosts, EndChanged(h) \/ HookDies(h) PROVE HooksHaveKeys'
  <2>1. /\ hook'[h].todo = {}
        /\ \A g \in Hosts : g # h => hook'[g] = hook[g]
    BY <1>1, <1>7 DEF EndChanged, HookDies, NoHook, Failed
  <2>2. QED
    BY <2>1
<1>8. ASSUME NEW m \in Monitors,
             \/ StartRotation(m) \/ ActionStep(m) \/ RotationFails(m)
             \/ Refresh(m) \/ SettingsChange(m)
      PROVE  HooksHaveKeys'
  BY <1>2, <1>8 DEF StartRotation, ActionStep, CreateKey, Offer, ReplaceKeyring,
     RestartManager, RotationFails, Refresh, SettingsChange
<1>9. ASSUME NEW h \in Hosts, HookStep(h) PROVE HooksHaveKeys'
  BY <1>3, <1>4, <1>5, <1>6, <1>7, <1>9 DEF HookStep, BeginChanged
<1>10. QED
  BY <1>2, <1>7, <1>8, <1>9 DEF Next, DaemonRestarts, vars

\* No key is about that Ceph has not made, however many units rotate keys.
THEOREM RotationsTyped == Spec => []TypeOK
<1>1. Init => TypeInv
  BY TypeInit DEF Init, NoHook, TypeInv, HooksHaveKeys
<1>2. TypeInv /\ [Next]_vars => TypeInv'
  BY TypeStep, HooksKeepKeys DEF TypeInv
<1>3. QED
  BY <1>1, <1>2, PTL DEF Spec, TypeInv

-----------------------------------------------------------------------------
(* The way of a key                                                        *)

Kept == KeysUsable /\ Origin /\ MadeAccepted /\ OffersAccepted /\ InOrder

LEMMA KeysInvInit == Init => KeysInv
<1> SUFFICES ASSUME Init PROVE KeysInv
  OBVIOUS
<1>1. TypeOK
  BY TypeInit
<1>2. KeysUsable /\ Origin /\ MadeAccepted /\ OffersAccepted /\ InOrder
  BY DEF Init, NoAction, NoHook, NoKeys, NoKey, KeysUsable, Origin,
     MadeAccepted, OffersAccepted, InOrder
<1>3. QED
  BY <1>1, <1>2 DEF KeysInv

\* What the types say of single entities.
LEMMA Plain ==
  ASSUME KeysInv
  PROVE  /\ \A e \in Entities : /\ keyring[e] # NoKey /\ auth[e] # NoKey
                                /\ auth[e] # pend[e]
                                /\ auth[e] # fresh /\ keyring[e] # fresh
         /\ \A m \in Monitors, e \in Entities : offered[m][e] # fresh
         /\ \A h \in Hosts, e \in Entities : hook[h].keys[e] # fresh
         /\ \A h \in Hosts : hook[h].todo \subseteq OSDs
         /\ fresh # NoKey
         /\ DOMAIN auth = Entities /\ DOMAIN pend = Entities
         /\ DOMAIN keyring = Entities
         /\ DOMAIN action = Monitors /\ DOMAIN offered = Monitors
         /\ DOMAIN hook = Hosts
<1>1. fresh \notin Keys /\ fresh # NoKey
  BY DEF KeysInv, TypeOK, Keys, NoKey
<1>2. \A h \in Hosts : hook[h] \in Hooks
  BY DEF KeysInv, TypeOK
<1>3. \A h \in Hosts : hook[h].keys \in KeyMaps /\ hook[h].todo \subseteq OSDs
  BY <1>2 DEF Hooks
<1>4. QED
  BY <1>1, <1>3 DEF KeysInv, TypeOK, KeyMaps

LEMMA StartKeeps ==
  ASSUME KeysInv, NEW m \in Monitors, StartRotation(m)
  PROVE  Kept'
<1>1. PICK S \in {{o} : o \in OSDs} \cup {OSDs, {m}} :
        action' = [action EXCEPT ![m] =
                     [pc |-> "create", todo |-> S, made |-> NoKeys]]
  BY DEF StartRotation
<1>2. /\ m \in Rotators
      /\ UNCHANGED <<auth, pend, fresh, keyring, offered, wake, hook>>
  BY DEF StartRotation, ceph
<1>3. /\ action'[m].pc = "create" /\ action'[m].todo = S
      /\ action'[m].made = NoKeys
      /\ \A n \in Monitors : n # m => action'[n] = action[n]
  BY <1>1, Plain
<1>4. S \subseteq OSDs \cup {m}
  BY <1>1
<1>5. \A e \in Entities : NoKeys[e] = NoKey
  BY DEF NoKeys
<1>6. Origin'
  BY <1>2, <1>3, <1>4, <1>5 DEF Origin, KeysInv
<1>7. MadeAccepted'
  BY <1>2, <1>3, <1>5 DEF MadeAccepted, KeysInv
<1>8. (KeysUsable /\ OffersAccepted /\ InOrder)'
  BY <1>2 DEF KeysUsable, OffersAccepted, InOrder, KeysInv
<1>9. QED
  BY <1>6, <1>7, <1>8 DEF Kept

LEMMA CreateKeeps ==
  ASSUME KeysInv, OneRotator, NEW m \in Monitors, CreateKey(m)
  PROVE  Kept'
<1>1. PICK e \in action[m].todo :
        IF pend[e] = NoKey
        THEN /\ pend' = [pend EXCEPT ![e] = fresh] /\ fresh' = fresh + 1
             /\ Made(m, e, fresh)
        ELSE Made(m, e, pend[e]) /\ UNCHANGED <<pend, fresh>>
  BY DEF CreateKey
<1>2. UNCHANGED <<auth, keyring, offered, wake, hook>>
  BY DEF CreateKey
<1>3. /\ e \in OSDs \cup {m} /\ e \in Entities /\ action[m].pc = "create"
      /\ action[m].todo \subseteq OSDs \cup {m} /\ m \in Rotators
  BY <1>1 DEF KeysInv, Origin, CreateKey, Entities
<1>4. PICK k : /\ k = pend'[e] /\ k # NoKey /\ Made(m, e, k)
               /\ \A f \in Entities : f # e => pend'[f] = pend[f]
               /\ (pend[e] = NoKey /\ k = fresh) \/ pend'[e] = pend[e]
  BY <1>1, <1>3, Plain
<1>5. DOMAIN action[m].made = Entities
  BY DEF KeysInv, TypeOK, Actions, KeyMaps
<1>6. /\ action'[m].pc = "create" /\ action'[m].todo = action[m].todo \ {e}
      /\ action'[m].made[e] = k
      /\ \A f \in Entities : f # e => action'[m].made[f] = action[m].made[f]
      /\ \A n \in Monitors : n # m => action'[n] = action[n]
  BY <1>3, <1>4, <1>5, Plain DEF Made
<1>7. \A n \in Monitors, f \in Entities :
        n # m => action[n].made[f] = NoKey
  <2>1. \A n \in Monitors : n # m => action[n] = NoAction
    BY <1>3 DEF OneRotator, KeysInv, Origin
  <2>2. QED
    BY <2>1 DEF NoAction, NoKeys
<1>8. Origin'
  BY <1>2, <1>3, <1>6 DEF Origin, KeysInv
<1>9. MadeAccepted'
  BY <1>2, <1>4, <1>6, <1>7 DEF MadeAccepted, KeysInv
<1>10. KeysUsable'
  BY <1>2, <1>4, Plain DEF KeysUsable, KeysInv
<1>11. OffersAccepted'
  BY <1>2, <1>4, Plain DEF OffersAccepted, KeysInv, Entities
<1>12. InOrder'
  BY <1>2, <1>4, Plain DEF InOrder, KeysInv, Entities
<1>13. QED
  BY <1>8, <1>9, <1>10, <1>11, <1>12 DEF Kept

LEMMA OfferKeeps ==
  ASSUME KeysInv, NEW m \in Monitors, Offer(m)
  PROVE  Kept'
<1>1. /\ UNCHANGED <<auth, pend, fresh, keyring, hook>>
      /\ action'[m] = NoAction /\ offered'[m] = action[m].made
      /\ \A n \in Monitors : n # m => /\ action'[n] = action[n]
                                      /\ offered'[n] = offered[n]
  BY Plain DEF Offer, ceph
<1>2. /\ NoAction.pc = "idle" /\ NoAction.todo = {}
      /\ \A e \in Entities : NoAction.made[e] = NoKey
  BY DEF NoAction, NoKeys
<1>3. m \in Rotators /\ \A e \in Entities : action[m].made[e] # NoKey => e \in OSDs
  BY DEF Offer, KeysInv, Origin
<1>4. Origin'
  BY <1>1, <1>2, <1>3 DEF KeysInv, Origin
<1>5. MadeAccepted'
  BY <1>1, <1>2 DEF KeysInv, MadeAccepted
<1>6. \A e \in Entities :
        action[m].made[e] # NoKey =>
          \/ action[m].made[e] = pend[e]
          \/ action[m].made[e] = auth[e] /\ pend[e] = NoKey
  BY DEF KeysInv, MadeAccepted
<1>7. OffersAccepted'
  BY <1>1, <1>6 DEF KeysInv, OffersAccepted
<1>8. InOrder'
  BY <1>1, <1>6, Plain DEF KeysInv, InOrder, OffersAccepted, Entities
<1>9. QED
  BY <1>1, <1>4, <1>5, <1>7, <1>8 DEF Kept, KeysUsable, KeysInv

\* An action ends without an offer: nothing depends on what it had made.
LEMMA RotationFailsKeeps ==
  ASSUME KeysInv, NEW m \in Monitors, RotationFails(m)
  PROVE  Kept'
<1>1. /\ UNCHANGED <<auth, pend, fresh, keyring, offered, hook>>
      /\ action'[m] = NoAction
      /\ \A n \in Monitors : n # m => action'[n] = action[n]
  BY Plain DEF RotationFails, ceph
<1>2. /\ NoAction.pc = "idle" /\ NoAction.todo = {}
      /\ \A e \in Entities : NoAction.made[e] = NoKey
  BY DEF NoAction, NoKeys
<1>3. Origin'
  BY <1>1, <1>2 DEF KeysInv, Origin
<1>4. MadeAccepted'
  BY <1>1, <1>2 DEF KeysInv, MadeAccepted
<1>5. (KeysUsable /\ OffersAccepted /\ InOrder)'
  BY <1>1 DEF KeysInv, KeysUsable, OffersAccepted, InOrder
<1>6. QED
  BY <1>3, <1>4, <1>5 DEF Kept

LEMMA ReplaceKeyringKeeps ==
  ASSUME KeysInv, OneRotator, NEW m \in Monitors, ReplaceKeyring(m)
  PROVE  Kept'
<1>1. /\ UNCHANGED <<auth, pend, fresh, offered, hook>>
      /\ keyring'[m] = action[m].made[m] /\ action[m].made[m] # NoKey
      /\ \A e \in Entities : e # m => keyring'[e] = keyring[e]
      /\ \A n \in Monitors : n # m => action'[n] = action[n]
  BY Plain DEF ReplaceKeyring, ceph, Entities
<1>2. /\ action'[m].pc = "restart" /\ action'[m].todo = action[m].todo
      /\ action'[m].made = action[m].made
  <2>1. action[m] \in Actions
    BY DEF KeysInv, TypeOK
  <2>2. QED
    BY <2>1, Plain DEF ReplaceKeyring, Actions
<1>3. m \in Rotators /\ m \in Entities /\ m \notin OSDs
  BY RotationAssumption DEF ReplaceKeyring, KeysInv, Origin, Entities
<1>4. keyring'[m] \in {auth[m], pend[m]}
  BY <1>1, <1>3 DEF KeysInv, MadeAccepted
<1>5. /\ \A n \in Monitors : offered[n][m] = NoKey
      /\ \A h \in Hosts : m \notin hook[h].todo
  BY <1>3, Plain DEF KeysInv, Origin
<1>6. Origin'
  BY <1>1, <1>2, <1>3 DEF KeysInv, Origin
<1>7. MadeAccepted'
  BY <1>1, <1>2 DEF KeysInv, MadeAccepted
<1>8. KeysUsable'
  BY <1>1, <1>4 DEF KeysInv, KeysUsable
<1>9. OffersAccepted'
  BY <1>1 DEF KeysInv, OffersAccepted
<1>10. InOrder'
  BY <1>1, <1>5 DEF KeysInv, InOrder
<1>11. QED
  BY <1>6, <1>7, <1>8, <1>9, <1>10 DEF Kept

\* A daemon starts while keys are under way: what is behind the key that it
\* makes current is that key.
LEMMA AuthenticateKeeps ==
  ASSUME KeysInv, NEW e \in Entities, Authenticate(e),
         UNCHANGED <<keyring, offered>>,
         \A m \in Monitors, f \in Entities :
           action'[m].made[f] \in {NoKey, action[m].made[f]},
         \A h \in Hosts : /\ hook'[h].todo = hook[h].todo
                          /\ hook'[h].keys = hook[h].keys
  PROVE  (KeysUsable /\ MadeAccepted /\ OffersAccepted /\ InOrder)'
<1>1. CASE keyring[e] = pend[e]
  <2>1. /\ auth'[e] = keyring[e] /\ pend'[e] = NoKey
        /\ \A f \in Entities : f # e => auth'[f] = auth[f] /\ pend'[f] = pend[f]
    BY <1>1, Plain DEF Authenticate
  <2>2. KeysUsable'
    BY <2>1 DEF KeysInv, KeysUsable
  <2>3. MadeAccepted'
    BY <1>1, <2>1, Plain DEF KeysInv, MadeAccepted
  <2>4. OffersAccepted'
    BY <1>1, <2>1, Plain DEF KeysInv, OffersAccepted, InOrder, Entities
  <2>5. InOrder'
    BY <1>1, <2>1, Plain DEF KeysInv, OffersAccepted, InOrder, Entities
  <2>6. QED
    BY <2>2, <2>3, <2>4, <2>5
<1>2. CASE keyring[e] # pend[e]
  <2>1. UNCHANGED <<auth, pend>>
    BY <1>2 DEF Authenticate
  <2>2. QED
    BY <2>1 DEF KeysInv, KeysUsable, MadeAccepted, OffersAccepted, InOrder
<1>3. QED
  BY <1>1, <1>2

LEMMA RestartManagerKeeps ==
  ASSUME KeysInv, NEW m \in Monitors, RestartManager(m)
  PROVE  Kept'
<1>1. /\ UNCHANGED <<keyring, offered, hook>> /\ Authenticate(m)
      /\ action'[m] = NoAction
      /\ \A n \in Monitors : n # m => action'[n] = action[n]
  BY Plain DEF RestartManager
<1>2. /\ NoAction.pc = "idle" /\ NoAction.todo = {}
      /\ \A e \in Entities : NoAction.made[e] = NoKey
  BY DEF NoAction, NoKeys
<1>3. Origin'
  BY <1>1, <1>2 DEF KeysInv, Origin
<1>4. \A n \in Monitors, f \in Entities :
        action'[n].made[f] \in {NoKey, action[n].made[f]}
  BY <1>1, <1>2
<1>5. QED
  BY <1>1, <1>3, <1>4, AuthenticateKeeps DEF Kept, Entities

LEMMA DaemonRestartsKeeps ==
  ASSUME KeysInv, NEW e \in Entities, DaemonRestarts(e)
  PROVE  Kept'
BY AuthenticateKeeps DEF DaemonRestarts, Kept, Origin, KeysInv

LEMMA RestartOsdKeeps ==
  ASSUME KeysInv, NEW h \in Hosts, RestartOsd(h)
  PROVE  Kept'
<1>1. hook[h] \in Hooks
  BY DEF KeysInv, TypeOK
<1>2. hook[h].osd \in Entities /\ Authenticate(hook[h].osd)
  BY <1>1 DEF RestartOsd, Hooks, Entities
<1>3. UNCHANGED <<keyring, offered, action>>
  BY DEF RestartOsd
<1>4. \A g \in Hosts : /\ hook'[g].todo = hook[g].todo
                       /\ hook'[g].keys = hook[g].keys
  BY <1>1, Plain DEF RestartOsd, Hooks
<1>5. Origin'
  BY <1>3, <1>4 DEF KeysInv, Origin
<1>6. QED
  BY <1>2, <1>3, <1>4, <1>5, AuthenticateKeeps DEF Kept

LEMMA RefreshKeeps ==
  ASSUME KeysInv, NEW m \in Monitors, Refresh(m)
  PROVE  Kept'
<1>1. /\ UNCHANGED <<auth, pend, fresh, keyring, action, hook>>
      /\ offered'[m] = NoKeys
      /\ \A n \in Monitors : n # m => offered'[n] = offered[n]
  BY Plain DEF Refresh, ceph
<1>2. \A e \in Entities : NoKeys[e] = NoKey
  BY DEF NoKeys
<1>3. Origin'
  BY <1>1, <1>2 DEF KeysInv, Origin
<1>4. OffersAccepted'
  BY <1>1, <1>2 DEF KeysInv, OffersAccepted
<1>5. InOrder'
  BY <1>1, <1>2, Plain DEF KeysInv, InOrder, Entities
<1>6. (KeysUsable /\ MadeAccepted)'
  BY <1>1 DEF KeysInv, KeysUsable, MadeAccepted
<1>7. QED
  BY <1>3, <1>4, <1>5, <1>6 DEF Kept

\* A hook takes what its bag offers: the pending key at the most.
LEMMA HandleKeeps ==
  ASSUME KeysInv, OneRotator, NEW h \in Hosts, NEW m \in Monitors, Handle(h, m),
         UNCHANGED <<auth, pend, keyring, offered, action>>
  PROVE  Kept'
<1>1. /\ hook'[h].todo = {o \in Local(h) : offered[m][o] # NoKey}
      /\ hook'[h].keys = offered[m]
      /\ \A g \in Hosts : g # h => hook'[g] = hook[g]
  BY Plain DEF Handle
<1>2. Local(h) \subseteq OSDs /\ OSDs \subseteq Entities
  BY DEF Local, Entities
<1>3. \A o \in hook'[h].todo : m \in Rotators
  BY <1>1, <1>2 DEF KeysInv, Origin, NoKeys
<1>4. \A o \in hook'[h].todo, n \in Monitors :
        offered[n][o] \in {NoKey, offered[m][o]}
  <2>1. SUFFICES ASSUME NEW o \in hook'[h].todo, NEW n \in Monitors, n # m
                 PROVE  offered[n][o] = NoKey
    OBVIOUS
  <2>2. n \notin Rotators
    BY <1>3, <2>1 DEF OneRotator
  <2>3. QED
    BY <1>1, <1>2, <2>2 DEF KeysInv, Origin, NoKeys
<1>5. Origin'
  BY <1>1 DEF KeysInv, Origin
<1>6. OffersAccepted'
  BY <1>1, <1>2 DEF KeysInv, OffersAccepted
<1>7. InOrder'
  <2>1. ASSUME NEW g \in Hosts, NEW o \in hook'[g].todo,
               hook'[g].keys[o] = pend[o], NEW n \in Monitors
        PROVE  offered[n][o] \in {NoKey, pend[o]}
    <3>1. CASE g = h
      BY <1>1, <1>4, <2>1, <3>1
    <3>2. CASE g # h
      BY <1>1, <2>1, <3>2 DEF KeysInv, InOrder
    <3>3. QED
      BY <3>1, <3>2
  <2>2. ASSUME NEW e \in Entities, keyring[e] = pend[e], NEW g \in Hosts,
               e \in hook'[g].todo
        PROVE  hook'[g].keys[e] = pend[e]
    <3>1. CASE g = h
      BY <1>1, <2>2, <3>1 DEF KeysInv, InOrder
    <3>2. CASE g # h
      BY <1>1, <2>2, <3>2 DEF KeysInv, InOrder
    <3>3. QED
      BY <3>1, <3>2
  <2>3. QED
    BY <2>1, <2>2 DEF KeysInv, InOrder
<1>8. (KeysUsable /\ MadeAccepted)'
  BY DEF KeysInv, KeysUsable, MadeAccepted
<1>9. QED
  BY <1>5, <1>6, <1>7, <1>8 DEF Kept

LEMMA ImportKeeps ==
  ASSUME KeysInv, NEW h \in Hosts, ImportPendingKey(h)
  PROVE  Kept'
<1>1. PICK o \in hook[h].todo :
        keyring' = [keyring EXCEPT ![o] = hook[h].keys[o]] /\ Imported(h, o)
  BY DEF ImportPendingKey
<1>2. o \in OSDs /\ o \in Entities /\ HostOf[o] = h
  BY <1>1, Plain DEF KeysInv, Origin, Local, Entities
<1>3. /\ UNCHANGED <<auth, pend, offered, action>>
      /\ keyring'[o] = hook[h].keys[o]
      /\ \A e \in Entities : e # o => keyring'[e] = keyring[e]
      /\ hook'[h].todo = hook[h].todo \ {o} /\ hook'[h].keys = hook[h].keys
      /\ \A g \in Hosts : g # h => hook'[g] = hook[g]
  BY <1>1, <1>2, Plain DEF ImportPendingKey, Imported, ceph
\* No other host has this OSD.
<1>4. \A g \in Hosts : o \notin hook'[g].todo
  BY <1>2, <1>3 DEF KeysInv, Origin, Local
<1>5. /\ hook[h].keys[o] \in {auth[o], pend[o]}
      /\ hook[h].keys[o] = pend[o] =>
           \A m \in Monitors : offered[m][o] \in {NoKey, pend[o]}
  BY <1>1 DEF KeysInv, OffersAccepted, InOrder
<1>6. Origin'
  BY <1>3 DEF KeysInv, Origin
<1>7. KeysUsable'
  BY <1>3, <1>5 DEF KeysInv, KeysUsable
<1>8. OffersAccepted'
  BY <1>3 DEF KeysInv, OffersAccepted
<1>9. InOrder'
  BY <1>3, <1>4, <1>5 DEF KeysInv, InOrder
<1>10. MadeAccepted'
  BY <1>3 DEF KeysInv, MadeAccepted
<1>11. QED
  BY <1>6, <1>7, <1>8, <1>9, <1>10 DEF Kept

\* A hook that has ended or died holds no keys.
LEMMA HookOverKeeps ==
  ASSUME KeysInv, NEW h \in Hosts, EndChanged(h) \/ HookDies(h)
  PROVE  Kept'
<1>1. /\ UNCHANGED <<auth, pend, fresh, keyring, offered, action>>
      /\ hook'[h].todo = {}
      /\ \A g \in Hosts : g # h => hook'[g] = hook[g]
  BY Plain DEF EndChanged, HookDies, NoHook, Failed, ceph
<1>2. QED
  BY <1>1 DEF KeysInv, Kept, KeysUsable, Origin, MadeAccepted, OffersAccepted,
     InOrder

LEMMA KeysInvStep == ASSUME OneRotator PROVE KeysInv /\ [Next]_vars => KeysInv'
<1> SUFFICES ASSUME KeysInv, [Next]_vars PROVE Kept'
  BY TypeStep DEF KeysInv, Kept, TypeInv, HooksHaveKeys, OffersAccepted
<1>1. CASE \E m \in Monitors : \/ StartRotation(m) \/ ActionStep(m)
                               \/ RotationFails(m) \/ Refresh(m)
  BY <1>1, StartKeeps, CreateKeeps, OfferKeeps, ReplaceKeyringKeeps,
     RestartManagerKeeps, RotationFailsKeeps, RefreshKeeps DEF ActionStep
<1>2. CASE \E m \in Monitors : SettingsChange(m)
  BY <1>2 DEF SettingsChange, ceph, KeysInv, Kept, KeysUsable, Origin,
     MadeAccepted, OffersAccepted, InOrder
<1>3. ASSUME NEW h \in Hosts, NEW m \in Monitors, BeginChanged(h, m) PROVE Kept'
  BY <1>3, HandleKeeps DEF BeginChanged, ceph
<1>4. ASSUME NEW h \in Hosts, RetryChanged(h) PROVE Kept'
  <2>1. hook[h].mon \in Monitors
    BY <1>4 DEF RetryChanged, KeysInv, TypeOK
  <2>2. QED
    BY <1>4, <2>1, HandleKeeps DEF RetryChanged, ceph
<1>5. CASE \E h \in Hosts : \/ ImportPendingKey(h) \/ RestartOsd(h)
                            \/ EndChanged(h) \/ HookDies(h)
  BY <1>5, ImportKeeps, RestartOsdKeeps, HookOverKeeps
<1>6. CASE \E e \in Entities : DaemonRestarts(e)
  BY <1>6, DaemonRestartsKeeps
<1>7. CASE UNCHANGED vars
  BY <1>7 DEF vars, KeysInv, Kept, KeysUsable, Origin, MadeAccepted,
     OffersAccepted, InOrder
<1>8. QED
  BY <1>1, <1>2, <1>3, <1>4, <1>5, <1>6, <1>7 DEF Next, HookStep

\* The way of the keys and the types hold throughout.
THEOREM KeysInvariant == ASSUME OneRotator PROVE Spec => []KeysInv
<1>1. KeysInv /\ [Next]_vars => KeysInv'
  BY KeysInvStep
<1>2. QED
  BY <1>1, KeysInvInit, PTL DEF Spec

\* As long as the operator rotates keys on one unit of ceph-mon, no OSD and no
\* manager is left with a key that Ceph does not accept, whatever hooks and
\* actions die and whenever daemons restart.
THEOREM KeyringsUsable == ASSUME OneRotator PROVE Spec => []KeysUsable
BY KeysInvariant, PTL DEF KeysInv
=============================================================================
