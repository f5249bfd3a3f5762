----------------------------- MODULE KeyRotation -----------------------------
(***************************************************************************)
(* The rotate-key action of the ceph-mon charm (src/ops_actions/           *)
(* rotate_key.py) for OSDs and managers, and what the ceph-osd charm does  *)
(* with the keys (hooks/ceph_hooks.py, mon_relation).  The action creates  *)
(* pending keys in the monitors and puts them into "pending_key" of its    *)
(* unit's bag on the OSD relation, in place of what was there.  Every host *)
(* is told, imports the keys of its own OSDs and restarts them.  Ceph      *)
(* accepts the current and the pending key of an entity and makes the      *)
(* pending one current at its first use.                                   *)
(*                                                                         *)
(* Keys are numbers, in the order in which they are created.               *)
(***************************************************************************)
EXTENDS Integers, FiniteSets

CONSTANTS
  Monitors,     \* units of ceph-mon; each runs a manager
  Rotators,     \* those on which the operator runs the action
  OSDs,
  Hosts,        \* units of ceph-osd
  HostOf,       \* where each OSD's directory is
  MaxRotations, \* bound on actions
  MaxRefreshes, \* bound on OSD-relation events at the monitors
  MaxSettings,  \* bound on changes of the OSD settings
  MaxFaults     \* bound on actions and hooks that die or fail

ASSUME RotationAssumption ==
  /\ Rotators \subseteq Monitors
  /\ OSDs \cap Monitors = {}
  /\ HostOf \in [OSDs -> Hosts]
  /\ {MaxRotations, MaxRefreshes, MaxSettings, MaxFaults} \subseteq Nat

\* What has a key: the OSDs, and the managers by the names of their units.
Entities == OSDs \cup Monitors

NoKey == 0
NoKeys == [e \in Entities |-> NoKey]

VARIABLES
  auth,     \* the current key of each entity in the monitors
  pend,     \* its pending key, or NoKey
  fresh,    \* the next key that Ceph makes
  keyring,  \* the key in each entity's keyring file
  offered,  \* "pending_key" in the bag of each monitor
  wake,     \* pairs <<h, m>>: h is owed relation-changed for m's bag
  action,   \* the rotation that runs on each monitor's unit
  hook,     \* the relation-changed hook of each host
  spent     \* how much of each bound is used

ceph == <<auth, pend, fresh>>
vars == <<auth, pend, fresh, keyring, offered, wake, action, hook, spent>>

NoAction == [pc |-> "idle", todo |-> {}, made |-> NoKeys]
NoHook == [pc |-> "idle", mon |-> "none", keys |-> NoKeys, todo |-> {},
           osd |-> "none"]
Failed(m) == [pc |-> "failed", mon |-> m, keys |-> NoKeys, todo |-> {},
              osd |-> "none"]

Init ==
  /\ auth = [e \in Entities |-> 1] /\ keyring = auth
  /\ pend = NoKeys /\ fresh = 2
  /\ offered = [m \in Monitors |-> NoKeys]
  /\ wake = {}
  /\ action = [m \in Monitors |-> NoAction]
  /\ hook = [h \in Hosts |-> NoHook]
  /\ spent = [rotations |-> 0, refreshes |-> 0, settings |-> 0, faults |-> 0]

-----------------------------------------------------------------------------
(* Ceph and systemd                                                        *)

\* A daemon starts with the key of its keyring; a pending key becomes current.
Authenticate(e) ==
  /\ IF keyring[e] = pend[e]
     THEN /\ auth' = [auth EXCEPT ![e] = pend[e]]
          /\ pend' = [pend EXCEPT ![e] = NoKey]
     ELSE UNCHANGED <<auth, pend>>
  /\ UNCHANGED fresh

\* A daemon is restarted by the operator, the system or itself.
DaemonRestarts(e) ==
  /\ Authenticate(e)
  /\ UNCHANGED <<keyring, offered, wake, action, hook, spent>>

-----------------------------------------------------------------------------
(* The action                                                              *)

Everybody(m) == {<<h, m>> : h \in Hosts}

\* "osd.<id>", "osd" for all of them, or the manager of this unit.
StartRotation(m) ==
  /\ m \in Rotators /\ action[m].pc = "idle"
  /\ spent.rotations < MaxRotations
  /\ \E S \in {{o} : o \in OSDs} \cup {OSDs, {m}} :
       action' = [action EXCEPT ![m] =
                    [pc |-> "create", todo |-> S, made |-> NoKeys]]
  /\ spent' = [spent EXCEPT !.rotations = @ + 1]
  /\ UNCHANGED <<ceph, keyring, offered, wake, hook>>

Made(m, e, key) ==
  action' = [action EXCEPT ![m] =
    [pc |-> "create", todo |-> action[m].todo \ {e},
     made |-> [action[m].made EXCEPT ![e] = key]]]

\* Mutant: the key is replaced at once, and not pending.
CreateKey_AtOnce(m) ==
  /\ action[m].pc = "create"
  /\ \E e \in action[m].todo :
       /\ auth' = [auth EXCEPT ![e] = fresh] /\ fresh' = fresh + 1
       /\ Made(m, e, fresh)
  /\ UNCHANGED <<pend, keyring, offered, wake, hook, spent>>

\* Mutant: a key that was made before is made again.
CreateKey_Again(m) ==
  /\ action[m].pc = "create"
  /\ \E e \in action[m].todo :
       /\ pend' = [pend EXCEPT ![e] = fresh]
       /\ Made(m, e, fresh)
  /\ UNCHANGED <<auth, fresh, keyring, offered, wake, hook, spent>>

\* ceph auth get-or-create-pending, one entity after the other.
CreateKey(m) ==
  /\ action[m].pc = "create"
  /\ \E e \in action[m].todo :
       IF pend[e] = NoKey
       THEN /\ pend' = [pend EXCEPT ![e] = fresh] /\ fresh' = fresh + 1
            /\ Made(m, e, fresh)
       ELSE Made(m, e, pend[e]) /\ UNCHANGED <<pend, fresh>>
  /\ UNCHANGED <<auth, keyring, offered, wake, hook, spent>>

\* The keys go into the bag, and out with the end of the action.
Offer(m) ==
  /\ action[m].pc = "create" /\ action[m].todo = {} /\ action[m].made[m] = NoKey
  /\ offered' = [offered EXCEPT ![m] = action[m].made]
  /\ wake' = IF offered' = offered THEN wake ELSE wake \cup Everybody(m)
  /\ action' = [action EXCEPT ![m] = NoAction]
  /\ UNCHANGED <<ceph, keyring, hook, spent>>

\* A manager is on the unit itself: its keyring is rewritten, then it restarts.
ReplaceKeyring(m) ==
  /\ action[m].pc = "create" /\ action[m].todo = {} /\ action[m].made[m] # NoKey
  /\ keyring' = [keyring EXCEPT ![m] = action[m].made[m]]
  /\ action' = [action EXCEPT ![m].pc = "restart"]
  /\ UNCHANGED <<ceph, offered, wake, hook, spent>>

RestartManager(m) ==
  /\ action[m].pc = "restart"
  /\ Authenticate(m)
  /\ action' = [action EXCEPT ![m] = NoAction]
  /\ UNCHANGED <<keyring, offered, wake, hook, spent>>

\* A command fails or the action dies; nothing of the bag is written.
RotationFails(m) ==
  /\ action[m].pc # "idle" /\ spent.faults < MaxFaults
  /\ action' = [action EXCEPT ![m] = NoAction]
  /\ spent' = [spent EXCEPT !.faults = @ + 1]
  /\ UNCHANGED <<ceph, keyring, offered, wake, hook>>

-----------------------------------------------------------------------------
(* Hooks of the monitors' units, which do not run during an action         *)

\* osd_relation: every event of an OSD unit clears the pending keys; other
\* data of the bag may have changed as well.
Refresh(m) ==
  /\ action[m].pc = "idle" /\ spent.refreshes < MaxRefreshes
  /\ offered' = [offered EXCEPT ![m] = NoKeys]
  /\ \/ wake' = wake \cup Everybody(m)
     \/ offered' = offered /\ UNCHANGED wake
  /\ spent' = [spent EXCEPT !.refreshes = @ + 1]
  /\ UNCHANGED <<ceph, keyring, action, hook>>

\* send_osd_settings changes the bag beside the keys.
SettingsChange(m) ==
  /\ action[m].pc = "idle" /\ spent.settings < MaxSettings
  /\ wake' = wake \cup Everybody(m)
  /\ spent' = [spent EXCEPT !.settings = @ + 1]
  /\ UNCHANGED <<ceph, keyring, offered, action, hook>>

-----------------------------------------------------------------------------
(* mon_relation on the hosts                                               *)

Local(h) == {o \in OSDs : HostOf[o] = h}

\* What a hook reads stays as it was at its beginning.
Handle(h, m) ==
  hook' = [hook EXCEPT ![h] =
    [pc |-> "running", mon |-> m, keys |-> offered[m],
     todo |-> {o \in Local(h) : offered[m][o] # NoKey}, osd |-> "none"]]

BeginChanged(h, m) ==
  /\ hook[h].pc = "idle" /\ <<h, m>> \in wake
  /\ wake' = wake \ {<<h, m>>}
  /\ Handle(h, m)
  /\ UNCHANGED <<ceph, keyring, offered, action, spent>>

Imported(h, o) ==
  hook' = [hook EXCEPT ![h] =
    [pc |-> "running", mon |-> hook[h].mon, keys |-> hook[h].keys,
     todo |-> hook[h].todo \ {o}, osd |-> o]]

\* Mutant: a keyring that is there is kept.
ImportPendingKey_Kept(h) ==
  /\ hook[h].pc = "running" /\ hook[h].osd = "none"
  /\ \E o \in hook[h].todo :
       Imported(h, o)
  /\ UNCHANGED <<ceph, keyring, offered, wake, action, spent>>

ImportPendingKey(h) ==
  /\ hook[h].pc = "running" /\ hook[h].osd = "none"
  /\ \E o \in hook[h].todo :
       /\ keyring' = [keyring EXCEPT ![o] = hook[h].keys[o]]
       /\ Imported(h, o)
  /\ UNCHANGED <<ceph, offered, wake, action, spent>>

RestartOsd(h) ==
  /\ hook[h].pc = "running" /\ hook[h].osd # "none"
  /\ Authenticate(hook[h].osd)
  /\ hook' = [hook EXCEPT ![h].osd = "none"]
  /\ UNCHANGED <<keyring, offered, wake, action, spent>>

EndChanged(h) ==
  /\ hook[h].pc = "running" /\ hook[h].osd = "none" /\ hook[h].todo = {}
  /\ hook' = [hook EXCEPT ![h] = NoHook]
  /\ UNCHANGED <<ceph, keyring, offered, wake, action, spent>>

HookDies(h) ==
  /\ hook[h].pc = "running" /\ spent.faults < MaxFaults
  /\ hook' = [hook EXCEPT ![h] = Failed(hook[h].mon)]
  /\ spent' = [spent EXCEPT !.faults = @ + 1]
  /\ UNCHANGED <<ceph, keyring, offered, wake, action>>

\* Juju runs a failed hook again before any other.
RetryChanged(h) ==
  /\ hook[h].pc = "failed"
  /\ Handle(h, hook[h].mon)
  /\ UNCHANGED <<ceph, keyring, offered, wake, action, spent>>

-----------------------------------------------------------------------------
ActionStep(m) ==
  CreateKey(m) \/ Offer(m) \/ ReplaceKeyring(m) \/ RestartManager(m)

HookStep(h) ==
  \/ \E m \in Monitors : BeginChanged(h, m)
  \/ ImportPendingKey(h) \/ RestartOsd(h) \/ EndChanged(h) \/ RetryChanged(h)

Next ==
  \/ \E m \in Monitors : \/ StartRotation(m) \/ ActionStep(m)
                         \/ RotationFails(m) \/ Refresh(m) \/ SettingsChange(m)
  \/ \E h \in Hosts : HookStep(h) \/ HookDies(h)
  \/ \E e \in Entities : DaemonRestarts(e)

Spec == Init /\ [][Next]_vars

\* Hooks and actions that run go on, and Juju delivers the events it owes.
FairSpec ==
  /\ Spec
  /\ \A h \in Hosts : WF_vars(HookStep(h))
  /\ \A m \in Monitors : WF_vars(ActionStep(m))

-----------------------------------------------------------------------------
Keys == 0 .. fresh - 1
KeyMaps == [Entities -> Keys]
Actions == [pc : {"idle", "create", "restart"}, todo : SUBSET Entities,
            made : KeyMaps]
Hooks == [pc : {"idle", "running", "failed"}, mon : Monitors \cup {"none"},
          keys : KeyMaps, todo : SUBSET OSDs, osd : OSDs \cup {"none"}]

\* Types; no key is about that Ceph has not made.
TypeOK ==
  /\ fresh \in Nat \ {0, 1}
  /\ auth \in [Entities -> Keys \ {NoKey}]
  /\ keyring \in [Entities -> Keys \ {NoKey}]
  /\ pend \in KeyMaps
  /\ \A e \in Entities : pend[e] # auth[e]
  /\ offered \in [Monitors -> KeyMaps]
  /\ wake \subseteq Hosts \X Monitors
  /\ action \in [Monitors -> Actions]
  /\ hook \in [Hosts -> Hooks]
  /\ \A h \in Hosts : hook[h].pc # "idle" => hook[h].mon \in Monitors
  /\ spent \in [rotations : Nat, refreshes : Nat, settings : Nat, faults : Nat]

\* Every keyring holds a key that Ceph accepts, the current or the pending one:
\* no delayed or repeated offer brings back a key that is out of use.
KeysUsable == \A e \in Entities : keyring[e] \in {auth[e], pend[e]}

Offered(o) == \E m \in Monitors : offered[m][o] = pend[o]

\* A pending key that is offered comes into use, unless the offer is withdrawn
\* before: cleared by an event of an OSD unit or replaced by another rotation.
RotationsFinish ==
  \A o \in OSDs : pend[o] # NoKey /\ Offered(o)
                    ~> pend[o] = NoKey \/ ~Offered(o)
=============================================================================
