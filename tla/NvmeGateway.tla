------------------------------ MODULE NvmeGateway ------------------------------
(***************************************************************************)
(* The NVMe-oF gateways (ceph-nvme).  Each unit runs an SPDK target, which *)
(* keeps everything in memory, and a proxy that configures it: the proxy   *)
(* carries out one request at a time, first on its target and then in the  *)
(* global map, a RADOS object that the proxies of all units update by      *)
(* compare and swap.  A proxy that starts initialises its target, which a  *)
(* target allows once, and restores the endpoints that the map lists under *)
(* its node id.  The actions of the charm are sequences of requests to the *)
(* proxies of several units.                                               *)
(*                                                                         *)
(* Left out: discovery referrals, listeners' addresses, the registration   *)
(* of the Ceph cluster (it is there), answers that come after the caller's *)
(* timeout, and SPDK commands that fail for reasons of their own.          *)
(***************************************************************************)
EXTENDS Naturals

CONSTANTS
  Units,
  Endpoints,      \* the NQNs of subsystems
  Hosts,          \* the NQNs of hosts
  Anyone,            \* the word "any" in the place of a host
  Keys,           \* DH-CHAP keys
  KeyName,        \* the name under which SPDK lists a key
  NoKey,
  Absent,         \* not a guest
  None,
  MaxActions,     \* bound on the operator's actions
  MaxRenders,     \* bound on config-changed per unit
  MaxDisturbances \* bound on config-changed and on processes that die

Guests == Hosts \cup {Anyone}
Access == [Guests -> Keys \cup {KeyName, NoKey, Absent}]
Nobody == [g \in Guests |-> Absent]

ASSUME GatewayAssumption ==
  /\ Anyone \notin Hosts /\ NoKey \notin Keys /\ Absent \notin Keys
  /\ KeyName \notin Keys /\ NoKey # Absent /\ KeyName \notin {NoKey, Absent}
  /\ MaxActions \in Nat /\ MaxRenders \in Nat /\ MaxDisturbances \in Nat

VARIABLES
  map,       \* the global map: per endpoint, the nodes that serve it and its guests
  config,    \* the node id in the configuration file of each unit
  id,        \* the node id that each proxy has read when it started
  alive,     \* the proxy of the unit runs
  initialised, \* a proxy has initialised the target that runs: the one that
             \* runs now is connected to it
  subs,      \* the target's subsystems: per endpoint, its guests
  files,     \* the key files of each unit
  task,      \* the request each proxy is carrying out
  act,       \* the action that the charm of each unit is running
  offered,   \* what the unit offered when it last answered a request (history)
  spent      \* how much of each bound has been used

unitVars == <<alive, initialised, subs, files, id>>
vars == <<map, config, unitVars, task, act, offered, spent>>

(* node_id() makes a new one each time.                                     *)
Nodes == Units \X (0..MaxRenders)

Entry == [units : SUBSET Nodes, guests : Access]
NewEntry == [units |-> {}, guests |-> Nobody]

Methods == {"create", "remove", "find", "join", "host_add", "host_del"}

Rpc == [method : Methods, e : Endpoints, guest : Guests, key : Keys \cup {KeyName, NoKey}]

Task == [by : Units, rpc : Rpc, step : {"target", "read", "write"},
         copy : [Endpoints -> Entry \cup {None}], current : BOOLEAN]

Act == [kind : {"create", "delete", "join", "add", "del", "reset"},
        e : Endpoints, guest : Guests, key : Keys \cup {NoKey},
        stage : {"own", "peers", "find", "look", "any", "hosts", "refer",
                 "back", "remove", "clear", "restart"},
        units : SUBSET Units, peer : Units, guests : Access,
        endpoints : SUBSET Endpoints, created : BOOLEAN, joined : BOOLEAN,
        answer : {"none", "wait", "ok", "empty", "error"}]

(* None is none of the values it stands beside.                             *)
ASSUME NoneAssumption ==
  /\ None \notin Entry /\ None \notin Access /\ None \notin Task
  /\ None \notin Act /\ None \notin Units

NodeOf_Name(u) == u   \* Mutant: the unit is listed by its name.

NodeOf(u) == <<u, id[u]>>

Init ==
  /\ map = [e \in Endpoints |-> None]
  /\ config = [u \in Units |-> 0]
  /\ id = [u \in Units |-> 0]
  /\ alive = [u \in Units |-> TRUE]
  /\ initialised = [u \in Units |-> TRUE]
  /\ subs = [u \in Units |-> [e \in Endpoints |-> None]]
  /\ files = [u \in Units |-> [e \in Endpoints |-> [g \in Guests |-> None]]]
  /\ task = [u \in Units |-> None]
  /\ act = [u \in Units |-> None]
  /\ offered = [u \in Units |-> [e \in Endpoints |-> None]]
  /\ spent = [actions |-> 0, disturbances |-> 0]

--------------------------------------------------------------------------------
(* The proxy carries out a request *)

(* The request is over and its sender, if it is still there, has the answer.*)
Reply(v, answer) ==
  /\ task' = [task EXCEPT ![v] = None]
  /\ act' = [act EXCEPT ![task[v].by].answer = answer]

AtTarget(v, method) ==
  /\ task[v] # None /\ task[v].step = "target" /\ task[v].rpc.method = method

Sub(v) == subs[v][task[v].rpc.e]
File(v) == files[v][task[v].rpc.e][task[v].rpc.guest]

(* The target has been changed; the map follows.                            *)
ToMap(v) ==
  /\ task' = [task EXCEPT ![v].step = "read"]
  /\ UNCHANGED <<map, config, alive, initialised, id, act, offered, spent>>

Refused(v) ==
  /\ Reply(v, "error")
  /\ UNCHANGED <<map, config, unitVars, offered, spent>>

(* ProxyCreateEndpoint: the bdev, the subsystem, its namespace and listener,*)
(* undone when one of them fails, as they do when the endpoint is there.    *)
CreateEndpoint(v) ==
  /\ AtTarget(v, "create") /\ initialised[v] /\ Sub(v) = None
  /\ subs' = [subs EXCEPT ![v][task[v].rpc.e] = Nobody]
  /\ UNCHANGED files
  /\ ToMap(v)

(* _expand_remove; the key files of the endpoint stay.                      *)
RemoveEndpoint(v) ==
  /\ AtTarget(v, "remove") /\ initialised[v] /\ Sub(v) # None
  /\ subs' = [subs EXCEPT ![v][task[v].rpc.e] = None]
  /\ UNCHANGED files
  /\ ToMap(v)

(* ProxyAddHost refuses a key when the file of the host has another one.    *)
KeyClash(v) ==
  /\ task[v].rpc.guest # Anyone /\ task[v].rpc.key # NoKey
  /\ File(v) \notin {None, task[v].rpc.key}

(* The key goes to its file and the host to the subsystem.  SPDK leaves a   *)
(* host that is a guest already as it is.                                   *)
AddHost(v) ==
  LET r == task[v].rpc
      key == IF r.guest = Anyone THEN NoKey ELSE r.key
  IN /\ AtTarget(v, "host_add") /\ initialised[v] /\ Sub(v) # None /\ ~KeyClash(v)
     /\ subs' = [subs EXCEPT ![v][r.e][r.guest] = IF @ = Absent THEN key ELSE @]
     /\ files' = IF key = NoKey THEN files
                                ELSE [files EXCEPT ![v][r.e][r.guest] = key]
     /\ ToMap(v)

(* ProxyRemoveHost.  What follows it, _post_host_del, only defines a        *)
(* function: the map is not touched.                                        *)
DelHost(v) ==
  LET r == task[v].rpc
  IN /\ AtTarget(v, "host_del") /\ initialised[v] /\ Sub(v) # None
     /\ r.guest = Anyone \/ Sub(v)[r.guest] # Absent
     /\ subs' = [subs EXCEPT ![v][r.e][r.guest] = Absent]
     /\ files' = [files EXCEPT ![v][r.e][r.guest] = None]
     /\ Reply(v, "ok")
     /\ offered' = [offered EXCEPT ![v] = subs'[v]]
     /\ UNCHANGED <<map, config, alive, initialised, id, spent>>

(* find and join: the endpoint is looked up, and referrals added.           *)
LookUp(v) ==
  LET r == task[v].rpc
  IN /\ task[v] # None /\ task[v].step = "target" /\ initialised[v]
     /\ r.method \in {"find", "join"}
     /\ task' = [task EXCEPT ![v] = None]
     /\ act' = [act EXCEPT ![task[v].by].answer =
                             IF r.method = "find" /\ Sub(v) = None THEN "empty" ELSE "ok",
                           ![task[v].by].guests =
                             IF r.method = "find" /\ Sub(v) # None THEN Sub(v) ELSE @]
     /\ UNCHANGED <<map, config, unitVars, offered, spent>>

(* The errors of the requests above, and of any once the target has been    *)
(* replaced under the proxy.                                                *)
TargetRefuses(v) ==
  LET r == task[v].rpc
  IN /\ task[v] # None /\ task[v].step = "target"
     /\ \/ ~initialised[v]
        \/ r.method = "create" /\ Sub(v) # None
        \/ r.method \in {"remove", "host_add", "host_del"} /\ Sub(v) = None
        \/ r.method = "host_add" /\ KeyClash(v)
        \/ r.method = "host_del" /\ Sub(v) # None /\ r.guest # Anyone /\ Sub(v)[r.guest] = Absent
     /\ Refused(v)

(* get_global_map, with the version of what it read.                        *)
ReadMap(v) ==
  /\ task[v] # None /\ task[v].step = "read"
  /\ task' = [task EXCEPT ![v].step = "write", ![v].copy = map, ![v].current = TRUE]
  /\ UNCHANGED <<map, config, unitVars, act, offered, spent>>

Recorded_NewGuestOnly(v) ==   \* Mutant: a host added is the only one.
  LET r == task[v].rpc
      entry == task[v].copy[r.e]
  IN CASE r.method = "create" ->
            IF entry = None THEN [NewEntry EXCEPT !.units = {NodeOf(v)}]
                            ELSE [entry EXCEPT !.units = @ \cup {NodeOf(v)}]
       [] r.method = "remove" /\ entry # None -> [entry EXCEPT !.units = @ \ {NodeOf(v)}]
       [] r.method = "host_add" /\ entry # None ->
            [entry EXCEPT !.guests = [Nobody EXCEPT ![r.guest] = r.key]]
       [] OTHER -> entry

(* The functions that update_map applies: the entry of the endpoint as it   *)
(* becomes.  An entry outlives the last unit that serves it, with guests.   *)
Recorded(v) ==
  LET r == task[v].rpc
      entry == task[v].copy[r.e]
  IN CASE r.method = "create" ->
            IF entry = None THEN [NewEntry EXCEPT !.units = {NodeOf(v)}]
                            ELSE [entry EXCEPT !.units = @ \cup {NodeOf(v)}]
       [] r.method = "remove" /\ entry # None -> [entry EXCEPT !.units = @ \ {NodeOf(v)}]
       [] r.method = "host_add" /\ entry # None -> [entry EXCEPT !.guests[r.guest] = r.key]
       [] OTHER -> entry

(* Mutant: the version is not asserted.                                     *)
MapUnchanged_Any(v) == TRUE

MapUnchanged(v) == task[v].current

(* operate_write_op: the version is still the one read, and other readers   *)
(* will find that it is no longer.                                          *)
WriteMap(v) ==
  /\ task[v] # None /\ task[v].step = "write" /\ MapUnchanged(v)
  /\ map' = [task[v].copy EXCEPT ![task[v].rpc.e] = Recorded(v)]
  /\ task' = [u \in Units |->
                IF u = v THEN None
                ELSE IF task[u] = None THEN None
                ELSE [task[u] EXCEPT !.current = FALSE]]
  /\ act' = [act EXCEPT ![task[v].by].answer = "ok"]
  /\ offered' = [offered EXCEPT ![v] = subs[v]]
  /\ UNCHANGED <<config, unitVars, spent>>

(* ... or it is not, and update_map begins again.                           *)
WriteConflict(v) ==
  /\ task[v] # None /\ task[v].step = "write" /\ ~MapUnchanged(v)
  /\ task' = [task EXCEPT ![v].step = "read"]
  /\ UNCHANGED <<map, config, unitVars, act, offered, spent>>

ProxyStep(v) ==
  \/ CreateEndpoint(v) \/ RemoveEndpoint(v) \/ AddHost(v) \/ DelHost(v)
  \/ LookUp(v) \/ TargetRefuses(v) \/ ReadMap(v) \/ WriteMap(v) \/ WriteConflict(v)

--------------------------------------------------------------------------------
(* The actions of the charm *)

(* The charm of u asks the proxy of v, which takes one request at a time.   *)
(* A proxy that is down does not answer, and the caller times out.  What is *)
(* still to be done is noted in a.                                          *)
Ask(u, v, a, method, e, guest, key) ==
  /\ act[u].answer = "none"
  /\ IF alive[v]
       THEN /\ task[v] = None
            /\ task' = [task EXCEPT ![v] =
                 [by |-> u, step |-> "target", copy |-> [x \in Endpoints |-> None],
                  current |-> FALSE,
                  rpc |-> [method |-> method, e |-> e, guest |-> guest, key |-> key]]]
            /\ act' = [act EXCEPT ![u] = [a EXCEPT !.answer = "wait"]]
       ELSE /\ act' = [act EXCEPT ![u] = [a EXCEPT !.answer = "error"]]
            /\ UNCHANGED task
  /\ UNCHANGED <<map, config, unitVars, offered, spent>>

InStage(u, stage) == act[u] # None /\ act[u].stage = stage

MethodOf(kind) ==
  CASE kind \in {"create", "join"} -> "create"
    [] kind = "add" -> "host_add"
    [] kind = "del" -> "host_del"

(* The unit itself comes first, ...                                         *)
AskSelf(u) ==
  LET a == act[u]
  IN /\ InStage(u, "own")
     /\ Ask(u, u, a, MethodOf(a.kind), a.e, a.guest, a.key)

(* ... then the peers, whose answers do not matter.                         *)
AskPeer(u) ==
  LET a == act[u]
  IN /\ InStage(u, "peers")
     /\ \E v \in a.units : Ask(u, v, [a EXCEPT !.units = @ \ {v}],
                               MethodOf(a.kind), a.e, a.guest, a.key)

(* delete-endpoint and join-endpoint first look on the unit itself.         *)
FindHere(u) == InStage(u, "find") /\ Ask(u, u, act[u], "find", act[u].e, Anyone, NoKey)

(* join-endpoint goes through the peers that serve the endpoint: it creates *)
(* it here as the first of them describes it, ...                           *)
FindAtPeer(u) ==
  LET a == act[u]
  IN /\ InStage(u, "look")
     /\ \E v \in a.units : Ask(u, v, [a EXCEPT !.units = @ \ {v}, !.peer = v],
                               "find", a.e, Anyone, NoKey)

(* ... with its guests.  A key is passed on as SPDK lists it: by its name.  *)
CopyHost(u) ==
  LET a == act[u]
      key(g) == IF a.guests[g] = NoKey THEN NoKey ELSE KeyName
  IN /\ InStage(u, "hosts")
     /\ \E g \in Hosts : /\ a.guests[g] # Absent
                         /\ Ask(u, u, [a EXCEPT !.guests[g] = Absent],
                                "host_add", a.e, g, key(g))

(* Where any host is allowed the others are not copied.                     *)
CopyAny(u) == InStage(u, "any") /\ Ask(u, u, act[u], "host_add", act[u].e, Anyone, NoKey)

(* Each of the peers is made to refer to this unit, and this one to it.     *)
Refer(u) == InStage(u, "refer") /\ Ask(u, act[u].peer, act[u], "join", act[u].e, Anyone, NoKey)

ReferBack(u) == InStage(u, "back") /\ Ask(u, u, act[u], "join", act[u].e, Anyone, NoKey)

RemoveHere(u) == InStage(u, "remove") /\ Ask(u, u, act[u], "remove", act[u].e, Anyone, NoKey)

(* reset-target removes the endpoints of the unit one by one, ...           *)
Clear(u) ==
  /\ InStage(u, "clear")
  /\ \E e \in act[u].endpoints :
       Ask(u, u, [act[u] EXCEPT !.endpoints = @ \ {e}], "remove", e, Anyone, NoKey)

Restored_WithGuests(u) ==   \* Mutant: an endpoint without guests is skipped.
  [e \in Endpoints |->
     IF /\ map[e] # None /\ <<u, config[u]>> \in map[e].units
        /\ map[e].guests # Nobody
       THEN [g \in Guests |-> IF g = Anyone \/ map[e].guests[g] = Absent THEN Absent ELSE NoKey]
       ELSE None]

(* The endpoints that the map of the moment lists under the node of u, as   *)
(* the proxy restores them.  A guest is read from the field dhchap_key of   *)
(* its entry, which no writer sets: a host comes back without its key, and  *)
(* "any" does not come back.                                                *)
Restored(u) ==
  [e \in Endpoints |->
     IF map[e] # None /\ <<u, config[u]>> \in map[e].units
       THEN [g \in Guests |-> IF g = Anyone \/ map[e].guests[g] = Absent THEN Absent ELSE NoKey]
       ELSE None]

(* Both services are stopped and started: the target is a new one, and what *)
(* the proxy was doing is lost.  An action that u was running is over.      *)
ServicesRestart(u) ==
  /\ alive' = [alive EXCEPT ![u] = FALSE]
  /\ initialised' = [initialised EXCEPT ![u] = FALSE]
  /\ subs' = [subs EXCEPT ![u] = [e \in Endpoints |-> None]]
  /\ LET by == IF task[u] = None THEN None ELSE task[u].by
     IN act' = [w \in Units |->
                  IF w = u THEN None
                  ELSE IF w = by THEN [act[w] EXCEPT !.answer = "error"]
                  ELSE act[w]]
  /\ task' = [task EXCEPT ![u] = None]
  /\ offered' = [offered EXCEPT ![u] = IF task[u] = None THEN @ ELSE None]
  /\ UNCHANGED <<map, config, id, files>>

(* ... and restarts both services.                                          *)
ResetTarget(u) ==
  /\ InStage(u, "restart")
  /\ ServicesRestart(u)
  /\ UNCHANGED spent

Goto(a, stage) == [a EXCEPT !.stage = stage, !.answer = "none"]

(* join-endpoint goes on to the next peer.  If there is none and no peer    *)
(* has been joined, it undoes what it has created.                          *)
NextPeer(a) ==
  CASE a.units # {} -> Goto(a, "look")
    [] a.units = {} /\ a.created /\ ~a.joined -> Goto(a, "remove")
    [] OTHER -> None

(* What the action does after an answer; None when it ends.                 *)
After(a) ==
  LET ok == a.answer = "ok"
  IN CASE a.stage = "own" /\ a.kind # "join" ->
            IF ok /\ a.units # {} THEN Goto(a, "peers") ELSE None
       [] a.stage = "own" /\ a.kind = "join" ->
            IF ~ok THEN None
            ELSE Goto([a EXCEPT !.created = TRUE],
                      CASE a.guests[Anyone] # Absent -> "any"
                        [] a.guests = Nobody -> "refer"
                        [] OTHER -> "hosts")
       [] a.stage = "any" -> Goto(a, "refer")
       [] a.stage = "peers" -> IF a.units # {} THEN Goto(a, "peers") ELSE None
       [] a.stage = "find" /\ a.kind = "delete" -> IF ok THEN Goto(a, "remove") ELSE None
       [] a.stage = "find" /\ a.kind = "join" -> IF ok THEN None ELSE NextPeer(a)
       [] a.stage = "look" ->
            CASE ok -> Goto(a, IF a.created THEN "refer" ELSE "own")
              [] a.answer = "empty" -> NextPeer(a)
              [] OTHER -> IF a.created THEN NextPeer(a) ELSE None
       [] a.stage = "hosts" ->
            CASE ~ok -> Goto(a, "remove")
              [] a.guests # Nobody -> Goto(a, "hosts")
              [] OTHER -> Goto(a, "refer")
       [] a.stage = "refer" -> IF ok THEN Goto(a, "back") ELSE NextPeer(a)
       [] a.stage = "back" -> NextPeer([a EXCEPT !.joined = @ \/ ok])
       [] a.stage = "clear" ->
            IF a.endpoints # {} THEN Goto(a, "clear") ELSE Goto(a, "restart")
       [] OTHER -> None

Proceed(u) ==
  /\ act[u] # None /\ act[u].answer \notin {"none", "wait"}
  /\ act' = [act EXCEPT ![u] = After(act[u])]
  /\ UNCHANGED <<map, config, unitVars, task, offered, spent>>

CharmStep(u) ==
  \/ AskSelf(u) \/ AskPeer(u) \/ FindHere(u) \/ FindAtPeer(u) \/ CopyHost(u)
  \/ CopyAny(u) \/ Refer(u) \/ ReferBack(u) \/ RemoveHere(u) \/ Clear(u) \/ ResetTarget(u)
  \/ Proceed(u)

(* An operator runs an action, one at a time on each unit.                  *)
Begin(u, kind, stage, e, guest, key, units, endpoints) ==
  /\ act[u] = None
  /\ spent.actions < MaxActions
  /\ spent' = [spent EXCEPT !.actions = @ + 1]
  /\ act' = [act EXCEPT ![u] =
       [kind |-> kind, stage |-> stage, e |-> e, guest |-> guest, key |-> key,
        units |-> units, peer |-> u, guests |-> Nobody, endpoints |-> endpoints,
        created |-> FALSE, joined |-> FALSE, answer |-> "none"]]
  /\ UNCHANGED <<map, config, unitVars, task, offered>>

Peers(u) == Units \ {u}

(* The NQN of a new endpoint is a new uuid.                                 *)
Fresh(e) ==
  /\ map[e] = None
  /\ \A v \in Units : subs[v][e] = None
  /\ \A v \in Units : act[v] # None => act[v].e # e

CreateEndpointAction(u) ==
  \E e \in Endpoints, ps \in SUBSET Peers(u) :
    Fresh(e) /\ Begin(u, "create", "own", e, Anyone, NoKey, ps, {})

DeleteEndpointAction(u) ==
  \E e \in Endpoints : Begin(u, "delete", "find", e, Anyone, NoKey, {}, {})

JoinEndpointAction(u) ==
  /\ Peers(u) # {}
  /\ \E e \in Endpoints : Begin(u, "join", "find", e, Anyone, NoKey, Peers(u), {})

AddHostAction(u) ==
  \E e \in Endpoints, g \in Guests, k \in Keys \cup {NoKey} :
    (g = Anyone => k = NoKey) /\ Begin(u, "add", "own", e, g, k, Peers(u), {})

DeleteHostAction(u) ==
  \E e \in Endpoints, g \in Guests : Begin(u, "del", "own", e, g, NoKey, Peers(u), {})

(* reset-target begins with the list of the unit's endpoints.               *)
ResetTargetAction(u) ==
  LET es == {e \in Endpoints : subs[u][e] # None}
  IN /\ alive[u] /\ initialised[u] /\ task[u] = None
     /\ \E e \in Endpoints :
          Begin(u, "reset", IF es = {} THEN "restart" ELSE "clear", e, Anyone, NoKey, {}, es)

(* The actions pause and resume, which ask no proxy for anything.           *)
PauseAndResume(u) ==
  /\ act[u] = None
  /\ spent.actions < MaxActions
  /\ spent' = [spent EXCEPT !.actions = @ + 1]
  /\ ServicesRestart(u)

OperatorAction(u) ==
  \/ CreateEndpointAction(u) \/ DeleteEndpointAction(u) \/ JoinEndpointAction(u)
  \/ AddHostAction(u) \/ DeleteHostAction(u) \/ ResetTargetAction(u)
  \/ PauseAndResume(u)

--------------------------------------------------------------------------------
(* Processes that die, and the configuration *)

Disturbance ==
  /\ spent.disturbances < MaxDisturbances
  /\ spent' = [spent EXCEPT !.disturbances = @ + 1]

(* The proxy dies, in the middle of a request or not.  The target goes on   *)
(* with what it has.                                                        *)
ProxyDies(u) ==
  /\ alive[u]
  /\ Disturbance
  /\ alive' = [alive EXCEPT ![u] = FALSE]
  /\ task' = [task EXCEPT ![u] = None]
  /\ IF task[u] = None
       THEN UNCHANGED <<act, offered>>
       ELSE /\ act' = [act EXCEPT ![task[u].by].answer = "error"]
            /\ offered' = [offered EXCEPT ![u] = None]
  /\ UNCHANGED <<map, config, initialised, subs, files, id>>

(* The target dies, and systemd starts another, which nobody configures     *)
(* while the proxy is there: the proxy does not connect a second time.      *)
TargetDies(u) ==
  /\ initialised[u]
  /\ Disturbance
  /\ initialised' = [initialised EXCEPT ![u] = FALSE]
  /\ subs' = [subs EXCEPT ![u] = [e \in Endpoints |-> None]]
  /\ UNCHANGED <<map, config, alive, files, id, task, act, offered>>

(* systemd starts the proxy, time and again until it runs.  A target that   *)
(* has been initialised refuses framework_start_init: the proxy ends before *)
(* it comes to the SIGHUP that would have cleared the target.               *)
MayStart(u) == ~alive[u] /\ ~initialised[u]

StartProxy(u) ==
  /\ MayStart(u)
  /\ alive' = [alive EXCEPT ![u] = TRUE]
  /\ initialised' = [initialised EXCEPT ![u] = TRUE]
  /\ id' = [id EXCEPT ![u] = config[u]]
  /\ subs' = [subs EXCEPT ![u] = Restored(u)]
  /\ files' = [files EXCEPT ![u] = [e \in Endpoints |-> [g \in Guests |-> None]]]
  /\ UNCHANGED <<map, config, task, act, offered, spent>>

(* One of the endpoints cannot be restored, or the map not be read: the     *)
(* proxy ends, on a target that has been initialised and has got some of    *)
(* its endpoints.                                                           *)
StartFails(u) ==
  /\ MayStart(u)
  /\ Disturbance
  /\ initialised' = [initialised EXCEPT ![u] = TRUE]
  /\ \E es \in SUBSET Endpoints :
       subs' = [subs EXCEPT ![u] =
                  [e \in Endpoints |-> IF e \in es THEN Restored(u)[e] ELSE None]]
  /\ files' = [files EXCEPT ![u] = [e \in Endpoints |-> [g \in Guests |-> None]]]
  /\ UNCHANGED <<map, config, alive, id, task, act, offered>>

(* config-changed writes the configuration file with a new node id; the     *)
(* proxy that runs does not read it.                                        *)
RenderConfig(u) ==
  /\ config[u] < MaxRenders
  /\ Disturbance
  /\ config' = [config EXCEPT ![u] = @ + 1]
  /\ UNCHANGED <<map, unitVars, task, act, offered>>

Next ==
  \E u \in Units :
    \/ ProxyStep(u) \/ CharmStep(u) \/ OperatorAction(u)
    \/ ProxyDies(u) \/ TargetDies(u) \/ StartProxy(u) \/ StartFails(u)
    \/ RenderConfig(u)

(* Proxies serve, actions go on, and systemd starts a proxy that is down    *)
(* until it comes up.                                                       *)
Spec ==
  /\ Init /\ [][Next]_vars
  /\ \A u \in Units : /\ WF_vars(ProxyStep(u)) /\ WF_vars(CharmStep(u))
                      /\ WF_vars(StartProxy(u))

--------------------------------------------------------------------------------
(* Correctness *)

(* Every variable has its type.                                             *)
TypeOK ==
  /\ map \in [Endpoints -> Entry \cup {None}]
  /\ config \in [Units -> 0..MaxRenders] /\ id \in [Units -> 0..MaxRenders]
  /\ alive \in [Units -> BOOLEAN] /\ initialised \in [Units -> BOOLEAN]
  /\ subs \in [Units -> [Endpoints -> Access \cup {None}]]
  /\ files \in [Units -> [Endpoints -> [Guests -> Keys \cup {KeyName, None}]]]
  /\ task \in [Units -> Task \cup {None}]
  /\ act \in [Units -> Act \cup {None}]
  /\ offered \in [Units -> [Endpoints -> Access \cup {None}] \cup {None}]
  /\ spent \in [{"actions", "disturbances"} -> Nat]

(* The proxy and its target are there, and no request is half done.         *)
Quiet(u) == alive[u] /\ initialised[u] /\ task[u] = None

(* The target of a unit at rest serves exactly the endpoints that the map   *)
(* lists under its node: what it will serve again when it restarts.  Two    *)
(* proxies that update the map at once, one that dies between its target    *)
(* and the map, and one that restarts do not disturb this.                  *)
ServedIsListed ==
  \A u \in Units : Quiet(u) =>
    \A e \in Endpoints :
      subs[u][e] # None <=> (map[e] # None /\ NodeOf(u) \in map[e].units)

(* Every guest that a unit at rest lets in has an entry in the map, so that *)
(* the units that restart or update the map later know of it.               *)
GuestsRecorded ==
  \A u \in Units : Quiet(u) =>
    \A e \in Endpoints : subs[u][e] # None =>
      \A g \in Guests : subs[u][e][g] # Absent => map[e].guests[g] # Absent

(* An endpoint that the map lists for a unit is served by it in the end,    *)
(* whatever dies while it is created or its services restart, unless it is  *)
(* removed, the unit gets another node id, or its proxy or its target stays *)
(* behind alone, which nothing but a restart of both repairs.               *)
EndpointsComeBack ==
  \A u \in Units, e \in Endpoints :
    LET listed == map[e] # None /\ <<u, config[u]>> \in map[e].units
    IN listed ~> (subs[u][e] # None \/ ~listed \/ alive[u] # initialised[u])

(* A proxy that dies comes back.  The comment of the constructor has it so  *)
(* also where "the proxy dies, but not SPDK" (proxy.py:220-227).            *)
ProxyComesBack == \A u \in Units : ~alive[u] ~> alive[u]

(* A unit that has restarted offers what it offered when it last answered   *)
(* a request: the same endpoints, to the same guests with the same keys.    *)
UnitResumes ==
  \A u \in Units : (Quiet(u) /\ offered[u] # None) => subs[u] = offered[u]
================================================================================
