--------------------------------- MODULE Broker ---------------------------------
(***************************************************************************)
(* How ceph-mon serves broker requests.  Every client unit publishes one   *)
(* request on its relation; every monitor unit is woken for it, and the    *)
(* one that is the leader of the Ceph monitors (not of the Juju            *)
(* application) carries it out and publishes the response in its own bag.  *)
(* The others ignore it, and nobody tells them later.  Relation writes are *)
(* committed when the hook exits successfully; the registry commands of    *)
(* BrokerRegistry are durable at once.  A hook that dies is run again      *)
(* before the unit sees any other event.                                   *)
(***************************************************************************)
EXTENDS BrokerRegistry

CONSTANTS
  Clients,        \* client units, each on a relation of its own
  HookClients,    \* those on the radosgw endpoint, served by ceph_hooks.py; the
                  \* others, client and mds, by ceph_client.py
  RequestsOf,     \* the requests each client may make
  FirstRequest,   \* the one it makes when it is deployed
  FirstLeader,    \* the first leader of the Ceph monitors
  JujuLeader,     \* the monitor unit that is the Juju leader
  HasMirror,      \* an rbd-mirror application is related
  HandoverWaits,  \* TRUE: the Ceph leader does not change while a request is
                  \* being carried out
  MaxChanges,     \* bound on changes of a request
  MaxElections,   \* bound on losses of the Ceph leader
  MaxCrashes,     \* bound on hooks that die
  MaxFailures,    \* bound on failing commands
  MaxUpgrades,   \* bound on upgrades of the charm
  MaxDisturbances \* bound on all of these together

(* A response names the request it answers, or none.                        *)
Response == [req : Requests \cup {None}, ok : BOOLEAN]

ASSUME BrokerAssumption ==
  /\ HookClients \subseteq Clients
  /\ RequestsOf \in [Clients -> SUBSET Requests]
  /\ \A c \in Clients : FirstRequest[c] \in RequestsOf[c]
  /\ JujuLeader \in Mons /\ FirstLeader \in Mons
  /\ None \notin Mons /\ None \notin Requests /\ None \notin Response
  /\ HasMirror \in BOOLEAN /\ HandoverWaits \in BOOLEAN
  /\ MaxChanges \in Nat /\ MaxElections \in Nat /\ MaxCrashes \in Nat
  /\ MaxFailures \in Nat /\ MaxUpgrades \in Nat /\ MaxDisturbances \in Nat

VARIABLES
  leader,       \* the leader of the Ceph monitors, None during an election
  osds,         \* enough OSDs have been bootstrapped
  bootstrapped, \* leader setting "bootstrapped-osds"
  sent,         \* committed broker_req of each client
  rsp,          \* committed broker-rsp-<client> of each monitor unit
  out,          \* responses in the uncommitted writes of each unit's hook
  tell,         \* the hook has a new nonce for its peers among them
  wake,         \* the events waiting for each unit
  event,        \* the event of the current, or of the failed, hook
  pc,           \* "idle", "run" or "failed"
  todo,         \* the clients that the hook has still to look at
  serving,      \* the client whose request the hook is carrying out
  spent         \* how much of each bound has been used

hookVars == <<out, tell, event, pc, todo, serving>>
vars == <<registryVars, job, leader, osds, bootstrapped, sent, rsp, hookVars, wake, spent>>

Disturbances == {"changes", "elections", "crashes", "failures", "upgrades"}
Events == Clients \cup {"refresh", "upgrade"}

Spend(what, limit) ==
  /\ spent[what] < limit
  /\ spent["changes"] + spent["elections"] + spent["crashes"] + spent["failures"]
       + spent["upgrades"] < MaxDisturbances
  /\ spent' = [spent EXCEPT ![what] = @ + 1]

(* Everything is deployed together: the first requests are waiting, and the *)
(* OSDs are not there yet.                                                  *)
Init ==
  /\ RegistryInit
  /\ leader = FirstLeader
  /\ osds = FALSE /\ bootstrapped = FALSE
  /\ sent = [c \in Clients |-> FirstRequest[c]]
  /\ rsp = [m \in Mons |-> [c \in Clients |-> None]]
  /\ out = [m \in Mons |-> [c \in Clients |-> None]]
  /\ tell = [m \in Mons |-> FALSE]
  /\ wake = [m \in Mons |-> Clients]
  /\ event = [m \in Mons |-> None]
  /\ pc = [m \in Mons |-> "idle"]
  /\ todo = [m \in Mons |-> {}]
  /\ serving = [m \in Mons |-> None]
  /\ spent = [d \in Disturbances |-> 0]

WakeAll(ms, e) == wake' = [m \in Mons |-> IF m \in ms THEN wake[m] \cup {e} ELSE wake[m]]

--------------------------------------------------------------------------------
(* The hooks of the monitor units *)

(* ready_for_service: the Juju leader counts the OSDs, the others rely on   *)
(* the flag that it sets.                                                   *)
ReadyForService(m) == bootstrapped \/ (m = JujuLeader /\ osds)

(* A client's own event concerns that client alone; any other makes the     *)
(* unit go through all its relations.                                       *)
Targets(e) == IF e \in Clients THEN {e} ELSE Clients

(* The hook of event e begins.  The leader setting is durable at once, and  *)
(* its first change wakes the other units.                                  *)
Run(m, e) ==
  /\ pc' = [pc EXCEPT ![m] = "run"]
  /\ event' = [event EXCEPT ![m] = e]
  /\ todo' = [todo EXCEPT ![m] = IF ReadyForService(m) THEN Targets(e) ELSE {}]
  /\ bootstrapped' = ReadyForService(m)
  /\ LET told == IF ReadyForService(m) /\ ~bootstrapped THEN Mons \ {m} ELSE {}
     IN wake' = [n \in Mons |-> IF n = m THEN wake[n] \ {e}
                                ELSE IF n \in told THEN wake[n] \cup {"refresh"}
                                ELSE wake[n]]
  /\ UNCHANGED <<registryVars, job, leader, osds, sent, rsp, out, tell, serving, spent>>

BeginHook(m) == pc[m] = "idle" /\ \E e \in wake[m] : Run(m, e)

RetryHook(m) == pc[m] = "failed" /\ Run(m, event[m])

(* The next client the hook looks at: notify_relations goes before          *)
(* notify_clients.                                                          *)
Considers(m, c) ==
  /\ pc[m] = "run" /\ job[m] = None
  /\ c \in todo[m]
  /\ c \in HookClients \/ todo[m] \cap HookClients = {}
  /\ todo' = [todo EXCEPT ![m] = @ \ {c}]

(* Mutant: any response for this client will do.                            *)
AlreadyTreated_Any(m, c) == c \in HookClients /\ event[m] # "upgrade" /\ rsp[m][c] # None

(* req_already_treated: this unit's own response is for that request.  An   *)
(* upgrade forces; ceph_client.py forgets its results in every dispatch.    *)
AlreadyTreated(m, c) ==
  /\ c \in HookClients
  /\ event[m] # "upgrade"
  /\ rsp[m][c] # None /\ rsp[m][c].req = sent[c]

ToServe(m, c) == leader = m /\ ~AlreadyTreated(m, c)

IgnoreRequest(m, c) ==
  /\ Considers(m, c)
  /\ ~ToServe(m, c)
  /\ UNCHANGED <<registryVars, job, leader, osds, bootstrapped, sent, rsp, out,
                 tell, wake, event, pc, serving, spent>>

ServeRequest(m, c) ==
  /\ Considers(m, c)
  /\ ToServe(m, c)
  /\ StartJob(m, sent[c])
  /\ serving' = [serving EXCEPT ![m] = c]
  /\ UNCHANGED <<registryVars, leader, osds, bootstrapped, sent, rsp, out, tell,
                 wake, event, pc, spent>>

(* One command of the request.                                              *)
RunCommand(m) ==
  /\ Command(m)
  /\ UNCHANGED <<leader, osds, bootstrapped, sent, rsp, hookVars, wake, spent>>

FailCommand(m) ==
  /\ CommandFails(m)
  /\ Spend("failures", MaxFailures)
  /\ UNCHANGED <<leader, osds, bootstrapped, sent, rsp, hookVars, wake>>

(* The response of process_requests.  Where an operation raised, it is the  *)
(* one made in the except clause, which does not carry the request's id.    *)
Answer(j) == [req |-> IF j.ret = "raised" THEN None ELSE j.req, ok |-> j.ret = "ok"]

(* The request is over: its response goes to the hook's writes, and where   *)
(* pools are mirrored the peers are to look at their relations again.       *)
Respond(m) ==
  LET c == serving[m]
  IN /\ At(m, "reply")
     /\ out' = [out EXCEPT ![m][c] = Answer(job[m])]
     /\ tell' = [tell EXCEPT ![m] = @ \/ HasMirror]
     /\ job' = [job EXCEPT ![m] = None]
     /\ serving' = [serving EXCEPT ![m] = None]
     /\ UNCHANGED <<registryVars, leader, osds, bootstrapped, sent, rsp, wake,
                    event, pc, todo, spent>>

DropWrites(m) ==
  /\ out' = [out EXCEPT ![m] = [c \in Clients |-> None]]
  /\ tell' = [tell EXCEPT ![m] = FALSE]

(* The hook exits and Juju commits its writes.                              *)
Commit(m) ==
  /\ pc[m] = "run" /\ job[m] = None /\ todo[m] = {}
  /\ rsp' = [rsp EXCEPT ![m] =
               [c \in Clients |-> IF out[m][c] # None THEN out[m][c] ELSE @[c]]]
  /\ IF tell[m] THEN WakeAll(Mons \ {m}, "refresh") ELSE UNCHANGED wake
  /\ DropWrites(m)
  /\ pc' = [pc EXCEPT ![m] = "idle"]
  /\ event' = [event EXCEPT ![m] = None]
  /\ UNCHANGED <<registryVars, job, leader, osds, bootstrapped, sent, todo,
                 serving, spent>>

(* The hook dies, between two commands of a request or elsewhere.           *)
Crash(m) ==
  /\ pc[m] = "run"
  /\ Spend("crashes", MaxCrashes)
  /\ pc' = [pc EXCEPT ![m] = "failed"]
  /\ job' = [job EXCEPT ![m] = None]
  /\ serving' = [serving EXCEPT ![m] = None]
  /\ todo' = [todo EXCEPT ![m] = {}]
  /\ DropWrites(m)
  /\ UNCHANGED <<registryVars, leader, osds, bootstrapped, sent, rsp, wake, event>>

--------------------------------------------------------------------------------
(* The environment *)

(* A client asks for something else: the request is not the one it has      *)
(* sent, so send_request_if_needed publishes it.                            *)
ChangeRequest(c) ==
  /\ \E r \in RequestsOf[c] \ {sent[c]} : sent' = [sent EXCEPT ![c] = r]
  /\ Spend("changes", MaxChanges)
  /\ WakeAll(Mons, c)
  /\ UNCHANGED <<registryVars, job, leader, osds, bootstrapped, rsp, hookVars>>

(* The OSDs report on their relation, which wakes every monitor unit.       *)
OsdsBootstrapped ==
  /\ ~osds
  /\ osds' = TRUE
  /\ WakeAll(Mons, "refresh")
  /\ UNCHANGED <<registryVars, job, leader, bootstrapped, sent, rsp, hookVars, spent>>

(* upgrade-charm on one unit carries all requests out again.                *)
UpgradeCharm(m) ==
  /\ WakeAll({m}, "upgrade")
  /\ Spend("upgrades", MaxUpgrades)
  /\ UNCHANGED <<registryVars, job, leader, osds, bootstrapped, sent, rsp, hookVars>>

(* The Ceph monitors elect a leader among themselves; is_leader is false on *)
(* every unit meanwhile.                                                    *)
LoseLeader ==
  /\ leader # None
  /\ HandoverWaits => Busy = {}
  /\ leader' = None
  /\ Spend("elections", MaxElections)
  /\ UNCHANGED <<registryVars, job, osds, bootstrapped, sent, rsp, hookVars, wake>>

ElectLeader(m) ==
  /\ leader = None
  /\ leader' = m
  /\ UNCHANGED <<registryVars, job, osds, bootstrapped, sent, rsp, hookVars, wake, spent>>

HookStep(m) ==
  \/ BeginHook(m) \/ RetryHook(m)
  \/ \E c \in Clients : IgnoreRequest(m, c) \/ ServeRequest(m, c)
  \/ RunCommand(m) \/ Respond(m) \/ Commit(m)

Environment ==
  \/ \E c \in Clients : ChangeRequest(c)
  \/ OsdsBootstrapped \/ LoseLeader
  \/ \E m \in Mons : UpgradeCharm(m) \/ ElectLeader(m) \/ Crash(m) \/ FailCommand(m)

Next == (\E m \in Mons : HookStep(m)) \/ Environment

Spec == Init /\ [][Next]_vars

(* Juju runs every hook to its end, and an election is concluded.           *)
FairSpec ==
  /\ Spec
  /\ \A m \in Mons : WF_vars(HookStep(m))
  /\ WF_vars(\E m \in Mons : ElectLeader(m))

--------------------------------------------------------------------------------
(* Correctness *)

(* Every variable has its type.                                             *)
TypeOK ==
  /\ RegistryTypeOK
  /\ leader \in Mons \cup {None}
  /\ osds \in BOOLEAN /\ bootstrapped \in BOOLEAN
  /\ sent \in [Clients -> Requests]
  /\ rsp \in [Mons -> [Clients -> Response \cup {None}]]
  /\ out \in [Mons -> [Clients -> Response \cup {None}]]
  /\ tell \in [Mons -> BOOLEAN]
  /\ wake \in [Mons -> SUBSET Events]
  /\ event \in [Mons -> Events \cup {None}]
  /\ pc \in [Mons -> {"idle", "run", "failed"}]
  /\ todo \in [Mons -> SUBSET Clients]
  /\ serving \in [Mons -> Clients \cup {None}]
  /\ spent \in [Disturbances -> Nat]

OpsOf(r) == {Ops[r][i] : i \in DOMAIN Ops[r]}

(* The requests that some monitor unit says it has carried out.             *)
Granted == {r \in Requests :
              \E m \in Mons, c \in Clients : rsp[m][c] = [req |-> r, ok |-> TRUE]}

(* An answer of success vouches for the whole request, although it speaks   *)
(* of the last operation only: its pool exists, and what the others asked   *)
(* of the registry is recorded there.                                       *)
AnswersTruthful ==
  \A r \in Granted :
    LET last == Ops[r][Len(Ops[r])]
    IN /\ ~IsGrant(last) => last.pool \in pools
       /\ \A op \in OpsOf(r) : op.group # None =>
            IF IsGrant(op) THEN KeyOf(op) \in services[op.service]
                           ELSE op.pool \in groups[KeyOf(op)].pools

(* What groups are for: once one client has been told that its key is in a  *)
(* group, and another that its pool is, the key can use the pool, in        *)
(* whichever order they asked, whatever hook died in between, and however   *)
(* often a request is carried out again.                                    *)
GrantedAccess ==
  \A r, q \in Granted :
    \A grant \in OpsOf(r), create \in OpsOf(q) :
      (/\ IsGrant(grant) /\ ~IsGrant(create)
       /\ create.group # None /\ KeyOf(grant) = KeyOf(create))
      => create.pool \in caps[grant.service]

(* A service recorded as a user of a group is listed by the group: only     *)
(* then does a pool added later reach its key.                              *)
GroupsListMembers ==
  \A s \in Services : \A k \in services[s] : s \in groups[k].services

(* No key reaches a pool that none of its groups contains.                  *)
NoExcessAccess ==
  \A s \in Services : caps[s] \subseteq UNION {groups[k].pools : k \in services[s]}

(* "Returns a response dict containing the exit code (non-zero if any       *)
(* operation failed": a request about to be answered with success had no    *)
(* failing command.                                                         *)
ErrorsReported ==
  \A m \in Mons : At(m, "reply") /\ job[m].failed => job[m].ret # "ok"

(* Once the OSDs are there every request is answered, by a response that    *)
(* carries its id, unless the client changes it first.  This needs the Ceph *)
(* monitors to keep their leader, since a request that a new leader ignored *)
(* before is left to chance, and operations that raise nothing.             *)
RequestsAnswered ==
  \A c \in Clients : \A r \in RequestsOf[c] :
    (osds /\ sent[c] = r)
      ~> \/ \E m \in Mons : rsp[m][c] # None /\ rsp[m][c].req = r
         \/ sent[c] # r
================================================================================
