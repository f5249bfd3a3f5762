----------------------------- MODULE BrokerRegistry -----------------------------
(***************************************************************************)
(* How the Ceph broker (charms_ceph/broker.py) carries a request out.  A   *)
(* request is a list of operations, and an operation a list of monitor     *)
(* commands.  Groups of pools and the services that use them are kept in   *)
(* the monitors' config-key store, as whole JSON values that are read,     *)
(* changed and written back; the capabilities of a service's key are       *)
(* computed from them and set by another command.  Nothing makes these     *)
(* commands atomic: a hook may die between any two of them, each may fail, *)
(* and a second monitor unit may run its own in between.                   *)
(*                                                                         *)
(* The operations kept are create-pool (replicated or erasure) and         *)
(* add-permissions-to-key, those that touch the registry.  Lists of pools  *)
(* and services are sets; permissions other than access are left out.      *)
(***************************************************************************)
EXTENDS Naturals, Sequences

CONSTANTS
  Mons,         \* the ceph-mon units
  Services,     \* cephx clients: the owners of keys
  Pools,
  Groups,       \* group names as requests give them
  Namespaces,   \* group-namespaces
  None,
  Requests,     \* broker requests, named by the hash of their operations
  Ops,          \* the operations of each request
  MayFail       \* the kinds of failure considered, a subset of FailureKinds

FailureKinds == {"read",    \* config-key get fails, and passes for "no such key"
                 "caps",    \* auth caps fails: logged only
                 "return",  \* an operation returns an error response
                 "raise"}   \* an operation raises

(* Group keys: the name, the namespace put before it once, or twice.        *)
GroupKeys ==
  {<<g>> : g \in Groups} \cup {<<n, g>> : n \in Namespaces, g \in Groups}
    \cup {<<n, m, g>> : n \in Namespaces, m \in Namespaces, g \in Groups}

(* create-pool names a pool and perhaps a group, add-permissions-to-key a   *)
(* service and a group.                                                     *)
Operation ==
  [op : {"create-pool"}, pool : Pools, service : {None},
   group : Groups \cup {None}, ns : Namespaces \cup {None}]
  \cup [op : {"add-permissions-to-key"}, pool : {None}, service : Services,
        group : Groups, ns : Namespaces \cup {None}]

ASSUME RegistryAssumption ==
  /\ None \notin Groups
  /\ Ops \in [Requests -> Seq(Operation)]
  /\ \A r \in Requests : Ops[r] # << >>
  /\ MayFail \subseteq FailureKinds

VARIABLES
  groups,     \* cephx.groups.*: the pools and services of each group
  services,   \* cephx.services.*: the group keys of each service
  caps,       \* the pools that Ceph lets each service's key use
  pools,      \* the pools that exist
  job         \* per monitor unit, the request it is carrying out

registryVars == <<groups, services, caps, pools>>

Group == [pools : SUBSET Pools, services : SUBSET Services]

(* get_group of a key that is not there.                                    *)
EmptyGroup == [pools |-> {}, services |-> {}]

Job == [req : Requests, at : Nat, group : Group, names : SUBSET GroupKeys,
        todo : SUBSET Services, who : Services \cup {None}, perm : SUBSET Pools,
        step : {"op", "saveGroup", "saveService", "build", "caps", "pool", "reply"},
        ret : {"none", "ok", "error", "raised"}, failed : BOOLEAN]

RegistryInit ==
  /\ groups = [k \in GroupKeys |-> EmptyGroup]
  /\ services = [s \in Services |-> {}]
  /\ caps = [s \in Services |-> {}]
  /\ pools = {}
  /\ job = [m \in Mons |-> None]

At(m, step) == job[m] # None /\ job[m].step = step

CurrentOp(m) == Ops[job[m].req][job[m].at]

IsGrant(op) == op.op = "add-permissions-to-key"

KeyOf(op) == IF op.ns = None THEN <<op.group>> ELSE <<op.ns, op.group>>

(* Mutant: the loop ends at the first operation.                            *)
OpDone_First(m, ret) == [job[m] EXCEPT !.step = "reply", !.ret = ret]

(* The loop of process_requests_v1: ret holds the result of the last        *)
(* operation only, and an operation that returned an error does not end it. *)
OpDone(m, ret) ==
  IF job[m].at < Len(Ops[job[m].req])
    THEN [job[m] EXCEPT !.at = @ + 1, !.step = "op", !.ret = ret,
                        !.group = EmptyGroup, !.names = {}]
    ELSE [job[m] EXCEPT !.step = "reply", !.ret = ret,
                        !.group = EmptyGroup, !.names = {}]

(* process_requests on m begins.                                            *)
StartJob(m, r) ==
  job' = [job EXCEPT ![m] =
            [req |-> r, at |-> 1, step |-> "op", group |-> EmptyGroup, names |-> {},
             todo |-> {}, who |-> None, perm |-> {}, ret |-> "none",
             failed |-> FALSE]]

(* An operation begins by reading its group, and a grant its service too.   *)
BeginOp(m) ==
  LET op == CurrentOp(m)
  IN /\ At(m, "op")
     /\ job' = [job EXCEPT ![m] =
                  IF op.group = None
                    THEN [@ EXCEPT !.step = "pool"]
                    ELSE [@ EXCEPT !.step = "saveGroup",
                                   !.group = groups[KeyOf(op)],
                                   !.names = IF IsGrant(op) THEN services[op.service]
                                                            ELSE {}]]
     /\ UNCHANGED registryVars

(* monitor_key_get returns None when its command fails: the group, or the   *)
(* service, is taken for a new one.                                         *)
ReadFails(m) ==
  LET op == CurrentOp(m)
  IN /\ At(m, "op") /\ op.group # None
     /\ \E g \in {groups[KeyOf(op)], EmptyGroup},
           n \in {IF IsGrant(op) THEN services[op.service] ELSE {}, {}} :
          job' = [job EXCEPT ![m].step = "saveGroup", ![m].group = g,
                             ![m].names = n, ![m].failed = TRUE]
     /\ UNCHANGED registryVars

Enrolled_Anew(m) ==   \* Mutant: the group starts from nothing.
  LET op == CurrentOp(m)
  IN IF IsGrant(op) THEN [EmptyGroup EXCEPT !.services = {op.service}]
                    ELSE [EmptyGroup EXCEPT !.pools = {op.pool}]

Enrolled_Both(m) ==   \* Mutant: the requester's key goes in with its pool.
  LET op == CurrentOp(m)
  IN [job[m].group EXCEPT !.services = @ \cup {op.service},
                          !.pools = IF IsGrant(op) THEN @ ELSE @ \cup {op.pool}]

(* The group as the operation changes it.                                   *)
Enrolled(m) ==
  LET op == CurrentOp(m)
  IN IF IsGrant(op) THEN [job[m].group EXCEPT !.services = @ \cup {op.service}]
                    ELSE [job[m].group EXCEPT !.pools = @ \cup {op.pool}]

NextStep_KeysLater(m, todo) ==   \* Mutant: a new pool reaches no key.
  IF IsGrant(CurrentOp(m))
    THEN IF todo # {} THEN [job[m] EXCEPT !.step = "build", !.todo = todo]
                      ELSE OpDone(m, "ok")
    ELSE [job[m] EXCEPT !.step = "pool", !.todo = {}]

(* Where an operation goes when the keys in todo are still to be updated.   *)
NextStep(m, todo) ==
  CASE todo # {} -> [job[m] EXCEPT !.step = "build", !.todo = todo]
    [] todo = {} /\ IsGrant(CurrentOp(m)) -> OpDone(m, "ok")
    [] OTHER -> [job[m] EXCEPT !.step = "pool", !.todo = {}]

(* save_group.  A pool added to a group has to reach the keys of all the    *)
(* services that the group lists.                                           *)
SaveGroup(m) ==
  LET op == CurrentOp(m)
  IN /\ At(m, "saveGroup")
     /\ groups' = [groups EXCEPT ![KeyOf(op)] = Enrolled(m)]
     /\ job' = [job EXCEPT ![m] =
                  IF IsGrant(op) THEN [job[m] EXCEPT !.step = "saveService"]
                                 ELSE NextStep(m, job[m].group.services)]
     /\ UNCHANGED <<services, caps, pools>>

SaveService_Never(m) ==   \* Mutant: the service is changed in memory only.
  LET op == CurrentOp(m)
      names == job[m].names \cup {KeyOf(op)}
  IN /\ At(m, "saveService")
     /\ job' = [job EXCEPT ![m] =
                  [NextStep(m, {op.service}) EXCEPT !.names = names]]
     /\ UNCHANGED registryVars

(* save_service: the service's groups as read, and the new one.             *)
SaveService(m) ==
  LET op == CurrentOp(m)
      names == job[m].names \cup {KeyOf(op)}
  IN /\ At(m, "saveService")
     /\ services' = [services EXCEPT ![op.service] = names]
     /\ job' = [job EXCEPT ![m] =
                  [NextStep(m, {op.service}) EXCEPT !.names = names]]
     /\ UNCHANGED <<groups, caps, pools>>

(* _build_service_groups prepends the namespace to the recorded group name, *)
(* which for a namespaced group has it already.                             *)
LookupKey(k, ns) == IF ns = None THEN k ELSE <<ns>> \o k

(* The groups are read, and the pools of the service's key computed.  A     *)
(* grant uses the service it has in memory, create-pool reads each one.     *)
BuildPermissions(m) ==
  LET op == CurrentOp(m)
  IN /\ At(m, "build")
     /\ \E s \in job[m].todo :
          LET names == IF IsGrant(op) THEN job[m].names ELSE services[s]
              found == {LookupKey(k, op.ns) : k \in names}
          IN job' = [job EXCEPT ![m].step = "caps", ![m].who = s,
                                ![m].perm = UNION {groups[k].pools : k \in found}]
     /\ UNCHANGED registryVars

CapsSet(m) ==
  [NextStep(m, job[m].todo \ {job[m].who}) EXCEPT !.who = None, !.perm = {}]

(* ceph auth caps replaces all the capabilities of the key.                 *)
SetCaps(m) ==
  /\ At(m, "caps")
  /\ caps' = [caps EXCEPT ![job[m].who] = job[m].perm]
  /\ job' = [job EXCEPT ![m] = CapsSet(m)]
  /\ UNCHANGED <<groups, services, pools>>

(* ... and its failure is logged and forgotten.                             *)
SetCapsFails(m) ==
  /\ At(m, "caps")
  /\ job' = [job EXCEPT ![m] = [CapsSet(m) EXCEPT !.failed = TRUE]]
  /\ UNCHANGED registryVars

(* pool.create() unless the pool exists, and pool.update().                 *)
CreatePool(m) ==
  /\ At(m, "pool")
  /\ pools' = pools \cup {CurrentOp(m).pool}
  /\ job' = [job EXCEPT ![m] = OpDone(m, "ok")]
  /\ UNCHANGED <<groups, services, caps>>

(* create-pool returns an error (no such profile, a missing parameter),     *)
(* after it has enrolled the pool.                                          *)
OpReturnsError(m) ==
  /\ At(m, "pool")
  /\ job' = [job EXCEPT ![m] = [OpDone(m, "error") EXCEPT !.failed = TRUE]]
  /\ UNCHANGED registryVars

(* A command that writes the registry or creates a pool raises, or a value  *)
(* in the operation has the wrong type: the request ends at once, and what  *)
(* answers it is made in the except clause.                                 *)
OpRaises(m) ==
  /\ job[m] # None
  /\ job[m].step \in {"op", "saveGroup", "saveService", "pool"}
  /\ job' = [job EXCEPT ![m].step = "reply", ![m].ret = "raised", ![m].failed = TRUE,
                        ![m].group = EmptyGroup, ![m].names = {}]
  /\ UNCHANGED registryVars

Command(m) ==
  \/ BeginOp(m) \/ SaveGroup(m) \/ SaveService(m)
  \/ BuildPermissions(m) \/ SetCaps(m) \/ CreatePool(m)

CommandFails(m) ==
  \/ "read" \in MayFail /\ ReadFails(m)
  \/ "caps" \in MayFail /\ SetCapsFails(m)
  \/ "return" \in MayFail /\ OpReturnsError(m)
  \/ "raise" \in MayFail /\ OpRaises(m)

Busy == {m \in Mons : job[m] # None}

RegistryTypeOK ==
  /\ groups \in [GroupKeys -> Group]
  /\ services \in [Services -> SUBSET GroupKeys]
  /\ caps \in [Services -> SUBSET Pools]
  /\ pools \subseteq Pools
  /\ job \in [Mons -> Job \cup {None}]
================================================================================
