# Models and proofs of the Ceph charms

TLA+ specifications of the parts of this repository in which several units,
hooks or daemons act on shared state, the TLC configurations that check them on
small instances, and TLAPS proofs, for instances of every size, about the
resource rollout, the broker, the NVMe-oF gateways, the release upgrade, the NFS
shares, the rotation of keys and the CPUs of the OSDs.
Paths are relative to the repository; line numbers are in `PROJECT.json` (`map`).

## 1. The system

The repository is a set of Juju charms. A charm's hooks run one at a time on
each unit, and units of the same or other applications run at the same time.
They meet in stores of different durability, and most of what can go wrong here
goes wrong between two of them:

| store | written by | durable |
|---|---|---|
| relation bags (unit and application) | `relation_set` | when the hook exits successfully; a hook that fails or dies loses its writes and is run again |
| leader settings | `leader_set` | at once |
| the unit's kv store | `unitdata.kv()`, `flush` | at once |
| the monitors' config-key store | `ceph config-key` | at once, one command at a time, no transactions |
| RADOS objects | `rados put`, write operations | at once; compare and swap only where the code asks for it |

### Components

| component | state | operations | hard behaviours | what makes it correct | modelled |
|---|---|---|---|---|---|
| resource rollout (`ceph-osd/hooks/resource_rollout.py`, `charms_ceph/rolling.py`) | requests and progress in the peer relation and in kv, one generation in the application's bag, done and failed markers in the monitors | `run`, `_request`, `_requests`, `_progress`, `check_turn`, `RollingOperation.run`, `observe` | crash between markers and relation commit, lost notifications, change of leader, joining and leaving units | one host at a time, in host order, nothing superseded, nothing forgotten | `ResourceRollout`, proved |
| broker (`charms_ceph/broker.py`) | groups and services in the config-key store, pools, key capabilities | `process_requests_v1` and its handlers | crash between commands, two leaders, swallowed failures | keys reach the pools of their groups and no others; answers tell the truth | `BrokerRegistry`, in part, proved |
| broker requests (`ceph-mon/src/ceph_hooks.py`, `ceph_client.py`, `charm.py`) | requests and answers per unit in relation bags, the flag `bootstrapped-osds` | `handle_broker_request`, `req_already_treated`, `notify_relations`, `ready_for_service` | each monitor sees each request, one serves it, the Ceph leader is not the Juju leader | every request answered | `Broker`, in part, proved |
| NVMe-oF gateway (`ceph-nvme/src`) | SPDK target in memory, key files, proxy's node id, global map in RADOS | endpoint, host and reset actions; the proxy's requests; restore at start | several proxies update one map, processes die between target and map or alone, starts fail halfway | what is served is what is listed; a restart of both services restores it | `NvmeGateway`, in part, proved |
| resource manager (`ceph-osd/hooks/resource_manager.py`, `resource_apply.py`, `resource_profiles.py`, `host_topology.py`) | claims in EPA, journal of transitions in kv, systemd drop-ins | `reconcile`, `release_osd`, `release_all`, `verify` | crash between durable steps, an EPA service that fails | a running OSD's CPUs are covered by its claim; nothing released before its OSD has stopped; what was stopped is started again | `OsdAllocation`, in part, proved; implements `CpuOwnership` |
| rolling upgrade (`charms_ceph/utils.py`) | start, alive and done markers, wall clock | `lock_and_roll`, `wait_on_previous_node`, `WatchDog` | timeouts against late starters, clock skew, failed hooks run again | no two hosts upgrade at once while both are alive; every hook ends | `RollingUpgrade`, in part, proved |
| key rotation (`ceph-mon/src/ops_actions/rotate_key.py`, `ceph-osd/hooks/ceph_hooks.py`) | pending keys in the bags of monitors | rotate action, `osd_relation`, `mon_relation` | clearing before import, several monitors' bags, offers that arrive twice or late | a keyring always holds a key that Ceph accepts; an offered key comes into use | `KeyRotation`, in part, proved |
| monitor bootstrap (`ceph-mon/src/ceph_hooks.py`) | leader settings, monitor count | `bootstrap`, `bootstrap_source`, `attempt_mon_cluster_bootstrap` | order of peers' hooks | one cluster id, quorum | planned |
| RADOS gateway multisite and S3 (`ceph-radosgw/hooks`) | realm, zones, users, leader settings | primary and secondary relation hooks, promotion | crash between creating a user and saving its secret | credentials are never lost | later |
| NFS exports (`ceph-nfs/src/ganesha.py`) | exports, index and counter as RADOS objects, exports in each Ganesha's memory | `create_share`, `delete_share`, `grant_access`, `revoke_access`, reload | death between the objects, read, modify, write without a version | the index is loadable and complete, every unit serves what was announced | `NfsShares`, in part, proved |
| RBD mirroring, CephFS, dashboard, ceph-proxy, disk actions | reactive flags, rendered files | idempotent commands, retried as a whole | little of their own (see `hazards`) | | no |

Interactions: clients ask monitors through the broker relation (`Broker` over
`BrokerRegistry`); OSD units meet in their peer relation and in the monitors'
key store (`ResourceRollout` over `RollingOperation`); the rollout calls the
resource manager as its callback, which `ResourceRollout` takes as a set of
outcomes and `OsdAllocation` spells out for one host: the outcomes "success"
and "error" of the former are `Handoff` and an error of the latter, and
`OsdRecovery` has the rollout's rule of when it is called again. The
release upgrade writes the same start, alive and done markers in the monitors'
key store as the rollout, and unlike it reads them with time limits. NVMe-oF
units meet over UDP requests to each other's proxies and in the global map, NFS
units in RADOS objects and in a nonce of their peer relation.

`charms_ceph` exists in identical copies under `ceph-osd/lib`,
`ceph-radosgw/lib` and `ceph-proxy/lib`; `charmhelpers` and `lib/charms` are
third-party.

## 2. Plan

Done:

1. `RollingOperation`, `ResourceRollout`: model, runs, proofs.
2. `BrokerRegistry`, `Broker`: model, runs, proofs.
3. `NvmeGateway`: model, run, proofs, without discovery referrals.
4. `OsdHost`, `OsdAllocation` and the abstract `CpuOwnership`, which it is
   checked to implement: model, runs, proofs of both; `OsdRecovery`: model, run.
5. `RollingUpgrade`: model, runs, proofs; it implements `ExclusiveTurns` for the
   nodes whose hook has not failed.
6. `ShareCatalogue`, `NfsShares`: model, run, proofs, the refinement among them.
7. `KeyRotation`: model, run, proofs.

To do, in this order:

8. `handle_create_cephfs` and the requests of ceph-proxy in `Broker`; referrals,
   late answers and departing peers in `NvmeGateway`.
9. Monitor bootstrap; the multisite hand-over of the RADOS gateway.

Every safety invariant of a passing run has its theorem, and so has every
refinement but `OwnershipKept`, which holds within the bounds of its run only
(section 6). Worth proving next: `TakesTurns` of `RollingUpgrade` with hooks
that fail early and at most three hosts, and what steps 8 and 9 add.

## 3. Resource rollout

### Modules

* `RollingOperation` is the marker protocol: `Completed`, `Predecessors`,
  `Admitted`, `BlockedStatus`. It knows of no Juju. `Rank` is the place of a
  unit in the sorted `(host, unit)` order.
* `ResourceRollout` is `run()` on every unit. `pc` says how far a hook is:
  `BeginHook` (the request, 68-86), `LookUnmanaged`/`LookUnfinished`/
  `LookFinished` (184-216, `Mint` freezes a generation), `HasTurn`,
  `TurnDeclined`, `TurnTimesOut` (`check_turn` and its waiting),
  `StartCallback` ... `Acknowledge` (`RollingOperation.run` with the failures
  of each of its commands), `NotifyDone`, and `Commit` or `Crash`. `wake` holds
  the events that will run a unit's handler; without one it sleeps. What Juju
  does is external: relation-changed once per changed bag of a peer (coalesced),
  none for one's own writes, retry of a failed hook before other events,
  refusal of the application's bag to a unit that is no longer leader
  (`CommitRefused`).
* `dirty` is true from an interrupted callback until one succeeds: some of the
  host's OSDs are left half restarted.
* `status` tells how a run ended. `ReconcileUnmanaged` is the callback that
  `run()` calls outside of any generation (187, 209): it does not look at the
  errors that the callback returns, so that the rollout is recorded as complete
  beside them (`resource_manager.py:1673`), which is the status "errors".
* `ResourceRolloutInv` has the inductive invariants, `ResourceRolloutProof` the
  theorems.

Left out: the branch without a peer relation (it calls the callback and returns);
the start and alive markers, which the rollout writes and never reads; the
add-disk action, which calls the same handler and is not retried when
interrupted; `update-status`, which only observes.

### Runs

Two hosts throughout, in host order, since the handoff and its repair are
between a host and its successor; a third unit enters only in the proofs, which
are for any number.

| run | bounds | shows |
|---|---|---|
| `rollout_faults` (701 443 states) | 1 configuration change, 1 crash, 1 election, 1 failure, at most 2 of them | exclusive turns, host order, the inductive invariant `TurnInv`, no generation superseded, truthful status, no host left asleep whose turn it is |
| `rollout_growth` (2 470 458) | one unit joins late or leaves, 2 configuration changes between managed and unmanaged, 1 inventory change | host order with a changing cohort, markers truthful under A, B, A, truthful status where an unmanaged profile reconciles by itself |
| `rollout_live` (416 733) | fair; 1 change, 1 crash, 1 election, at most 2 | every generation finishes, the first requests are carried out |
| `rollout_queued` | fair; 1 change, no fault | a finding, section 10 |

Two disturbances are what it takes to have a fault while another is being
repaired: a crash during the retry of a hook that lost its leadership, a failed
marker followed by a configuration change.

`CHECK_DEADLOCK FALSE`, because a system whose events are all handled rests.
Fairness is weak, on the steps of each unit's hook: Juju runs every hook to its
end and delivers every event that it owes. Nothing makes an event happen that
nobody caused, so that a missing notification is a stall.

`LeadershipSettled = TRUE` says that leadership does not come to a unit between
its reading the rollout (184) and its asking for leadership (210). Without it
`NeverSuperseded` fails (section 10): a unit reads the
bag before the former leader's generation is committed, becomes leader, and
mints a second one from what it read. The window is a few hook-tool calls wide,
Juju's leases make the order unlikely but do not exclude it, and the code does
nothing about it, although `resource_rollout.py:23` makes no exception. What the
passing runs and the theorems marked below say is therefore about behaviours
in which it does not happen.

### Proofs

From `RankAssumption`, `RolloutAssumption` and `NilAssumption` (Python's `None`
is neither a rollout nor a request nor a progress), for any number of units, any
bounds and every fault:

| theorem | says | assumes besides |
|---|---|---|
| `TypeCorrect` | `Spec => []TypeOK` | |
| `GenerationsCorrect` | `[]GenerationInv` | `LeadershipSettled` |
| `HandoffInOrder` | `[]TurnOrder` | `LeadershipSettled` |
| `InformedLeadersSupersedeNothing` | a unit publishes its generations over finished ones only | no `ElectedMidLook` of this unit |
| `GenerationsKept` | `NeverSuperseded` | no `ElectedMidLook` of any |
| `TurnInvariant` | `[]TurnInv` | `LeadershipSettled`, `FixedCohort` |
| `TurnsExclusive` | `[]Serialized` | `LeadershipSettled`, `FixedCohort` |
| `RequestInvariant` | `[]RequestInv` | |
| `MarkersTruthful` | `[]MarkerTruthful` | |
| `CompleteIsApplied` | `[]CompleteMeansApplied` | |
| `HandoffInvariant` | `[]HandoffInv` | |
| `HandoffNotLost` | `[]NoLostHandoff` | |

The difficulty is the generation that a leader has minted and begun to carry
out in a hook that Juju has not committed: nobody sees it, it may be lost, and
another leader may mint its own meanwhile. `GenerationInv` follows such
generations: identifiers are fresh (`Identifiers`), their only marks are the
minter's (`MintedMarks`), what a hook works on is the published generation or a
finished one (`Currency`), and marks follow the host order (`HostOrder`).
`TurnInv` adds why the turns are nevertheless exclusive: whoever works holds a
token that is a function of the published generation (`HasToken`), and in a
generation nobody else can see only the unit first in the order can hold it,
which is also first in every other generation, as long as generations name all
units that are still there (`Cohorts`). That is where a fixed cohort is needed; section 10 says what a
newcomer that sorts first does to it. Each step lemma has one step per action.

`GenerationsKept` needs no assumption on the constants: its condition is about
the behaviour, and names the one step that breaks the claim, leadership that
comes to a unit at `look` (`ElectedMidLook`). It follows from a statement about
each unit by itself (`InformedLeader`): a leader that was leader when it read
the rollout knows of every generation, since only the leader's hook can publish
one, and so has seen the present one finished before it minted its own.

The last five need neither condition: they hold while leadership moves inside a
unit's decision, two generations are minted from one, and the cohort grows.

`RequestInv` is about what a "done" marker is worth. A request that anybody has
of a unit, in the peer relation or frozen in a generation somebody works on, is
the unit's present one or has a smaller nonce (`Nonces`), so that equality of
identifiers is equality of requests, and a request that is yet to be made has
never been frozen. On top of that (`CarriedOut`) a mark in a generation whose
frozen request is still the unit's own, a hook past its callback, and the status
"complete" of a hook that was not lost, each stand for a request that was
carried out. The induction has to speak of every generation in use, not only of
the published one: a hook goes on with the generation it has read or minted,
whatever is published meanwhile. When a unit is
told that it is done already, the comparison with the frozen request (222)
is what the proof rests on. `CompleteMeansApplied` speaks of units that are
still there: nothing reads the status of a departed one. It does not speak of the
status "errors", with which the request has not been carried out.

`HandoffInv` is why the unit whose turn it is never sleeps for ever. Only what is
done is told (`ProgressTrue`); a hook that works on a generation it has
completed carries the news in its buffer or has failed (`Reporting`, which the
repair of 194-199 establishes after a lost hook); a hook that works on anything
but the published generation has another event waiting (`Outdated`); a unit that
sleeps has told its completion (`Told`); and a unit that sleeps unfinished, or is
about to, waits for a predecessor that has no mark or has not told of it
(`Sleepers`). The last is what a mark must not break: the mark is durable before
it is told, and by `ProgressTrue` the telling is then still to come, in a bag
that changes, and so wakes the sleeper. A unit that leaves wakes the
others instead.

No run lists these two invariants; TLC finds no violation of them with
`LeadershipSettled = FALSE` and any two disturbances either, with two units from
the start (2 092 394 states) or one of them joining late (4 553 051).

Liveness (`GenerationsFinish`, `FirstRolloutCompletes`) is beyond the prover and
stays with TLC.

## 4. Broker

### Modules

* `BrokerRegistry` carries out one request on one monitor, command by command:
  the groups and services of the config-key store are whole JSON values that
  are read, changed in memory and written back (`BeginOp`, `SaveGroup`,
  `SaveService`), the capabilities of keys are recomputed (`LookupKey`,
  `BuildPermissions`, `SetCaps`), pools are created (`CreatePool`).
  `FailureKinds` are the four ways in which a command can fail: a failed read
  that passes for an absent value, swallowed capabilities, an operation that
  returns an error, one that raises. The last is answered without the id of the
  request (`Answer`; `broker.py:136-142`), so that nobody recognises the answer.
* `Broker` is what surrounds it: requests in the bags of clients, every monitor
  woken for each, the Ceph leader serving and the others ignoring
  (`ServeRequest`, `IgnoreRequest`), answers committed with the hook, crashes
  and retries, the flag `bootstrapped-osds` and the rounds over all relations it
  sets off. A client on the radosgw endpoint goes through `ceph_hooks.py`; the
  others through `ceph_client.py`, whose record of handled requests starts empty
  in every hook.

Left out: all operations but create-pool (with a group) and
add-permissions-to-key; other permissions than to groups; creation of the cephx
key itself; the legacy `broker_rsp`; waiting for quorum; several units of one
client application.

### Runs

Two monitor units, the Ceph leader at first not the Juju leader; a gateway that
creates a pool in a group (and later a second pool outside of it) and a client
that has its key put in the group: the smallest instance in which a pool and a
key meet in a group in either order.

| run | bounds | shows |
|---|---|---|
| `broker_faults` | 1 changed request, 1 election, 1 crash, 1 failure that returns or raises, at most 2 of them | answered grants and pools meet in the key's capabilities, groups list their members, no excess access, truthful answers |
| `broker_answers` | fair; every failure but one that raises, 1 upgrade, 1 crash, 1 change, one of them; no election | every request is answered under its id |

`HandoverWaits = TRUE`: the Ceph leader does not change while a request is
being carried out. Nothing in the code enforces this; a monitor that lost its
leadership between reading and writing a group overwrites what the next one
wrote. Elections take place between requests instead. Of the failures,
`broker_faults` has the two that the code reports (`MayFail`). With a swallowed
failure of `ceph auth caps` in it `GrantedAccess` fails, and with a failed read
that passes for an empty group `AnswersTruthful` fails: the code accepts both,
and `hazards` lists them. The theorems say which of the properties needs which
of these conditions.

Fairness is weak, on the hook steps of each monitor (Juju runs hooks to their
end) and on the conclusion of elections. `RequestsAnswered` needs a settled
Ceph leader: with an election at the wrong moment each monitor may see the
request while it is not the leader. It also needs operations that do not raise.

### Proofs

`BrokerTyped` proves the types without a condition, for any monitors, clients,
requests and faults. Of it follows that no group is ever looked up under a name
outside of `GroupKeys`; the prefix that is put before a namespaced name twice
stays within the types, and section 10 has its consequences.

The four properties of `broker_faults` are proved for every instance, any number
of elections, crashes, upgrades and failures among them, each from the condition
it needs and no other. Two of the conditions are about behaviours: `Keeps`, no
step takes a pool, a member or a group from the registry, and `KeysKeep`, no step
takes a pool from a key. What ensures them is proved too.

| theorem | says | of which behaviours | of which instances |
|---|---|---|---|
| `MembersListed` | `[]GroupsListMembers` | `Keeps` | all |
| `AnswersTrue` | `[]AnswersTruthful` | `Keeps` | all |
| `AccessBounded` | `[]NoExcessAccess` | `Keeps` | `Unmixed` |
| `AccessGranted` | `[]GrantedAccess` | `Keeps`, `KeysKeep` | `NoNamespaces`, `CapsSucceed` |
| `UpdatesKept` | `[][Keeps]_vars` | all | `HandoverWaits`, `ReadsSucceed` |
| `KeysKept` | `[][KeysKeep]_vars` | all | `HandoverWaits`, `ReadsSucceed`, `NoNamespaces` |

So a registry that has lost nothing lists its members and answers truthfully
whatever the namespaces are, and although `auth caps` fails unnoticed; that is
what these two theorems add to the code's own checks. What the code does not
ensure are the premises. Two leaders at once (`HandoverWaits = FALSE`), or a
failed read of a group or a service (`broker.py:367`; charmhelpers'
`monitor_key_get` returns None), make a monitor write back a value without what
another has put there, and then each of the four fails. `Unmixed` says that no
service is granted a group with a namespace and one without: a request with a
namespace puts it before all names of the service, and a key could then get the
pools of a group of which its service is no member. `NoNamespaces` is there
because a namespaced grant gives no pools at all (section 10), `CapsSucceed`
because a failed `auth caps` is logged and forgotten.

The properties are not inductive by themselves, since they are about requests
already answered and say nothing of a request halfway through. There is an
invariant for each group of them:

* `RecordInv`: operations that were carried out stay so, whether their request
  was answered, is about to be, or is only past them (`CarriedOut`), and what a
  monitor is about to write contains what the store holds, or `Keeps` would not
  hold of its next step;
* `FreshInv`, for `UpdatesKept`: what a monitor that carries out a request has
  read is what the key store holds, since nobody else is at work;
* `BoundInv`: the permissions about to be set are pools of the recorded groups
  (`Bound`);
* `ReachInv`: of a grant and a creation in one group, whichever changes the group
  later finds what the other has put there, and which pools of a group are still
  to be brought to which of its services while the capabilities are recomputed
  one by one (`todo`);
* `CurrentInv`, for `KeysKept`: what is recomputed contains what the key has.

`RequestsAnswered` is liveness and model-checked only.

## 5. NVMe-oF gateway

`NvmeGateway` has per unit a target (`subs`, `files`), a proxy (`alive`, `id`,
`task`: the request it carries out, first on the target, then by a read and a
conditional write of the map), and the action its charm is running (`act`,
whose `stage` is the next request it will make and of whom). `initialised` says
that the target that runs has gone through `framework_start_init`, which SPDK
accepts once. The four cases of `alive` and `initialised` are a unit in service;
both stopped or new (`StartProxy` follows); a target that died under its proxy,
which keeps its dead connection; and a proxy that died, or failed to start,
beside a target it has initialised, which it can never start beside again:
`_startup_init` raises (`proxy.py:278-280`) before the constructor gets to the
SIGHUP that it has for this case (220-227). `MapUnchanged` is the assertion on
the object's version; `current` is FALSE as soon as somebody else has written.

`StartProxy` is the proxy's constructor: key files removed, node id read from the
configuration file, and the endpoints restored that the map lists under that id
(`Restored`). `StartFails` is the same constructor that ends in an exception
(234-244) with any of its endpoints on the target. `ServicesRestart` is what
reset-target and pause with resume do: both services stopped, a new target.

SPDK is modelled as `ceph-nvme/unit_tests` and the proxy use it.

Left out: discovery referrals, listeners' addresses, registering the Ceph
cluster, answers that arrive after their caller's timeout, a lasting pause,
`peers-departed`, SPDK commands that fail for reasons of their own. Lookups for
`join` therefore always find what they refer to.

| run | bounds | shows |
|---|---|---|
| `nvme_gateway` (185 913 states) | 2 units, 1 endpoint, 1 host and "any", 1 key, 3 operator actions, 1 process death, failed start or configuration change | what a target serves is what the map lists for its node, its guests are recorded, a listed endpoint comes back |

Three actions let an endpoint be created, joined by the other unit and given a
host, or be deleted and joined while the other unit changes its guests; the
conflicts of two map updates need two actions, on two units. The operator runs
one action at a time on each unit. With two disturbances (831 890 states) nothing
new appears. Fairness is weak: proxies serve, actions go on, systemd starts the
proxy until it is up (`Restart=always`, `charm.py:42-51`). `EndpointsComeBack`
excludes, explicitly, a unit whose proxy or target has been left alone
(`alive # initialised`): only a restart of both services repairs that, and then
the property speaks of it.

### Proofs

From `GatewayAssumption` and `NoneAssumption` (the values that stand for nothing
are none of the others), for any number of units, endpoints, hosts and keys, any
number of actions at once and of deaths and new node ids:

| theorem | says |
|---|---|
| `GatewayTyped` | `[]TypeOK` |
| `ServedListed` | `[]ServedIsListed` |
| `GuestsInMap` | `[]GuestsRecorded` |

The last two speak of units at rest. `GatewayInv` says what holds of a unit at
work, and why no other unit can undo it:

* what a request has changed at the target is about to be in the map
  (`Pending`): an endpoint that has been created lets nobody in yet, one that
  has been removed is gone, and for every other endpoint served and listed agree
  already (`Serving`); a guest is in the map or is the one being added
  (`Admitting`);
* a copy of the map that is still current is the map (`Copies`), so that a write
  that succeeds changes one entry, in it only the place of the writer's own node
  or one guest, and takes no other unit out of it;
* a proxy at work is asked by an action that waits for it, and no action asks
  two at a time (`Waiting`), which is why a death has one action to tell; an
  action is in a stage of its kind (`Stages`).

`Configured` says nothing of a unit whose proxy is down or whose target is not
initialised, until a proxy has started and read the map (`RestoredFacts`).
`EndpointsComeBack` is liveness and model-checked
only. What a restart does not bring back is in section 10.

## 6. CPUs of the OSDs

### Modules

* `OsdHost` is what the resource manager works on, store by store: the claims in
  EPA (`claims`, and `foreign` for other workloads), the drop-in files
  (`dropin`), what systemd has loaded of them (`loaded`), the daemons (`active`,
  `mask`) and the journal in the unit's kv store (`recs`, `trans`, `tear`,
  `restarts`, `clears`).
* `OsdAllocation` is the manager: `reconcile` with its strict and flexible
  passes, `replace_claim`, `clear_allocation`, `apply`, `release_osd`,
  `release_all`. Juju runs one hook of a unit at a time, so that there is one
  sequential process, `hook`, whose `pc` is the place in the code and whose
  `then` is where the routine it is in returns to. A step is one external call
  or one flush of the journal, because after each of them the hook can die and
  what is durable differs. Between steps the environment moves: daemons restart
  by themselves, disks fail and appear, other workloads claim and release, the
  operator changes the profile or removes a disk.
* `OsdRecovery` is `OsdAllocation` with the reason for which a reconcile begins
  (`due`). One is owed to a request: a change of the configuration or of the
  inventory, a refresh of the charm. `safe_reconcile` swallows what fails
  (`resource_manager.py:1658-1690`), and `run()` raises instead of repeating a
  request that has failed (`resource_rollout.py:227-231`; "not incidental peer
  notifications", 171-174; `RESOURCE-PROFILES.md:414-418`). Only a hook that dies
  is run again, by Juju.
* `CpuOwnership` is the promise: no CPU has two owners, and a daemon that is
  bound to CPUs is bound to CPUs its OSD owns from its start until it has
  stopped. `OwnershipKept` says that `OsdAllocation` implements it.

Profiles are constants: which are strict, and what each wants of which OSD; the
arithmetic that derives this from the charm's options and the topology is pure
and left out, as are the migration of the affinity protection, EPA's start-up
and the growth of its pool, plans that cannot be met and invalid profiles,
grants of fewer CPUs than asked for, device addresses in drop-ins, and
`verify()`, which looks for drift in a running system and changes nothing.

### Runs

Two OSDs share three CPUs, two on one NUMA node and one on the other: the
smallest host on which a strict profile takes all CPUs of a node and a flexible
one has to fall back to another.

| run | bounds | shows |
|---|---|---|
| `alloc_faults` (1 250 543 states) | 1 strict and 2 flexible profiles, 2 faults (a crash, a refused or lost call, a failed restart), 2 moves (of the profile, of disks, removals), 1 claim or release by others, 1 start from elsewhere | no claim that the journal has forgotten; a turn is acknowledged only with every OSD as recorded; an OSD that is down is remembered; a forgotten one leaves nothing |
| `alloc_live` (879 556) | fair; the same with reconciles that follow requests, no start from elsewhere | the refinement; a pending restart is carried out by the one reconcile that is owed |

`Sticky = TRUE`: EPA grants again to an OSD what it already holds if that meets
the request. `MaxStarts = 0` in `alloc_live`: nothing but the manager starts
an OSD whose claim is being replaced. What happens without these, and with more
faults and moves, is in section 10. The specification of `OsdRecovery` allows
the same steps of the manager as that of `OsdAllocation` (a new request may come
whenever none is owed), so that the refinement is checked in all of its states.

`CHECK_DEADLOCK FALSE`, since a unit whose stop hook has succeeded is gone.
Fairness is weak: a hook that runs goes on (`Works`), and a reconcile that is
owed to a request, or to a hook that died, takes place (`Reconciles`). No
request has to come: after a failed call nothing brings the next reconcile, and
`RestartsFinish` says nothing of a request one of whose calls has failed
(`due = "failed"`). What it says is that one request suffices if no call of its
own fails, whatever an earlier request or a dying hook has left. It says nothing
of an OSD while a strict profile is configured, because then it fails
(section 10).

### Proofs

`OwnershipHeld` and `CpusExclusive`, for any sets of OSDs and CPUs, are about
the abstract specification: disjoint claims that cover every mask are inductive
there, and exclusive use of the CPUs follows. They reach the manager
through the refinement, which is model-checked only: it holds within the bounds
of the run and not beyond them (section 10).

About the manager itself, for any OSDs, CPUs, nodes, profiles and wants, any
number of faults, moves, claims by others and starts from elsewhere, and
whether or not EPA is sticky, from `HostAssumption` and `BoundsAssumption`:

| theorem | says |
|---|---|
| `AllocationTyped` | `[]TypeOK` |
| `DownRemembered` | `[]DownIsRemembered` |
| `HandoffHonest` | `[](hook.profile # Unmanaged => HandoffTruthful)` |
| `ClaimsRemembered` | `[]ClaimsJournaled`, if `[][ListingHolds]_vars` |
| `ForgottenClean` | `[](clears = {} => ForgottenIsClean)`, if `[][ListingHolds]_vars` |

Neither of the two properties says anything while the hook is at work on an OSD,
so neither is inductive. `AllocInv` adds

* what the stores say of every OSD at every moment (`Everywhere`): without a
  restart in the journal, systemd has loaded the OSD's drop-in and its daemon
  runs with it, unless the removal of the drop-in is on its way (`Enforcing`);
  an OSD that is down is down for a reason (`Down`); a drop-in belongs to an OSD
  that the journal knows;
* what has been achieved, for the OSD at hand, when the hook gets to a place
  (`Here`): before an OSD is stopped its restart or its removal is journaled
  (`Journaling`), between a grant and its record the drop-in, the loaded unit and
  the daemon follow the granted CPUs one after the other (`Binding`), a cleared
  drop-in is gone from the disk, then from systemd, then from the daemon
  (`Unbinding`);
* what a reconcile leaves behind for the OSDs it is through with (`Through`):
  the drop-in is what the record says, on CPUs that EPA holds for the OSD. Of
  this `HandoffHonest` is the end;
* which routine may be called from where (`Control`).

Each group of steps has a lemma for the places (`...Held`) and one for the stores
(`...Stores`). TLC finds `AllocInv` kept in all states of `alloc_faults`, and
with one OSD, 3 faults and 3 moves in 2.67 million more.

`ListingHolds` says that no other workload claims a CPU between the listing from
which the flexible pass learns how few CPUs are left and its claim for as many
(`_allocate_flexible`; `fewer-journal` and `fewer-claim`). It is the weakest
condition we know of: with a claim in that window the request is refused, the
OSD is forgotten as if it owned nothing, and EPA keeps what it owned before
(section 10). With it, TLC finds `ClaimsInv` kept with five claims and releases
of others and one OSD (1 594 553 states), and with two of them and two OSDs
(1 915 614). `ClaimsInv` adds to `ClaimsJournaled` that no CPU is claimed twice
(`Disjoint`), and that a claim is given up before its OSD is forgotten while a
claim for fewer CPUs includes those the OSD has (`Released`).

`HandoffHonest` leaves out the handoffs of an unmanaged host, where nothing is
reconciled and `mask[o] \subseteq claims[o]` says no more than that CPUs are owned:
it holds in the run and, like the refinement, not with more faults and moves
(section 10). `ForgottenClean` leaves out the removals of drop-ins that nobody
finishes (section 10). These stay model-checked, and so does `RestartsFinish`,
which is liveness.

## 7. Release upgrade

`RollingUpgrade` has the nodes in the order of their names. Time passes in
minutes (`Tick`), and the state holds ages and never dates: minutes since a wait
began (`waited`), since a node's last sign of life (`alive`), since an upgrade
began (`rolled`) and since its last call of the kick function (`quiet`,
`kicked`). `AwaitStart` and `AwaitDone` are the two loops of
`wait_on_previous_node` with their limits, `Gather` is
`wait_for_all_monitors_to_upgrade`; `Tick` waits until every node has noticed
what ends its wait, since the loops look more than once a minute. `Skew` is how
far each clock is ahead: the alive marker is stamped by its writer's clock and
judged by its reader's. A hook that has died or failed is in `lost`, and Juju
may run it again from the beginning (`Retry`).

`MisreadAlive` is a failed reading of the alive marker: charmhelpers'
`monitor_key_get` returns None for every failure, which the watchdog takes for
a node that never kicks, and after ten minutes of waiting (`Compat`) for a dead
one (`utils.py:2379-2382`, `2574-2579`).

`ExclusiveTurns` is the promise, in four lines. `TakesTurns` is its refinement by
the nodes whose hook has never failed: a node that shows in time that it is alive
is not overtaken.
`HooksEnd` is the counterpart: nobody waits for ever.

The upgrade of one node is its duration and its calls of the kick function.
Packages, ownership of directories and single daemons are left out.

The run `upgrade` (296 thousand states) has three monitors, so that a
predecessor has a predecessor; one clock that differs by a minute; at most a
minute between two calls of the kick function; four minutes for an upgrade, the
least in which the age of a sign of life takes every value it ever takes (the run
also passes with 12 and without crashes); hooks that begin up to one minute
late; one hook that dies, one that is run again and one failed reading of an
alive marker, which four minutes of waiting do not let matter. All limits are those of the
code (30, 30, 10, 5, 3 and 10 minutes). A node that dies before its start
marker is waited for until 30 minutes are over, one that dies before its first
sign of life for 10. Fairness is weak: time passes and hooks that run go on.

With upgrades of twelve minutes one failed reading does matter (section 10).

How much the timing bears, found with the same module: with equal clocks,
exclusive turns survive calls of the kick function that are two minutes apart and
not three; with clocks that differ by a minute, one and not two.

`UpgradeTyped` proves the types, with `done \subseteq started` and every
upgrading node started, for any number of nodes, limits, clocks and faults.

`UpgradesTakeTurns` proves `TakesTurns`, and with it the refinement of
`ExclusiveTurns`, for any number of nodes and whatever hooks fail or are run
again, from two conditions:

* `Watchful`: the limits leave room for the interval between two signs of life,
  the time between two calls of the kick function and the difference of two
  clocks, an upgrade takes no longer than it is waited for, and it takes no
  longer than ten minutes (`MaxRoll <= Compat`) or no reading of an alive marker
  fails (`MaxMisreads = 0`). The code ensures neither of the last two;
  section 10 has what happens beyond them. For the rest it is the boundary given
  above: with the code's limits and equal clocks, calls two
  minutes apart and not three.
* `StartsShow`: nobody gives up waiting for a start while a healthy node before
  it is still to come. Signs of life extend the wait for the end of a
  predecessor, not the wait for its start.

`HealthyUpgradesTakeTurns` needs no condition on the behaviour: when no hook
fails before its node is done and the turn of the last node but one comes before
the longest wait for a start ends (`InTime`: `MaxDelay + (n - 2) * MaxRoll <=
StartWait` for each node n), the schedule itself keeps `StartsShow`. Without
`InTime` it fails: section 10 has the four hosts.

A node only looks at its predecessor, and that everybody before it has finished
is handed on: `Ordered` (no healthy node before one that has started is still to
come) needs the predecessor to be finished when its follower stops waiting. For
the wait for its end that is `WatchInv`, an invariant of the ages: the sign of
life of a healthy node at work is at most `KickInterval` plus the time since its
last call of the kick function old, and its follower has not waited longer than it
has worked. For the wait for its start it is `ScheduleInv`: there is one number
of minutes, which no variable holds, that everybody who has not begun has waited
for at most and that is within the time due to each. TLC finds all of them kept,
`Ordered`, `WatchInv` and `StartsShow` in the states of the run `upgrade`, and
with four nodes and without crashes (`MaxRoll = 14`, 1.5 million states), where
15 breaks `InTime` and `TakesTurns`; `ScheduleInv` with four nodes, failures of
`Gather` and one retry (138 thousand states). `HooksEnd` is liveness and stays with TLC.

## 8. NFS shares

`NfsShares` has the RADOS objects (`exports`, `index`, `counter`), the memory
of each unit's Ganesha (`served`), the nonce of the peer relation
(`announced`, and who still owes a reload), and per unit an action that runs,
whose `pc` is the next command. Each object is read and written whole and
without a version. Actions run on the leader; `Abort` ends one at any step,
whether it died or its command failed; `GaneshaDies` and `GaneshaStarts` load
the memory afresh from the index. `list_shares` is one step, although it reads
several objects. Actions are guarded by the flag `pool_initialised`, as the
charm's README asks ("Once all relations have settled").

`ShareCatalogue` is the promise: shares are created, deleted and opened or closed
to one client at a time, each as a whole. `CatalogueKept` says that the objects
implement it, at every step of every action: an export counts once the index
names it.

| run | bounds | shows |
|---|---|---|
| `nfs_shares` (163 thousand states) | 2 units, 2 shares, 2 clients, 3 actions, 1 mishap (a dying action, a failed command, a dying Ganesha, a new leader) | the index names existing exports, each change is whole and none is lost, a unit without a reload to do serves what the pool holds, and every unit gets there |

Three actions are a share that is created, opened and deleted, or two shares
interleaved with a change of the leader. With two mishaps (750 thousand states)
nothing new appears.

`HandoverWaits = TRUE`: a new leader begins an action once the former one's has
ended. Nothing in the charm enforces it: `is_leader` is asked once, at the
beginning, and neither the index nor the counter is written conditionally.
Without it two leaders take the same export id and overwrite each other's
index; `Loadable`, `CatalogueKept` and `AnnouncedIsServed` then fail.
Fairness is weak: actions go on, relation-changed events are delivered, Ganesha is
started again, which is systemd and the packaged service (nothing in the
repository says so).

Left out: unnamed shares, subvolumes and their purge, resize-share, squash and
read-only modes, the grace database, virtual addresses.

### Proofs

For any units, shares, clients and bounds, from `SharesAssumption` and
`HandoverWaits`: `SharesTyped`, `IndexLoads` (`[]Loadable`) and
`UnitsServeAnnounced` (`[]AnnouncedIsServed`). They rest on `SharesInv`, which
adds to the three properties what makes them inductive: only one action runs
(`OneAtATime`), the counter has been raised once for each action at the most
(`Counting`), before the pool is initialised only its first objects exist
(`Beginning`), and how far the objects are at each `pc`, so that what an action
has read is still what is there (`Progress`). Each action has a lemma.

`CatalogueImplemented` proves the refinement, `CatalogueKept`. `CatalogueInv`
adds to `SharesInv` that the exports of the index are of different shares and
bear ids already counted (`OneExportEach`), and that what an action has found
out about its share stays true until it has acted on it (`ActionKnows`): a
share to be created has no export in the index and its id is not in use, one to
be deleted or changed has the export that was found, and the clients to be
written differ from the present ones by the one client asked for. Two steps
then change the catalogue, the writing of the index (`IndexChanges`) and that
of an export the index names (`AccessChanges`); every other leaves it as it is.
TLC finds `CatalogueInv` kept in all states of `nfs_shares`.

`UnitsCatchUp` is liveness and model-checked only.

## 9. Key rotation

`KeyRotation` has, for every OSD and every manager, the current and the pending
key in Ceph (`auth`, `pend`) and the key in its keyring file (`keyring`); for
every monitor unit the pending keys in its bag (`offered`) and the action that
runs on it (`action`); for every host the relation-changed events it is owed
(`wake`) and the hook that runs (`hook`), which works on what it read at its
beginning. Keys are numbers in the order of their creation. `Authenticate` is
what starting a daemon does: Ceph accepts the current and the pending key, and
makes the pending one current at its first use, which is what the action's
`auth get-or-create-pending` relies on. `Refresh` is any event of the OSD
relation on a monitor, which clears the offer (`ceph_hooks.py:894`);
`SettingsChange` changes the bag beside it and so delivers it once more.

The run `key_rotation` (679 thousand states) has two OSDs on one host, which the
loop of a hook imports one after the other, and two monitors of which one
rotates: three rotations of an OSD, of both or of the manager, one refresh, one
change of the settings, one action or hook that dies, daemons that restart at
any time. `KeysUsable` says that every keyring holds a key that Ceph accepts:
an offer that is delivered late or twice never brings back a key that is out of
use. `RotationsFinish` says that a pending key on offer comes into use, unless
the offer is withdrawn or replaced before (section 10 has what is lost then). With two hosts and two rotations (752 thousand
states) both hold as well. Fairness is weak: hooks and actions that run go on,
and Juju delivers the events it owes.

One rotator is not a convenience: section 10 says what happens with two.

`RotationsTyped` proves the types for any number of rotators, and with them that
no bag, hook or keyring holds a key that Ceph has not made; it rests on hooks
importing only keys that their bag had (`HooksHaveKeys`).

`KeyringsUsable` proves `[]KeysUsable` for any number of monitors, hosts, OSDs,
rotations and faults, when the operator rotates on one unit (`OneRotator`). A
key passes from the action to the bag, from there to a hook and from there to
the keyring; the invariant `KeysInv` says that keys do not overtake each other
on this way. Behind a pending key there is the same key or none (`InOrder`),
so that when its first use puts the former one out of use nothing can bring
that back. `RotationsFinish` is model-checked only.

Left out: keys of gateways and of MDS daemons, which have bags and imports of
their own; several OSD applications, each with a bag of its own; the other data
of mon_relation.

## 10. Where the code and its documents disagree

One is a run that TLC finds violated, with the quotes in `PROJECT.json`
(`findings`): `rollout_queued`. A request queued behind a generation is never
served when the leader is the last participant: it returns without a look at the
queue (`resource_rollout.py:250`), and no event wakes it again.

The others were met while modelling. Each is reproduced with the configuration
and the changes to its constants named here; the properties that no run lists
(`ErrorsReported`, `ProxyComesBack`, `KickingIsHonoured`, `UnitResumes`,
`StopsAreRepeated`, `UnchangedRunsOn`, `SharesStayReadable`) are stated in the
modules and fail as described.

Rollout and broker:

* A unit to which leadership comes between its reading the rollout (184) and its
  asking for leadership (210) publishes a generation over an unfinished one,
  against `resource_rollout.py:23`, "A new request never supersedes an unfinished
  generation" (`RolloutFaults` with `LeadershipSettled = FALSE`, one election and
  nothing else: `NeverSuperseded`).
* A request one of whose operations raises is answered without its id
  (`broker.py:136-142`), which neither its client nor `req_already_treated`
  recognises, against the "unique id so that the client can identity which
  CephBrokerRsp is associated" of charmhelpers (`ceph.py:2073`, sic); no event is
  owed that would have the request served again (`BrokerAnswers` with
  `MayFail = {"raise"}`, one failure: `RequestsAnswered`).
* After a crash in an uncommitted generation, a joining unit that sorts first is
  admitted while another host's restarts are unfinished (`RolloutFaults` with
  `InitialUnits <- MCLate`, no change: `Serialized`).
* Only the result of a request's last operation is looked at (`broker.py:977`);
  an error before it is answered with exit code 0 (`BrokerFaults` with
  `MaxUpgrades = 1`: `ErrorsReported`).
* A namespaced group is recorded under its prefixed name and looked up with the
  prefix twice (`broker.py:353`); the key gets no pool (`Namespaces = {ns1}`,
  `Ops <- MCOpsNamespaced`: `GrantedAccess`).

NVMe-oF gateway (`NvmeGateway`), the last two as `UnitResumes`:

* A proxy that dies beside a living target is refused by it for ever
  (`proxy.py:272-280`, called at 211), before the SIGHUP (227) that the comment
  at 223-226 has for the case that "the proxy" "dies, but not SPDK" (no actions,
  1 disturbance, no new configuration: `ProxyComesBack`). systemd starts it into
  the same error every three seconds, until both services are restarted.
* Every config-changed writes a new node id (`charm.py:570`); the next start of
  the proxy finds nothing under it (no hosts, 2 actions, 1 disturbance).
* Keys of hosts are recorded as `key` and restored from `dhchap_key`
  (`proxy.py:354`, `643-652`); a host comes back without its key (3 actions,
  no disturbance).

CPUs of the OSDs (`AllocFaults` with the changes in brackets; line numbers of
`resource_manager.py`):

* A strict profile takes over a transition without asking whether its stop was
  ever confirmed (473-479, 694-712), against `RESOURCE-PROFILES.md:403-406`,
  "every retry must stop it again before the allocation changes"
  [`StopsAreRepeated`, 2 faults, 3 moves].
* The clean-up of an orphan releases a claim that has become live again
  (623-643) [`OwnershipKept`, no start from elsewhere, 2 faults, 4 moves].
* An OSD that something else starts while its claim is being replaced runs on
  CPUs it no longer owns (`ceph_hooks.py:254`, `819-824`, or a reboot)
  [`OwnershipKept`]; so does a running one if EPA does not grant the same CPUs
  again [`OwnershipKept`, no start from elsewhere, `Sticky = FALSE`].
* With a strict profile a restart may be owed for ever, because
  `check_capacity` counts what other OSDs of the host hold as available
  [`AllocLive` without the disjunct for strict profiles in `RestartsFinish`, no
  fault, 2 moves].
* After a crash of remove-disk between the end of the teardown and the removal
  of the devices, the next reconcile starts the OSD again.
* A flexible pass that is refused even the few CPUs a listing had left, because
  another workload has claimed one since, forgets the OSD without releasing
  what EPA held for it before [`ClaimsJournaled`, `MaxForeign = 4`].
* A first flexible claim that was interrupted before its drop-in is refused by
  every later strict profile ("untracked existing allocation; refusing to
  replace it").
* The removal of a departed OSD's drop-in may die before systemd is told; if
  what the journal has left of the OSD is an unfinished first claim, the clean-up
  of orphans under an unmanaged profile forgets it, `pending-clears` is not
  looked at when departed OSDs are listed (428-432), and systemd keeps the
  affinity it has loaded [`ForgottenIsClean`, one OSD, 3 faults, 3 moves].
* An OSD with fewer CPUs than the profile wants is stopped and started at every
  reconcile (498), against `RESOURCE-PROFILES.md:434`, "Recalculation is
  idempotent: an unchanged plan restarts nothing" [`UnchangedRunsOn`, no fault,
  1 move].

Release upgrade (`utils.py`):

* One failed reading of the alive marker, which passes for none (2379-2382), after
  ten minutes of waiting ends the wait for a predecessor that kicks in time
  (2574), against 2531-2532, "The "compatibility_wait_time" is used if the other
  side never kicks" [`Last = 2`, `MaxRoll = 12`, one failed reading and nothing
  else: `KickingIsHonoured`].
* With four hosts whose upgrades take longer than the wait for a start, the
  fourth begins after 30 minutes while the second still upgrades
  [`Last = 4`, `MaxRoll = 16`, no fault]; the comment at 2384-2385 says "We
  don't proceed unless we get a start condition."
* With four hosts, one that fails before its start marker lets the two after it
  begin at about the same time, 30 minutes later: both have waited since the
  configuration changed [`Last = 4`, `MaxRoll = 4`, one crash].
* `wait_for_all_monitors_to_upgrade` raises after ten minutes (2133-2136), while
  its docstring (2114-2116) lets it end when all are done; Juju runs the hook
  again, and the first monitor restarts outside of its turn.
* "this watchdog doesn't rely on the clock of the other side" (2440-2442), but
  the age of the alive marker is the reader's time less the writer's (2583).
* An alive marker left by an earlier attempt counts as one of the present.

Key rotation:

* When keys are rotated on two units of ceph-mon, an offer of the first unit that
  is delivered after the keys of the second have come into use puts an obsolete
  key into the keyring, and the OSD cannot start any more (`KeyRotation.cfg`
  with `Rotators = {m1, m2}`, no refresh, no change of settings, no fault:
  `KeysUsable`); `utils.py:149` of ceph-osd says "The pending cephx key that
  will replace the current one."
* A second rotation replaces the offer of the first in the bag
  (`rotate_key.py:183`), and any event of the OSD relation clears it; a key whose
  host has not read it by then stays pending, although the action has reported
  success.
* While a key is on offer mon_relation returns before everything else
  (`ceph_hooks.py:829-832` of ceph-osd), so that changed settings and new keys of
  other kinds wait for an event that clears the offer.

NFS shares (`ganesha.py`):

* A share whose last client was revoked is written without a CLIENT block, and
  from then on every action on every share fails when it reads the exports
  (28-34), against `actions.yaml:57`, "Revoke the specified client's access to
  a share." [`SharesStayReadable`, no mishap].
* A create-share that dies between adding the export to Ganesha and the index is
  refused by Ganesha when it is repeated, until a reload; likewise a
  delete-share after the removal.
* `setup_ganesha` resets the index if an action ran before the flag
  `pool_initialised` was committed.
* create-share without a size raises `UnboundLocalError` (129-139), against
  `actions.yaml`, "When unset, the share will not be restricted in size."
* resize-share does not ask for leadership.

## 11. Not modelled

`PROJECT.json` lists every part with the reason. What has a protocol of its own
and comes next is in the plan: CephFS in the broker, ceph-proxy,
the bootstrap of the monitors, multisite. RBD mirroring, the MDS and the
dashboard run idempotent commands that are retried as a whole; disk preparation
is I/O on block devices; the CRUSH helpers edit text.

Most lines of the repository are none of these: `charmhelpers`, `lib/charms` and
three further copies of `charms_ceph` are vendored into every charm, and the
other charms largely render configuration. The specifications map the copy of
`charms_ceph` in `charms.ceph` and none of the vendored ones, so that they cover a
small share of all lines and most of those that coordinate units.

## 12. Properties, mutants and running

Every property of a passing run has a mutant, an operator beside the one it
changes (`X_Something`, marked "Mutant:"): with it in the place of the original
TLC finds the property violated. `PROJECT.json` pairs them.

    tlc -workers 2 -config RolloutFaults.cfg MCResourceRollout
    tlapm ResourceRolloutProof.tla

The other runs likewise, with the module and configuration that `PROJECT.json`
(`runs`) names. Each takes less than three minutes with two workers.

Proofs: `ResourceRolloutProof`, `BrokerProof` (five minutes),
`RollingUpgradeProof`, `NfsSharesProof`, `KeyRotationProof`, `CpuOwnershipProof`,
`OsdAllocationProof` (seven minutes), `NvmeGatewayProof`. Liveness is beyond the prover and stays with TLC everywhere.
