------------------------------ MODULE OsdHost ------------------------------
(***************************************************************************)
(* The host a ceph-osd unit manages, as its resource manager sees it: the  *)
(* EPA orchestrator that records which service owns which CPUs, systemd    *)
(* with its drop-in files, the OSD daemons, and the unit's own journal.    *)
(* Each store is durable on its own; nothing makes two of them change      *)
(* together.  The hook that works on them is in OsdAllocation.             *)
(***************************************************************************)
EXTENDS Integers, FiniteSetsExt

CONSTANTS
  OSDs,        \* OSD identifiers, handled in ascending order
  Cpus,        \* the CPUs of EPA's general pool
  Nodes,       \* NUMA nodes
  AnyNode,     \* a request that ignores NUMA locality (mode "any")
  CpusOf,      \* the CPUs of each node
  Profiles,    \* the managed performance profiles
  StrictProfiles, \* those that refuse to degrade
  Want,        \* what a profile asks for each OSD: [node, count]
  Unmanaged,   \* the profile that leaves allocations alone
  Sticky       \* TRUE: EPA grants a service the CPUs it holds before others

ASSUME HostAssumption ==
  /\ OSDs \subseteq Nat /\ IsFiniteSet(OSDs)
  /\ IsFiniteSet(Cpus)
  /\ AnyNode \notin Nodes
  /\ CpusOf \in [Nodes -> SUBSET Cpus]
  /\ StrictProfiles \subseteq Profiles
  /\ Unmanaged \notin Profiles
  /\ Want \in [Profiles ->
       [OSDs -> [node : Nodes \cup {AnyNode}, count : Nat \ {0}]]]
  /\ Sticky \in BOOLEAN

VARIABLES
  conf,      \* performance-profile
  local,     \* the OSDs ceph-volume lists on this host
  foreign,   \* CPUs claimed in EPA by other services
  claims,    \* CPUs claimed in EPA by each ceph-osd.<id> service
  dropin,    \* each OSD's drop-in file
  loaded,    \* the CPUAffinity of the unit systemd has loaded
  active,    \* the OSDs whose unit is active
  mask,      \* the CPUs a running daemon is bound to; {} when unbound
  recs,      \* kv: state['osds'], the allocations that reached enforcement
  trans,     \* kv: state['pending-transitions']
  tear,      \* kv: the keys of state['pending-teardowns']
  restarts,  \* kv: resource-alloc.pending-restarts
  clears     \* kv: resource-alloc.pending-clears

systemd == <<dropin, loaded, active, mask>>
journal == <<recs, trans, tear, restarts, clears>>
world == <<conf, local, foreign>>

-----------------------------------------------------------------------------
(* The records *)

Shapes == Nodes \cup {AnyNode}
NoDropin == [profile |-> Unmanaged, node |-> AnyNode, cores |-> {}]
NoRecord == [node |-> AnyNode, cores |-> {}]
NoTransition == [status |-> "none", node |-> AnyNode, count |-> 0,
                 new |-> FALSE, source |-> FALSE]

HasDropin(o) == dropin[o].cores # {}
Recorded(o) == recs[o].cores # {}
Journaled(o) == trans[o].status # "none"

HostInit ==
  /\ conf = Unmanaged
  /\ local = OSDs
  /\ foreign = {}
  /\ claims = [o \in OSDs |-> {}]
  /\ dropin = [o \in OSDs |-> NoDropin]
  /\ loaded = [o \in OSDs |-> {}]
  /\ active = OSDs
  /\ mask = [o \in OSDs |-> {}]
  /\ recs = [o \in OSDs |-> NoRecord]
  /\ trans = [o \in OSDs |-> NoTransition]
  /\ tear = {}
  /\ restarts = {}
  /\ clears = {}

-----------------------------------------------------------------------------
(* EPA: one service per OSD; a request overrides the service's own claim,  *)
(* never another's.                                                         *)

ClaimedByOthers(o) ==
  foreign \cup UNION {claims[p] : p \in OSDs \ {o}}

FreeForService(o) == Cpus \ ClaimedByOthers(o)

\* What a request for count CPUs of a node, or of any, may be granted; none
\* when it is refused.
Grants(o, node, count) ==
  LET place == IF node = AnyNode THEN Cpus ELSE CpusOf[node]
      candidates == FreeForService(o) \cap place
      own == claims[o] \cap candidates
  IN {S \in SUBSET candidates :
        /\ Cardinality(S) = count
        /\ (Sticky \/ node # AnyNode) => own \subseteq S \/ S \subseteq own}

\* A claim on a node replaces only the service's CPUs on that node.
ClaimWith(o, node, granted) ==
  IF node = AnyNode THEN granted
  ELSE (claims[o] \ CpusOf[node]) \cup granted

-----------------------------------------------------------------------------
(* systemd *)

\* The daemon starts, or restarts, with the unit systemd has loaded.
Launch(o) ==
  /\ active' = active \cup {o}
  /\ mask' = [mask EXCEPT ![o] = loaded[o]]

Halt(o) ==
  /\ active' = active \ {o}
  /\ mask' = [mask EXCEPT ![o] = {}]

\* Mutant: units without a drop-in keep what systemd has loaded for them.
DaemonReload_Rendered ==
  loaded' = [o \in OSDs |-> IF HasDropin(o) THEN dropin[o].cores ELSE loaded[o]]

DaemonReload == loaded' = [o \in OSDs |-> dropin[o].cores]

-----------------------------------------------------------------------------
(* Decisions on the journal *)

TransitionMatches(o, request) ==
  /\ trans[o].status = "allocated"
  /\ trans[o].node = request.node
  /\ trans[o].count = request.count

NewTransitionMatches(o, request) ==
  /\ trans[o].new
  /\ trans[o].node = request.node
  /\ trans[o].count = request.count

\* Would carrying out this request release CPUs the OSD may be using?
NeedsTransition(o, request) ==
  /\ Recorded(o)
  /\ \/ /\ Journaled(o)
        /\ \/ trans[o].status = "stopping"
           \/ trans[o].node # request.node
           \/ trans[o].count # request.count
     \/ recs[o].node # request.node
     \/ Cardinality(recs[o].cores) # request.count

\* Mutant: only an applied record counts.
ClaimMayBackEnforcement_Recorded(o, recorded) == recorded

\* A claim that may stand behind a running daemon is not released before the
\* daemon is proven stopped.
ClaimMayBackEnforcement(o, recorded) ==
  \/ recorded
  \/ HasDropin(o)
  \/ /\ Journaled(o)
     /\ \/ trans[o].status \notin {"claiming", "cleanup"}
        \/ trans[o].source

\* Whether the unit's own stores say that the OSD could own a claim.
RecordedOwnership(o) ==
  \/ Recorded(o)
  \/ Journaled(o)
  \/ o \in restarts
  \/ HasDropin(o)
  \/ o \in tear

\* check_capacity: the plan against the CPUs no other service holds.
Shortfall(profile) ==
  LET free == Cpus \ (foreign \cup UNION {claims[p] : p \in OSDs \ local})
      demand(n) == MapThenSumSet(LAMBDA o : Want[profile][o].count,
                                 {o \in local : Want[profile][o].node = n})
      available(n) == Cardinality(free \cap CpusOf[n])
      met(n) == IF demand(n) > available(n) THEN available(n) ELSE demand(n)
  IN \/ \E n \in Nodes : demand(n) > available(n)
     \/ demand(AnyNode) > Cardinality(free) - MapThenSumSet(met, Nodes)
=============================================================================
