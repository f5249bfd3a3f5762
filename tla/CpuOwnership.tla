---------------------------- MODULE CpuOwnership ----------------------------
(***************************************************************************)
(* What the resource manager of the ceph-osd charm promises, stripped of   *)
(* how it gets there: a CPU belongs to at most one owner, and a running    *)
(* OSD that is bound to CPUs is bound to CPUs it owns, from the moment it  *)
(* starts until it has stopped.                                            *)
(***************************************************************************)
EXTENDS Integers

CONSTANTS
  OSDs,   \* the OSDs of one host
  Cpus    \* the logical CPUs the allocator may grant

VARIABLES
  claims,   \* the CPUs the allocator records for each OSD
  foreign,  \* the CPUs it records for other workloads
  active,   \* the OSDs whose daemon runs
  mask      \* the CPUs a running daemon is bound to; {} when it is not bound

ownershipVars == <<claims, foreign, active, mask>>

OwnershipInit ==
  /\ claims = [o \in OSDs |-> {}]
  /\ foreign = {}
  /\ active \subseteq OSDs
  /\ mask = [o \in OSDs |-> {}]

\* One OSD's claim is made, changed or given up.  What a running daemon is
\* bound to stays claimed throughout.
Reassign(o) ==
  /\ \E S \in SUBSET (Cpus \ foreign) :
       /\ \A p \in OSDs \ {o} : claims[p] \cap S = {}
       /\ mask[o] \subseteq S
       /\ claims' = [claims EXCEPT ![o] = S]
  /\ UNCHANGED <<foreign, active, mask>>

\* Other workloads use what no OSD holds.
ForeignMove ==
  /\ \E S \in SUBSET Cpus :
       /\ \A o \in OSDs : claims[o] \cap S = {}
       /\ foreign' = S
  /\ UNCHANGED <<claims, active, mask>>

\* A daemon starts or restarts, unbound or bound to CPUs its OSD owns.
Start(o) ==
  /\ active' = active \cup {o}
  /\ \E M \in SUBSET claims[o] : mask' = [mask EXCEPT ![o] = M]
  /\ UNCHANGED <<claims, foreign>>

Stop(o) ==
  /\ active' = active \ {o}
  /\ mask' = [mask EXCEPT ![o] = {}]
  /\ UNCHANGED <<claims, foreign>>

OwnershipNext ==
  \/ \E o \in OSDs : Reassign(o) \/ Start(o) \/ Stop(o)
  \/ ForeignMove

OwnershipSpec == OwnershipInit /\ [][OwnershipNext]_ownershipVars

-----------------------------------------------------------------------------
OwnershipTypeOK ==
  /\ claims \in [OSDs -> SUBSET Cpus]
  /\ foreign \in SUBSET Cpus
  /\ active \in SUBSET OSDs
  /\ mask \in [OSDs -> SUBSET Cpus]

\* The allocator gives no CPU to two owners, and a daemon is bound only to
\* what its OSD owns.
Owned ==
  /\ \A o, p \in OSDs : o # p => claims[o] \cap claims[p] = {}
  /\ \A o \in OSDs : claims[o] \cap foreign = {}
  /\ \A o \in OSDs : mask[o] \subseteq claims[o]

\* No two daemons, and no daemon and a foreign workload, share a CPU.
Exclusive ==
  /\ \A o, p \in OSDs : o # p => mask[o] \cap mask[p] = {}
  /\ \A o \in OSDs : mask[o] \cap foreign = {}
=============================================================================
