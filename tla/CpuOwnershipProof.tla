-------------------------- MODULE CpuOwnershipProof --------------------------
(***************************************************************************)
(* What the promise of the resource manager amounts to: while every step   *)
(* is one of CpuOwnership, daemons and foreign workloads never share a     *)
(* CPU.  Stated for any OSDs and CPUs.                                     *)
(***************************************************************************)
EXTENDS CpuOwnership, TLAPS

Inv == OwnershipTypeOK /\ Owned

LEMMA InvInit == OwnershipInit => Inv
  BY DEF OwnershipInit, Inv, OwnershipTypeOK, Owned

LEMMA InvStep == Inv /\ [OwnershipNext]_ownershipVars => Inv'
<1> SUFFICES ASSUME Inv, [OwnershipNext]_ownershipVars PROVE Inv'
  OBVIOUS
<1> USE DEF Inv, OwnershipTypeOK, Owned
<1>1. ASSUME NEW o \in OSDs, Reassign(o) PROVE Inv'
  <2>1. PICK S \in SUBSET (Cpus \ foreign) :
          /\ \A p \in OSDs \ {o} : claims[p] \cap S = {}
          /\ mask[o] \subseteq S
          /\ claims' = [claims EXCEPT ![o] = S]
    BY <1>1 DEF Reassign
  <2>2. UNCHANGED <<foreign, active, mask>>
    BY <1>1 DEF Reassign
  <2>3. QED
    BY <2>1, <2>2
<1>2. ASSUME NEW o \in OSDs, Start(o) PROVE Inv'
  <2>1. PICK M \in SUBSET claims[o] : mask' = [mask EXCEPT ![o] = M]
    BY <1>2 DEF Start
  <2>2. QED
    BY <1>2, <2>1 DEF Start
<1>3. ASSUME NEW o \in OSDs, Stop(o) PROVE Inv'
  BY <1>3 DEF Stop
<1>4. CASE ForeignMove
  BY <1>4 DEF ForeignMove
<1>5. CASE UNCHANGED ownershipVars
  BY <1>5 DEF ownershipVars
<1>6. QED
  BY <1>1, <1>2, <1>3, <1>4, <1>5 DEF OwnershipNext

\* The allocator never gives a CPU to two owners, and a daemon is bound only to
\* what its OSD owns, through every claim, release, start and stop.
THEOREM OwnershipHeld == OwnershipSpec => [](OwnershipTypeOK /\ Owned)
<1>1. OwnershipSpec => []Inv
  BY InvInit, InvStep, PTL DEF OwnershipSpec
<1>2. QED
  BY <1>1, PTL DEF Inv

LEMMA OwnedExcludes == Inv => Exclusive
  BY DEF Inv, OwnershipTypeOK, Owned, Exclusive

\* No two OSD daemons, and no daemon and another workload, run on one CPU.
THEOREM CpusExclusive == OwnershipSpec => []Exclusive
<1>1. OwnershipSpec => []Inv
  BY InvInit, InvStep, PTL DEF OwnershipSpec
<1>2. QED
  BY <1>1, OwnedExcludes, PTL
=============================================================================
