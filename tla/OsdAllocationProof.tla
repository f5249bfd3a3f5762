-------------------------- MODULE OsdAllocationProof --------------------------
(***************************************************************************)
(* What the resource manager of the OSDs keeps, for any number of OSDs,    *)
(* CPUs, nodes and profiles, whatever steps fail, wherever hooks die and   *)
(* however disks, daemons and the profile move meanwhile.                  *)
(*                                                                         *)
(* One hook runs at a time and works on one OSD at a time.  The invariant  *)
(* says what each place in the code has achieved in the stores for that    *)
(* OSD (Here), what holds of every OSD at all times (Everywhere), and what *)
(* a reconcile has left behind for the OSDs it is through with (Through).  *)
(***************************************************************************)
EXTENDS OsdAllocation, FiniteSetTheorems, WellFoundedInduction, TLAPS

-----------------------------------------------------------------------------
(* Places in the code                                                      *)

Replaces == {"replace", "replace-mark", "replace-stop", "replace-stopped",
             "replace-release", "replace-done"}
Clears == {"clear", "clear-remove", "clear-reload", "clear-reloaded",
           "clear-restart", "clear-done"}
Applies == {"granted", "apply", "apply-write", "apply-reload", "apply-restart",
            "apply-verify", "record"}
Cleans == {"cleanup", "cleanup-release", "cleanup-forget"}
Claims == {"claim", "rejournal", "reset", "any", "any-claim", "fewer",
           "fewer-journal", "fewer-claim"}
Journals == Replaces \cup Applies \cup Cleans \cup Claims
Plans == Journals \cup {"osd", "first", "unpin", "unpinned"}
Stales == {"stale", "stale-release", "stale-forget"}
Orphans == {"orphan", "orphan-release", "orphan-forget"}
Teardowns == {"remove-stop", "teardown", "teardown-stop", "teardown-release",
              "teardown-complete", "removed"}
Rests == {"idle", "plan", "finish", "handoff", "departed"}
Places == Plans \cup Clears \cup Stales \cup Orphans \cup Teardowns \cup Rests

Removals == {"remove-disk", "release_all"}

HookType ==
  [op : {"none", "reconcile"} \cup Removals, pc : Places,
   profile : Profiles \cup {Unmanaged}, osd : OSDs \cup {NoOsd},
   todo : SUBSET OSDs, then : Places, new : BOOLEAN, unpin : BOOLEAN,
   node : Shapes, cores : SUBSET Cpus, err : BOOLEAN]

\* Which hook is where, and where its routines return to.
Control ==
  /\ hook.pc \notin Rests => Osd \in OSDs
  /\ hook.pc \in Plans \cup Stales \cup {"plan"} =>
       hook.op = "reconcile" /\ hook.profile \in Profiles
  /\ hook.pc \in Plans \cup Orphans => hook.then # "stale-release"
  /\ hook.pc \in Stales => /\ hook.then \in {"idle", "stale-release"}
                           /\ ~hook.unpin
  /\ hook.pc \in Orphans => hook.op = "reconcile" /\ hook.profile = Unmanaged
  /\ hook.pc \in Teardowns => /\ hook.op \in Removals /\ ~hook.unpin
                              /\ hook.then \in {"idle", "teardown-release"}
  /\ hook.pc \in Replaces =>
       hook.then \in {"claim", "any", "first", "reset", "rejournal"}
  /\ hook.pc \in Clears =>
       \/ /\ hook.then = "stale-release" /\ ~hook.unpin
          /\ hook.op = "reconcile" /\ hook.profile \in Profiles
       \/ /\ hook.then = "teardown-release" /\ ~hook.unpin
          /\ hook.op \in Removals
       \/ /\ hook.then = "unpinned" /\ hook.unpin
          /\ hook.op = "reconcile" /\ hook.profile \in Profiles
  /\ hook.op = "none" => hook.pc = "idle"

-----------------------------------------------------------------------------
(* The types of the stores *)

SpentOK == spent \in [faults : Nat, moves : Nat, foreign : Nat, starts : Nat,
                      asked : SUBSET OSDs]

StoresOK ==
  /\ conf \in Profiles \cup {Unmanaged}
  /\ local \in SUBSET OSDs /\ foreign \in SUBSET Cpus
  /\ claims \in [OSDs -> SUBSET Cpus]
  /\ dropin \in [OSDs -> [profile : Profiles \cup {Unmanaged},
                         node : Shapes, cores : SUBSET Cpus]]
  /\ loaded \in [OSDs -> SUBSET Cpus]
  /\ active \in SUBSET OSDs /\ mask \in [OSDs -> SUBSET Cpus]
  /\ recs \in [OSDs -> [node : Shapes, cores : SUBSET Cpus]]
  /\ trans \in [OSDs -> TransitionType]
  /\ tear \in SUBSET OSDs /\ restarts \in SUBSET OSDs
  /\ clears \in SUBSET OSDs
  /\ SpentOK

-----------------------------------------------------------------------------
(* What holds of every OSD                                                 *)

Known(o) == Recorded(o) \/ Journaled(o)
Unloading(o) == o \in clears /\ ~HasDropin(o)

\* Without a restart to come, systemd has loaded the OSD's drop-in and its
\* daemon runs with it, or the removal of the drop-in is unfinished.
Enforcing(o) ==
  o \notin restarts =>
    /\ loaded[o] = dropin[o].cores \/ Unloading(o)
    /\ o \in active => mask[o] = dropin[o].cores \/ Unloading(o)

Down(o) == o \in local \ active /\ (Recorded(o) \/ HasDropin(o)) =>
             o \in restarts \cup tear \cup spent.asked

Everywhere ==
  \A o \in OSDs :
    /\ Enforcing(o) /\ Down(o)
    /\ HasDropin(o) => Known(o) \/ o \in tear
    /\ trans[o].new => Journaled(o)

-----------------------------------------------------------------------------
(* What the place says of the OSD                                          *)

\* Before an OSD is stopped its restart or its removal is journaled.
Journaling ==
  /\ hook.pc \in Journals => Known(Osd)
  /\ hook.pc = "replace-stop" => Osd \in restarts
  /\ hook.pc = "remove-stop" => Osd \in tear \cup spent.asked
  /\ hook.pc \in {"teardown-stop", "teardown-release", "teardown-complete"} =>
       Osd \in tear
  /\ hook.pc \in Clears /\ hook.then = "teardown-release" => Osd \in tear
  /\ hook.pc \in Stales \/ (hook.pc \in Clears /\ hook.then = "stale-release") =>
       (hook.todo \cup {Osd}) \cap local = {}

Binding ==
  /\ hook.pc \in {"fewer-journal", "fewer-claim"} => hook.cores # {}
  /\ hook.pc \in Applies => hook.cores # {} /\ hook.cores \subseteq claims[Osd]
  /\ hook.pc \in {"apply-write", "apply-reload", "apply-restart",
                  "apply-verify"} => Osd \in restarts
  /\ hook.pc \in {"apply-reload", "apply-restart", "apply-verify", "record"} =>
       dropin[Osd].cores = hook.cores
  /\ hook.pc \in {"apply-restart", "apply-verify"} => loaded[Osd] = hook.cores
  /\ hook.pc = "apply-verify" /\ Osd \in active => mask[Osd] = hook.cores

Unbinding ==
  /\ hook.pc \in Clears /\ hook.unpin /\ hook.pc # "clear" => Osd \in restarts
  /\ hook.pc \in Clears /\ ~hook.unpin => Osd \notin active
  /\ hook.pc \in {"clear-remove", "clear-reload", "clear-reloaded"} =>
       Osd \in clears
  /\ hook.pc \in {"clear-reload", "clear-reloaded", "clear-restart",
                  "clear-done", "stale-release", "stale-forget", "unpinned",
                  "teardown-release", "teardown-complete", "cleanup-release",
                  "cleanup-forget", "orphan-release", "orphan-forget"} =>
       ~HasDropin(Osd)
  /\ hook.pc \in {"clear-reloaded", "clear-restart", "clear-done"} =>
       loaded[Osd] = {}
  /\ hook.pc \in {"clear-restart", "clear-done", "unpinned"} =>
       Osd \notin clears
  /\ hook.pc = "clear-restart" => hook.unpin
  /\ hook.pc = "clear-done" /\ hook.unpin =>
       /\ Osd \in active \/ Osd \notin local
       /\ Osd \in active => mask[Osd] = {}

Here == Journaling /\ Binding /\ Unbinding

-----------------------------------------------------------------------------
(* What a reconcile leaves behind                                          *)

\* The drop-in is what the record says, on CPUs that EPA holds for the OSD.
Settled(o) ==
  /\ dropin[o].cores = recs[o].cores
  /\ recs[o].cores \subseteq claims[o]
  /\ HasDropin(o) \/ o \notin clears

Through ==
  /\ hook.pc \in Plans \/ (hook.pc \in Clears /\ hook.then = "unpinned") =>
       \A o \in local \ (hook.todo \cup {Osd}) : Settled(o)
  /\ hook.pc \in {"finish", "handoff"} /\ hook.profile # Unmanaged =>
       \A o \in local : Settled(o)
  /\ hook.pc = "handoff" => local \subseteq active /\ restarts = {}

\* The place in the code and what it says; what holds of the stores everywhere.
HookInv == hook \in HookType /\ Control /\ Here /\ Through
StoresInv == StoresOK /\ Everywhere
AllocInv == StoresInv /\ HookInv

-----------------------------------------------------------------------------
(* A loop takes the OSDs in ascending order, one of those that are left.   *)

LEMMA LeastIn == ASSUME NEW S \in SUBSET Nat, S # {}
                 PROVE Least(S) \in S /\ \A p \in S : Least(S) <= p
<1> DEFINE R == OpToRel(<, Nat)
<1>1. IsWellFoundedOn(R, Nat)
  BY NatLessThanWellFounded
<1>2. ASSUME NEW x \in Nat, NEW y \in Nat, y < x PROVE <<y, x>> \in R
  <2>1. R = {ss \in Nat \X Nat : ss[1] < ss[2]}
    BY DEF OpToRel
  <2> HIDE DEF R
  <2>2. QED
  BY <1>2, <2>1
<1> HIDE DEF R
<1>3. PICK x \in S : \A y \in S : <<y, x>> \notin R
  BY <1>1, WFMin
<1>4. ASSUME NEW y \in S PROVE x <= y
  <2>1. x \in Nat /\ y \in Nat
    OBVIOUS
  <2>2. ~(y < x)
    BY <1>2, <1>3, <2>1
  <2>3. QED
    BY <2>1, <2>2
<1>5. QED
  BY <1>4 DEF Least

LEMMA LeastOsd == \A S \in SUBSET OSDs : S # {} => Least(S) \in S
  BY LeastIn, HostAssumption

-----------------------------------------------------------------------------
(* Where a step leads                                                      *)

\* To another place, with the same OSD at hand.
MovesTo(pc, then) ==
  /\ hook' \in HookType
  /\ hook'.pc = pc /\ hook'.then = then
  /\ hook'.op = hook.op /\ hook'.profile = hook.profile
  /\ hook'.osd = hook.osd /\ hook'.todo = hook.todo
  /\ hook'.unpin = hook.unpin /\ hook'.cores = hook.cores

\* To the next OSD of a loop, or past its end.
GoesOn(loop, done, err) ==
  /\ hook' \in HookType
  /\ hook'.op = hook.op /\ hook'.profile = hook.profile
  /\ hook'.then = hook.then /\ hook'.err = err
  /\ \/ hook'.pc = done /\ hook.todo = {}
     \/ /\ hook'.pc = loop /\ hook'.osd \in hook.todo
        /\ hook'.todo = hook.todo \ {hook'.osd}
        /\ ~hook'.unpin

\* To the place after a grant, which holds the CPUs granted.
GrantedTo ==
  /\ hook' \in HookType /\ hook'.pc = "granted"
  /\ hook'.op = hook.op /\ hook'.profile = hook.profile
  /\ hook'.then = hook.then /\ hook'.osd = hook.osd
  /\ hook'.todo = hook.todo /\ hook'.unpin = hook.unpin
  /\ hook'.cores # {} /\ hook'.cores \subseteq claims'[hook.osd]

\* What a profile asks for an OSD is a place and at least one CPU.
LEMMA RequestTyped ==
  ASSUME HookInv, hook.pc \in Plans
  PROVE Request \in [node : Nodes \cup {AnyNode}, count : Nat \ {0}]
<1>1. hook.profile \in Profiles /\ Osd \in OSDs
  BY DEF HookInv, Control, Rests, Plans, Journals, Replaces, Applies, Cleans,
         Claims
<1>2. QED
  BY <1>1, HostAssumption DEF Request, Osd

\* How a loop over the OSDs goes on: with the next one, or past its end.
LEMMA AdvanceMoves ==
  ASSUME hook \in HookType, NEW loop \in Places, NEW done \in Places,
         NEW err \in BOOLEAN, Advance(loop, done, err)
  PROVE GoesOn(loop, done, err)
<1>1. CASE hook.todo = {}
  BY <1>1 DEF Advance, HookType, GoesOn
<1>2. CASE hook.todo # {}
  <2>1. hook.todo \in SUBSET OSDs
    BY DEF HookType
  <2>2. PICK o : o = Least(hook.todo)
    OBVIOUS
  <2>3. o \in hook.todo
    BY <1>2, <2>1, <2>2, LeastOsd
  <2>4. hook' = [hook EXCEPT !.pc = loop, !.osd = o, !.todo = hook.todo \ {o},
                   !.err = err, !.new = FALSE, !.unpin = FALSE]
    BY <1>2, <2>2 DEF Advance
  <2>5. QED
    BY <1>2, <2>1, <2>3, <2>4 DEF HookType, GoesOn
<1>3. QED
  BY <1>1, <1>2

\* A failing step ends the hook or goes on with the next OSD of a loop that
\* expects nothing of the one before.
LEMMA FailedEnds ==
  ASSUME HookInv, hook.pc \notin Rests, Failed, local' = local
  PROVE HookInv'
<1> USE DEF HookInv
<1>1. ASSUME hook' = Idle PROVE HookInv'
  <2>1. hook' \in HookType
    BY <1>1 DEF HookType, Idle, Places, Rests, Shapes
  <2>2. hook'.pc = "idle" /\ hook'.op = "none"
    BY <1>1 DEF Idle
  <2>3. QED
    BY <2>1, <2>2
    DEF Control, Here, Through, Journaling, Binding, Unbinding, Plans,
        Journals, Replaces, Applies, Cleans, Claims, Clears, Stales, Orphans,
        Teardowns, Rests, Removals, Osd
<1>2. CASE hook.then = "stale-release"
  <2>1. hook.pc \in Stales \cup Clears
    BY <1>2 DEF Control, Places, Plans, Orphans, Teardowns, HookType, Replaces
  <2>2. hook.op = "reconcile" /\ hook.profile \in Profiles
    BY <1>2, <2>1 DEF Control
  <2>3. Advance("stale", "plan", FALSE)
    BY <1>2, <2>2 DEF Failed
  <2>4. (hook.todo \cup {hook.osd}) \cap local = {}
    BY <1>2, <2>1 DEF Here, Journaling, Osd
  <2>5. "stale" \in Places /\ "plan" \in Places
    BY DEF Places, Stales, Rests
  <2>6. /\ hook' \in HookType
        /\ hook'.op = hook.op /\ hook'.profile = hook.profile
        /\ hook'.then = hook.then
        /\ \/ /\ hook'.pc = "plan"
           \/ /\ hook'.pc = "stale" /\ hook'.osd \in hook.todo
              /\ hook'.todo = hook.todo \ {hook'.osd} /\ ~hook'.unpin
    BY <2>3, <2>5, AdvanceMoves DEF GoesOn
  <2>7. hook'.osd \in OSDs \/ hook'.pc = "plan"
    BY <2>6 DEF HookType
  <2>8. hook'.pc = "stale" => (hook'.todo \cup {hook'.osd}) \cap local' = {}
    BY <2>4, <2>6
  <2>9. QED
    BY <1>2, <2>2, <2>4, <2>6, <2>7, <2>8
    DEF Control, Here, Through, Journaling, Binding, Unbinding, Plans,
        Journals, Replaces, Applies, Cleans, Claims, Clears, Stales, Orphans,
        Teardowns, Rests, Removals, Osd
<1>3. CASE hook.then # "stale-release" /\ hook.op = "release_all"
  <2>1. Advance("teardown", "departed", TRUE)
    BY <1>3 DEF Failed
  <2>2. hook.pc \in Teardowns \cup Clears
    BY <1>3 DEF Control, Places, Plans, Orphans, Stales, HookType
  <2>3. hook.then \in {"idle", "teardown-release"}
    BY <1>3, <2>2 DEF Control
  <2>4. "teardown" \in Places /\ "departed" \in Places
    BY DEF Places, Teardowns, Rests
  <2>5. /\ hook' \in HookType
        /\ hook'.op = hook.op /\ hook'.then = hook.then
        /\ \/ /\ hook'.pc = "departed"
           \/ /\ hook'.pc = "teardown" /\ hook'.osd \in hook.todo /\ ~hook'.unpin
    BY <2>1, <2>4, AdvanceMoves DEF GoesOn
  <2>6. hook'.osd \in OSDs \/ hook'.pc = "departed"
    BY <2>5 DEF HookType
  <2>7. QED
    BY <1>3, <2>3, <2>5, <2>6
    DEF Control, Here, Through, Journaling, Binding, Unbinding, Plans,
        Journals, Replaces, Applies, Cleans, Claims, Clears, Stales, Orphans,
        Teardowns, Rests, Removals, Osd
<1>4. CASE hook.then # "stale-release" /\ hook.op # "release_all"
  BY <1>1, <1>4 DEF Failed
<1>5. QED
  BY <1>2, <1>3, <1>4

\* A jump within a routine, a call of one and the return to its caller.
LEMMA GotoMoves ==
  ASSUME hook \in HookType, NEW pc \in Places, Goto(pc)
  PROVE MovesTo(pc, hook.then)
  BY DEF HookType, Goto, MovesTo

LEMMA CallMoves ==
  ASSUME hook \in HookType, NEW pc \in Places, NEW then \in Places, Call(pc, then)
  PROVE MovesTo(pc, then)
  BY DEF HookType, Call, MovesTo

LEMMA ReturnMoves ==
  ASSUME hook \in HookType, Return PROVE MovesTo(hook.then, hook.then)
  BY GotoMoves DEF HookType, Return

\* Nothing is expected between hooks.
LEMMA IdleHolds == ASSUME hook' = Idle PROVE HookInv'
<1>1. hook' \in HookType
  BY DEF HookType, Idle, Places, Rests, Shapes
<1>2. hook'.pc = "idle" /\ hook'.op = "none"
  BY DEF Idle
<1>3. QED
  BY <1>1, <1>2
  DEF HookInv, Control, Here, Through, Journaling, Binding, Unbinding, Plans,
      Journals, Replaces, Applies, Cleans, Claims, Clears, Stales, Orphans,
      Teardowns, Rests, Removals, Osd

\* Who clears a drop-in, and what was done for it first.
LEMMA InClear == ASSUME HookInv, hook.pc \in Clears
  PROVE /\ Osd \in OSDs /\ Osd = hook.osd
        /\ \/ hook.then = "stale-release" /\ ~hook.unpin
           \/ hook.then = "teardown-release" /\ ~hook.unpin
           \/ hook.then = "unpinned" /\ hook.unpin
        /\ ~hook.unpin => hook.osd \notin active
        /\ hook.unpin /\ hook.pc # "clear" => hook.osd \in restarts
  BY DEF HookInv, Control, Here, Unbinding, Osd, Clears, Rests

\* A granted claim: some CPUs, all of them held from now on.
LEMMA ClaimMakes ==
  ASSUME StoresOK, hook \in HookType, Osd \in OSDs,
         NEW node \in Shapes, NEW count \in Nat \ {0},
         NEW S \in Grants(Osd, node, count),
         claims' = [claims EXCEPT ![Osd] = ClaimWith(Osd, node, S)]
  PROVE /\ ClaimWith(Osd, node, S) \in SUBSET Cpus
        /\ hook' = [hook EXCEPT !.pc = "granted", !.cores = S, !.node = node]
             => GrantedTo
<1>1. S \in SUBSET Cpus /\ Cardinality(S) = count
  BY HostAssumption DEF Grants, FreeForService, Shapes
<1>2. S # {}
  BY <1>1, FS_EmptySet
<1>3. /\ S \subseteq ClaimWith(Osd, node, S)
      /\ ClaimWith(Osd, node, S) \in SUBSET Cpus
  BY <1>1 DEF ClaimWith, StoresOK
<1>4. claims'[Osd] = ClaimWith(Osd, node, S)
  BY DEF StoresOK
<1>5. ASSUME hook' = [hook EXCEPT !.pc = "granted", !.cores = S, !.node = node]
      PROVE GrantedTo
  BY <1>1, <1>2, <1>3, <1>4, <1>5
  DEF GrantedTo, HookType, Osd, Places, Plans, Journals, Applies
<1>6. QED
  BY <1>3, <1>5

\* A request for fewer CPUs is still one for some.
LEMMA CoresCounted ==
  ASSUME HookInv, hook.pc = "fewer-claim"
  PROVE Cardinality(hook.cores) \in Nat \ {0}
<1>1. hook.cores \in SUBSET Cpus /\ hook.cores # {}
  BY DEF HookInv, HookType, Here, Binding
<1>2. IsFiniteSet(hook.cores)
  BY <1>1, HostAssumption, FS_Subset
<1>3. QED
  BY <1>1, <1>2, FS_EmptySet, FS_CardinalityType

-----------------------------------------------------------------------------
(* Every step of the hook keeps what its place says                        *)

\* Replacing an allocation: journal, stop, release.
LEMMA ReplacingHeld == ASSUME AllocInv, Replacing PROVE HookInv'
<1> USE DEF AllocInv, StoresInv, HookInv, StoresOK, Osd, At, world, systemd,
            journal, Plans, Journals, Replaces, Applies, Cleans, Claims, Clears,
            Stales, Orphans, Teardowns, Rests, Removals
<1>1. ASSUME ReplaceBegin PROVE HookInv'
  <2>1. \/ MovesTo("replace-mark", hook.then)
        \/ MovesTo("replace-release", hook.then)
    BY <1>1, GotoMoves DEF ReplaceBegin, Places
  <2>2. QED
    BY <1>1, <2>1
    DEF ReplaceBegin, SetTransition, MovesTo, Here, Through, Journaling,
        Binding, Unbinding, Settled, Control, Known, Recorded, Journaled,
        HasDropin
<1>2. ASSUME ReplaceMark PROVE HookInv'
  <2>1. MovesTo("replace-stop", hook.then)
    BY <1>2, GotoMoves DEF ReplaceMark, Places
  <2>2. QED
    BY <1>2, <2>1
    DEF ReplaceMark, MovesTo, Here, Through, Journaling, Binding, Unbinding,
        Settled, Control, Known, Recorded, Journaled, HasDropin
<1>3. ASSUME ReplaceStop PROVE HookInv'
  <2>1. HookInv' \/ MovesTo("replace-stopped", hook.then)
    BY <1>3, GotoMoves, FailedEnds DEF ReplaceStop, StopOsd, Places
  <2>2. QED
    BY <1>3, <2>1
    DEF ReplaceStop, StopOsd, MovesTo, Here, Through, Journaling, Binding,
        Unbinding, Settled, Control, Known, Recorded, Journaled, HasDropin
<1>4. ASSUME ReplaceStopped PROVE HookInv'
  <2>1. MovesTo("replace-release", hook.then)
    BY <1>4, GotoMoves DEF ReplaceStopped, Places
  <2>2. QED
    BY <1>4, <2>1
    DEF ReplaceStopped, SetTransition, MovesTo, Here, Through, Journaling,
        Binding, Unbinding, Settled, Control, Known, Recorded, Journaled,
        HasDropin
<1>5. ASSUME ReplaceRelease PROVE HookInv'
  <2>1. HookInv' \/ MovesTo("replace-done", hook.then)
    BY <1>5, GotoMoves, FailedEnds DEF ReplaceRelease, ReleaseCall, Places
  <2>2. QED
    BY <1>5, <2>1
    DEF ReplaceRelease, ReleaseCall, MovesTo, Here, Through, Journaling,
        Binding, Unbinding, Settled, Control, Known, Recorded, Journaled,
        HasDropin
<1>6. ASSUME ReplaceDone PROVE HookInv'
  <2>1. MovesTo(hook.then, hook.then)
    BY <1>6, ReturnMoves DEF ReplaceDone
  <2>2. QED
    BY <1>6, <2>1
    DEF ReplaceDone, SetTransition, MovesTo, Here, Through, Journaling,
        Binding, Unbinding, Settled, Control, Known, Recorded, Journaled,
        HasDropin
<1>7. QED
  BY <1>1, <1>2, <1>3, <1>4, <1>5, <1>6 DEF Replacing

\* Clearing a drop-in: journal, remove, reload, restart.
LEMMA ClearingHeld == ASSUME AllocInv, Clearing PROVE HookInv'
<1> USE DEF AllocInv, StoresInv, HookInv, StoresOK, Osd, At, world, systemd,
            journal, Plans, Journals, Replaces, Applies, Cleans, Claims, Clears,
            Stales, Orphans, Teardowns, Rests, Removals
<1>1. ASSUME ClearMark PROVE HookInv'
  <2>1. MovesTo("clear-remove", hook.then) \/ MovesTo(hook.then, hook.then)
    BY <1>1, GotoMoves, ReturnMoves DEF ClearMark, Places
  <2>2. Control'
    BY <1>1, <2>1 DEF ClearMark, MovesTo, Control, HookType
  <2>3. Journaling'
    BY <1>1, <2>1
    DEF ClearMark, MovesTo, Control, Here, Journaling, Known, Recorded,
        Journaled
  <2>4. Binding'
    BY <1>1, <2>1 DEF ClearMark, MovesTo, Control, Here, Binding
  <2>5. Unbinding'
    <3>1. CASE MovesTo("clear-remove", hook.then)
      BY <1>1, <3>1, InClear
      DEF ClearMark, MovesTo, Unbinding, Return, Goto, HookType
    <3>2. CASE MovesTo(hook.then, hook.then)
      <4>1. /\ ~HasDropin(hook.osd) /\ hook.osd \notin clears
            /\ UNCHANGED <<dropin, clears, restarts, loaded, active, mask>>
        BY <1>1, <3>2, InClear DEF ClearMark, MovesTo, Goto, HookType
      <4>2. QED
        BY <3>2, <4>1, InClear, <1>1
        DEF ClearMark, MovesTo, Unbinding, HasDropin
    <3>3. QED
      BY <2>1, <3>1, <3>2
  <2>6. Through'
    BY <1>1, <2>1
    DEF ClearMark, MovesTo, Control, Here, Through, Settled, HasDropin,
        Binding, Unbinding
  <2>7. QED
    BY <2>1, <2>2, <2>3, <2>4, <2>5, <2>6 DEF Here, MovesTo
<1>2. ASSUME ClearRemove PROVE HookInv'
  <2>1. MovesTo("clear-reload", hook.then)
    BY <1>2, GotoMoves DEF ClearRemove, Places
  <2>2. Control'
    BY <1>2, <2>1 DEF ClearRemove, NoDropin, MovesTo, Control, HookType
  <2>3. Journaling'
    BY <1>2, <2>1
    DEF ClearRemove, NoDropin, MovesTo, Control, Here, Journaling, Known,
        Recorded, Journaled
  <2>4. Binding'
    BY <1>2, <2>1 DEF ClearRemove, NoDropin, MovesTo, Control, Here, Binding
  <2>5. Unbinding'
    BY <1>2, <2>1
    DEF ClearRemove, NoDropin, MovesTo, Control, Here, Unbinding, HasDropin
  <2>6. Through'
    BY <1>2, <2>1
    DEF ClearRemove, NoDropin, MovesTo, Control, Here, Through, Settled,
        HasDropin, Binding, Unbinding
  <2>7. QED
    BY <2>1, <2>2, <2>3, <2>4, <2>5, <2>6 DEF Here, MovesTo
<1>3. ASSUME ClearReload PROVE HookInv'
  <2>1. HookInv' \/ MovesTo("clear-reloaded", hook.then)
    BY <1>3, GotoMoves, FailedEnds DEF ClearReload, Reload, Places
  <2>2. HookInv' \/ Control'
    BY <1>3, <2>1
    DEF ClearReload, Reload, DaemonReload, MovesTo, Control, HookType
  <2>3. HookInv' \/ Journaling'
    BY <1>3, <2>1
    DEF ClearReload, Reload, DaemonReload, MovesTo, Control, Here, Journaling,
        Known, Recorded, Journaled
  <2>4. HookInv' \/ Binding'
    BY <1>3, <2>1
    DEF ClearReload, Reload, DaemonReload, MovesTo, Control, Here, Binding
  <2>5. HookInv' \/ Unbinding'
    <3>1. /\ ~HasDropin(hook.osd) /\ hook.osd \in clears
          /\ hook.osd \in OSDs
      BY <1>3, InClear DEF ClearReload, Reload, Unbinding, Here
    <3>2. HookInv' \/ (MovesTo("clear-reloaded", hook.then) /\ DaemonReload)
      BY <1>3, <2>1, FailedEnds DEF ClearReload, Reload
    <3>3. DaemonReload => loaded'[hook.osd] = {}
      BY <3>1 DEF DaemonReload, HasDropin
    <3>4. QED
      BY <1>3, <3>1, <3>2, <3>3, InClear
      DEF ClearReload, Reload, MovesTo, Unbinding, HasDropin
  <2>6. HookInv' \/ Through'
    BY <1>3, <2>1
    DEF ClearReload, Reload, DaemonReload, MovesTo, Control, Here, Through,
        Settled, HasDropin, Binding, Unbinding
  <2>7. QED
    BY <2>1, <2>2, <2>3, <2>4, <2>5, <2>6 DEF Here, MovesTo
<1>4. ASSUME ClearReloaded PROVE HookInv'
  <2>1. MovesTo("clear-restart", hook.then) \/ MovesTo("clear-done", hook.then)
    BY <1>4, GotoMoves DEF ClearReloaded, Places
  <2>2. Control'
    BY <1>4, <2>1 DEF ClearReloaded, MovesTo, Control, HookType
  <2>3. Journaling'
    BY <1>4, <2>1
    DEF ClearReloaded, MovesTo, Control, Here, Journaling, Known, Recorded,
        Journaled
  <2>4. Binding'
    BY <1>4, <2>1 DEF ClearReloaded, MovesTo, Control, Here, Binding
  <2>5. Unbinding'
    <3>1. ~HasDropin(hook.osd) /\ loaded[hook.osd] = {}
      BY <1>4 DEF ClearReloaded, Unbinding, Here
    <3>2. \/ MovesTo("clear-restart", hook.then) /\ hook.unpin
          \/ MovesTo("clear-done", hook.then) /\ ~hook.unpin
      BY <1>4, <2>1 DEF ClearReloaded, MovesTo, Goto, HookType
    <3>3. QED
      BY <1>4, <3>1, <3>2, InClear
      DEF ClearReloaded, MovesTo, Unbinding, HasDropin
  <2>6. Through'
    BY <1>4, <2>1
    DEF ClearReloaded, MovesTo, Control, Here, Through, Settled, HasDropin,
        Binding, Unbinding
  <2>7. QED
    BY <2>1, <2>2, <2>3, <2>4, <2>5, <2>6 DEF Here, MovesTo
<1>5. ASSUME ClearRestart PROVE HookInv'
  <2>1. HookInv' \/ MovesTo("clear-done", hook.then)
    BY <1>5, GotoMoves, FailedEnds DEF ClearRestart, Restart, Places
  <2>2. HookInv' \/ Control'
    BY <1>5, <2>1 DEF ClearRestart, Restart, Launch, MovesTo, Control, HookType
  <2>3. HookInv' \/ Journaling'
    BY <1>5, <2>1
    DEF ClearRestart, Restart, Launch, MovesTo, Control, Here, Journaling,
        Known, Recorded, Journaled
  <2>4. HookInv' \/ Binding'
    BY <1>5, <2>1
    DEF ClearRestart, Restart, Launch, MovesTo, Control, Here, Binding
  <2>5. HookInv' \/ Unbinding'
    <3>1. /\ ~HasDropin(hook.osd) /\ loaded[hook.osd] = {}
          /\ hook.osd \notin clears /\ hook.unpin
      BY <1>5 DEF ClearRestart, Restart, Unbinding, Here
    <3>2. HookInv' \/ (MovesTo("clear-done", hook.then) /\ Launch(Osd))
      BY <1>5, <2>1, FailedEnds DEF ClearRestart, Restart, HookType
    <3>3. QED
      BY <1>5, <3>1, <3>2, InClear
      DEF ClearRestart, Restart, Launch, MovesTo, Unbinding, HasDropin
  <2>6. HookInv' \/ Through'
    BY <1>5, <2>1
    DEF ClearRestart, Restart, Launch, MovesTo, Control, Here, Through,
        Settled, HasDropin, Binding, Unbinding
  <2>7. QED
    BY <2>1, <2>2, <2>3, <2>4, <2>5, <2>6 DEF Here, MovesTo
<1>6. ASSUME ClearDone PROVE HookInv'
  <2>1. MovesTo(hook.then, hook.then)
    BY <1>6, ReturnMoves DEF ClearDone
  <2>2. QED
    BY <1>6, <2>1
    DEF ClearDone, MovesTo, Here, Through, Journaling, Binding, Unbinding,
        Settled, Control, Known, Recorded, Journaled, HasDropin
<1>7. QED
  BY <1>1, <1>2, <1>3, <1>4, <1>5, <1>6 DEF Clearing

\* Applying a grant: journal, write, reload, restart, verify, record.
LEMMA ApplyingHeld == ASSUME AllocInv, Applying PROVE HookInv'
<1> USE DEF AllocInv, StoresInv, HookInv, StoresOK, Osd, At, world, systemd,
            journal, Plans, Journals, Replaces, Applies, Cleans, Claims, Clears,
            Stales, Orphans, Teardowns, Rests, Removals
<1>1. ASSUME Granted PROVE HookInv'
  <2>1. MovesTo("apply", hook.then)
    BY <1>1, GotoMoves DEF Granted, Places
  <2>2. Control'
    BY <1>1, <2>1
    DEF Granted, SetTransition, TransitionType, MovesTo, Control, HookType
  <2>3. Journaling'
    <3>1. Osd \in OSDs /\ Known(Osd)
      BY <1>1 DEF Granted, Here, Journaling, Control
    <3>2. CASE Journaled(Osd)
      <4>1. trans' = [trans EXCEPT ![Osd] = [trans[Osd] EXCEPT
                                     !.status = "allocated", !.node = hook.node]]
        BY <1>1, <3>2 DEF Granted, SetTransition
      <4>2. trans'[Osd].status = "allocated" /\ hook'.osd = hook.osd
        BY <2>1, <3>1, <4>1 DEF TransitionType, MovesTo
      <4>3. QED
        BY <1>1, <2>1, <4>2 DEF Granted, MovesTo, Journaling, Known, Journaled
    <3>3. CASE ~Journaled(Osd)
      BY <1>1, <2>1, <3>1, <3>3
      DEF Granted, MovesTo, Journaling, Known, Recorded, Journaled
    <3>4. QED
      BY <3>2, <3>3
  <2>4. Binding'
    BY <1>1, <2>1
    DEF Granted, SetTransition, TransitionType, MovesTo, Control, Here, Binding
  <2>5. Unbinding'
    BY <1>1, <2>1
    DEF Granted, SetTransition, TransitionType, MovesTo, Control, Here,
        Unbinding, HasDropin
  <2>6. Through'
    BY <1>1, <2>1
    DEF Granted, SetTransition, TransitionType, MovesTo, Control, Here,
        Through, Settled, HasDropin, Binding, Unbinding
  <2>7. QED
    BY <2>1, <2>2, <2>3, <2>4, <2>5, <2>6 DEF Here, MovesTo
<1>2. ASSUME ApplyMark PROVE HookInv'
  <2>1. \/ HookInv'
        \/ MovesTo("apply-write", hook.then)
        \/ MovesTo("record", hook.then)
    BY <1>2, GotoMoves, FailedEnds DEF ApplyMark, Places
  <2>2. HookInv' \/ Control'
    BY <1>2, <2>1 DEF ApplyMark, Content, Enforced, MovesTo, Control, HookType
  <2>3. HookInv' \/ Journaling'
    BY <1>2, <2>1
    DEF ApplyMark, Content, Enforced, MovesTo, Control, Here, Journaling,
        Known, Recorded, Journaled
  <2>4. HookInv' \/ Binding'
    <3>1. /\ hook.osd \in OSDs /\ hook.cores # {}
          /\ hook.cores \subseteq claims[hook.osd]
      BY <1>2 DEF ApplyMark, Here, Binding, Control
    <3>2. \/ HookInv'
          \/ MovesTo("apply-write", hook.then) /\ hook.osd \in restarts'
          \/ MovesTo("record", hook.then) /\ dropin[hook.osd].cores = hook.cores
      BY <1>2, GotoMoves, FailedEnds DEF ApplyMark, Content, Places
    <3>3. QED
      BY <1>2, <3>1, <3>2 DEF ApplyMark, MovesTo, Binding
  <2>5. HookInv' \/ Unbinding'
    BY <1>2, <2>1
    DEF ApplyMark, Content, Enforced, MovesTo, Control, Here, Unbinding,
        HasDropin
  <2>6. HookInv' \/ Through'
    BY <1>2, <2>1
    DEF ApplyMark, Content, Enforced, MovesTo, Control, Here, Through, Settled,
        HasDropin, Binding, Unbinding
  <2>7. QED
    BY <2>1, <2>2, <2>3, <2>4, <2>5, <2>6 DEF Here, MovesTo
<1>3. ASSUME ApplyWrite PROVE HookInv'
  <2>1. MovesTo("apply-reload", hook.then)
    BY <1>3, GotoMoves DEF ApplyWrite, Places
  <2>2. QED
    BY <1>3, <2>1
    DEF ApplyWrite, Content, MovesTo, Here, Through, Journaling, Binding,
        Unbinding, Settled, Control, Known, Recorded, Journaled, HasDropin
<1>4. ASSUME ApplyReload PROVE HookInv'
  <2>1. HookInv' \/ MovesTo("apply-restart", hook.then)
    BY <1>4, GotoMoves, FailedEnds DEF ApplyReload, Reload, Places
  <2>2. HookInv' \/ Control'
    BY <1>4, <2>1
    DEF ApplyReload, Reload, DaemonReload, MovesTo, Control, HookType
  <2>3. HookInv' \/ Journaling'
    BY <1>4, <2>1
    DEF ApplyReload, Reload, DaemonReload, MovesTo, Control, Here, Journaling,
        Known, Recorded, Journaled
  <2>4. HookInv' \/ Binding'
    <3>1. /\ hook.osd \in OSDs /\ hook.cores # {}
          /\ hook.cores \subseteq claims[hook.osd]
          /\ hook.osd \in restarts /\ dropin[hook.osd].cores = hook.cores
      BY <1>4 DEF ApplyReload, Reload, Here, Binding, Control
    <3>2. HookInv' \/ (MovesTo("apply-restart", hook.then) /\ DaemonReload)
      BY <1>4, <2>1, FailedEnds DEF ApplyReload, Reload
    <3>3. DaemonReload => loaded'[hook.osd] = hook.cores
      BY <3>1 DEF DaemonReload
    <3>4. QED
      BY <1>4, <3>1, <3>2, <3>3 DEF ApplyReload, Reload, MovesTo, Binding
  <2>5. HookInv' \/ Unbinding'
    BY <1>4, <2>1
    DEF ApplyReload, Reload, DaemonReload, MovesTo, Control, Here, Unbinding,
        HasDropin
  <2>6. HookInv' \/ Through'
    BY <1>4, <2>1
    DEF ApplyReload, Reload, DaemonReload, MovesTo, Control, Here, Through,
        Settled, HasDropin, Binding, Unbinding
  <2>7. QED
    BY <2>1, <2>2, <2>3, <2>4, <2>5, <2>6 DEF Here, MovesTo
<1>5. ASSUME ApplyRestart PROVE HookInv'
  <2>1. HookInv' \/ MovesTo("apply-verify", hook.then)
    BY <1>5, GotoMoves, FailedEnds DEF ApplyRestart, Restart, Places
  <2>2. HookInv' \/ Control'
    BY <1>5, <2>1 DEF ApplyRestart, Restart, Launch, MovesTo, Control, HookType
  <2>3. HookInv' \/ Journaling'
    BY <1>5, <2>1
    DEF ApplyRestart, Restart, Launch, MovesTo, Control, Here, Journaling,
        Known, Recorded, Journaled
  <2>4. HookInv' \/ Binding'
    <3>1. /\ hook.osd \in OSDs /\ hook.cores # {}
          /\ hook.cores \subseteq claims[hook.osd]
          /\ hook.osd \in restarts /\ dropin[hook.osd].cores = hook.cores
          /\ loaded[hook.osd] = hook.cores
      BY <1>5 DEF ApplyRestart, Restart, Here, Binding, Control
    <3>2. HookInv' \/ (MovesTo("apply-verify", hook.then) /\ Launch(Osd))
      BY <1>5, <2>1, FailedEnds DEF ApplyRestart, Restart
    <3>3. QED
      BY <1>5, <3>1, <3>2 DEF ApplyRestart, Restart, Launch, MovesTo, Binding
  <2>5. HookInv' \/ Unbinding'
    BY <1>5, <2>1
    DEF ApplyRestart, Restart, Launch, MovesTo, Control, Here, Unbinding,
        HasDropin
  <2>6. HookInv' \/ Through'
    BY <1>5, <2>1
    DEF ApplyRestart, Restart, Launch, MovesTo, Control, Here, Through,
        Settled, HasDropin, Binding, Unbinding
  <2>7. QED
    BY <2>1, <2>2, <2>3, <2>4, <2>5, <2>6 DEF Here, MovesTo
<1>6. ASSUME ApplyVerify PROVE HookInv'
  <2>1. HookInv' \/ MovesTo("record", hook.then)
    BY <1>6, GotoMoves, FailedEnds DEF ApplyVerify, Places
  <2>2. QED
    BY <1>6, <2>1
    DEF ApplyVerify, Enforced, MovesTo, Here, Through, Journaling, Binding,
        Unbinding, Settled, Control, Known, Recorded, Journaled, HasDropin
<1>7. ASSUME Record PROVE HookInv'
  <2>1. GoesOn("osd", "finish", FALSE)
    BY <1>7, AdvanceMoves DEF Record, Places
  <2>2. Control'
    BY <1>7, <2>1 DEF Record, NoTransition, GoesOn, Control, HookType
  <2>3. Journaling'
    BY <1>7, <2>1
    DEF Record, NoTransition, GoesOn, Control, Here, Journaling, Known,
        Recorded, Journaled
  <2>4. Binding'
    BY <1>7, <2>1 DEF Record, NoTransition, GoesOn, Control, Here, Binding
  <2>5. Unbinding'
    BY <1>7, <2>1
    DEF Record, NoTransition, GoesOn, Control, Here, Unbinding, HasDropin
  <2>6. Through'
    BY <1>7, <2>1
    DEF Record, NoTransition, GoesOn, Control, Here, Through, Settled,
        HasDropin, Binding, Unbinding
  <2>7. QED
    BY <2>1, <2>2, <2>3, <2>4, <2>5, <2>6 DEF Here, GoesOn
<1>8. QED
  BY <1>1, <1>2, <1>3, <1>4, <1>5, <1>6, <1>7 DEF Applying

\* Choosing the next OSD, and the end of a reconcile.
LEMMA ReconcilingHeld == ASSUME AllocInv, Reconciling PROVE HookInv'
<1> USE DEF AllocInv, StoresInv, HookInv, StoresOK, Osd, At, world, systemd,
            journal, Plans, Journals, Replaces, Applies, Cleans, Claims, Clears,
            Stales, Orphans, Teardowns, Rests, Removals
<1>1. ASSUME StaleOsd PROVE HookInv'
  <2>1. \/ GoesOn("stale", "plan", FALSE)
        \/ MovesTo("clear", "stale-release") /\ Osd \notin active
    BY <1>1, AdvanceMoves, CallMoves DEF StaleOsd, Places
  <2>2. Control'
    BY <1>1, <2>1 DEF StaleOsd, OnlyControl, MovesTo, GoesOn, Control, HookType
  <2>3. Journaling'
    BY <1>1, <2>1
    DEF StaleOsd, OnlyControl, MovesTo, GoesOn, Control, Here, Journaling,
        Known, Recorded, Journaled
  <2>4. Binding'
    BY <1>1, <2>1
    DEF StaleOsd, OnlyControl, MovesTo, GoesOn, Control, Here, Binding
  <2>5. Unbinding'
    BY <1>1, <2>1
    DEF StaleOsd, OnlyControl, MovesTo, GoesOn, Control, Here, Unbinding,
        HasDropin
  <2>6. Through'
    BY <1>1, <2>1
    DEF StaleOsd, OnlyControl, MovesTo, GoesOn, Control, Here, Through,
        Settled, HasDropin, Binding, Unbinding
  <2>7. QED
    BY <2>1, <2>2, <2>3, <2>4, <2>5, <2>6 DEF Here, MovesTo, GoesOn
<1>2. ASSUME StaleRelease PROVE HookInv'
  <2>1. HookInv' \/ MovesTo("stale-forget", hook.then)
    BY <1>2, GotoMoves, FailedEnds
    DEF StaleRelease, OnlyControl, ReleaseCall, Places
  <2>2. QED
    BY <1>2, <2>1
    DEF StaleRelease, OnlyControl, ReleaseCall, MovesTo, Here, Through,
        Journaling, Binding, Unbinding, Settled, Control, Known, Recorded,
        Journaled, HasDropin
<1>3. ASSUME StaleForget PROVE HookInv'
  <2>1. GoesOn("stale", "plan", FALSE)
    BY <1>3, AdvanceMoves DEF StaleForget, Places
  <2>2. Control'
    BY <1>3, <2>1
    DEF StaleForget, NoRecord, NoTransition, GoesOn, Control, HookType
  <2>3. Journaling'
    BY <1>3, <2>1
    DEF StaleForget, NoRecord, NoTransition, GoesOn, Control, Here, Journaling,
        Known, Recorded, Journaled
  <2>4. Binding'
    BY <1>3, <2>1
    DEF StaleForget, NoRecord, NoTransition, GoesOn, Control, Here, Binding
  <2>5. Unbinding'
    BY <1>3, <2>1
    DEF StaleForget, NoRecord, NoTransition, GoesOn, Control, Here, Unbinding,
        HasDropin
  <2>6. Through'
    BY <1>3, <2>1
    DEF StaleForget, NoRecord, NoTransition, GoesOn, Control, Here, Through,
        Settled, HasDropin, Binding, Unbinding
  <2>7. QED
    BY <2>1, <2>2, <2>3, <2>4, <2>5, <2>6 DEF Here, GoesOn
<1>4. ASSUME Plan PROVE HookInv'
  <2>1. /\ hook.pc = "plan" /\ hook.op = "reconcile"
        /\ hook.profile \in Profiles
        /\ UNCHANGED <<world, claims, systemd, journal>>
    BY <1>4 DEF Plan, OnlyControl, Control
  <2>2. CASE local = {}
    <3>1. MovesTo("finish", hook.then)
      BY <1>4, <2>2, GotoMoves DEF Plan, Places
    <3>2. QED
      BY <2>1, <2>2, <3>1
      DEF MovesTo, Control, Here, Journaling, Binding, Unbinding, Through
  <2>3. CASE hook' = Idle
    BY <2>3, IdleHolds
  <2>4. CASE /\ local # {}
             /\ hook' = [hook EXCEPT !.pc = "osd", !.osd = Least(local),
                           !.todo = local \ {Least(local)}, !.then = "idle"]
    <3>1. Least(local) \in local
      BY <2>4, LeastOsd
    <3>2. /\ hook' \in HookType /\ hook'.pc = "osd"
          /\ hook'.op = hook.op /\ hook'.profile = hook.profile
          /\ hook'.then = "idle" /\ hook'.osd \in OSDs
          /\ local \ (hook'.todo \cup {hook'.osd}) = {}
      BY <2>4, <3>1 DEF HookType, Places
    <3>3. QED
      BY <2>1, <3>2 DEF Control, Here, Journaling, Binding, Unbinding, Through
  <2>5. QED
    BY <1>4, <2>2, <2>3, <2>4 DEF Plan
<1>5. ASSUME Orphan PROVE HookInv'
  <2>1. \/ GoesOn("orphan", "finish", TRUE)
        \/ MovesTo("orphan-release", hook.then) /\ ~HasDropin(Osd)
    BY <1>5, AdvanceMoves, GotoMoves
    DEF Orphan, ClaimMayBackEnforcement, Places
  <2>2. Control'
    BY <1>5, <2>1
    DEF Orphan, SetTransition, OnlyControl, ClaimMayBackEnforcement, MovesTo,
        GoesOn, Control, HookType
  <2>3. Journaling'
    BY <1>5, <2>1
    DEF Orphan, SetTransition, OnlyControl, ClaimMayBackEnforcement, MovesTo,
        GoesOn, Control, Here, Journaling, Known, Recorded, Journaled
  <2>4. Binding'
    BY <1>5, <2>1
    DEF Orphan, SetTransition, OnlyControl, ClaimMayBackEnforcement, MovesTo,
        GoesOn, Control, Here, Binding
  <2>5. Unbinding'
    BY <1>5, <2>1
    DEF Orphan, SetTransition, OnlyControl, ClaimMayBackEnforcement, MovesTo,
        GoesOn, Control, Here, Unbinding, HasDropin
  <2>6. Through'
    BY <1>5, <2>1
    DEF Orphan, SetTransition, OnlyControl, ClaimMayBackEnforcement, MovesTo,
        GoesOn, Control, Here, Through, Settled, HasDropin, Binding, Unbinding
  <2>7. QED
    BY <2>1, <2>2, <2>3, <2>4, <2>5, <2>6 DEF Here, MovesTo, GoesOn
<1>6. ASSUME OrphanRelease PROVE HookInv'
  <2>1. GoesOn("orphan", "finish", TRUE) \/ MovesTo("orphan-forget", hook.then)
    BY <1>6, AdvanceMoves, GotoMoves DEF OrphanRelease, ReleaseCall, Places
  <2>2. Control'
    BY <1>6, <2>1
    DEF OrphanRelease, ReleaseCall, MovesTo, GoesOn, Control, HookType
  <2>3. Journaling'
    BY <1>6, <2>1
    DEF OrphanRelease, ReleaseCall, MovesTo, GoesOn, Control, Here, Journaling,
        Known, Recorded, Journaled
  <2>4. Binding'
    BY <1>6, <2>1
    DEF OrphanRelease, ReleaseCall, MovesTo, GoesOn, Control, Here, Binding
  <2>5. Unbinding'
    BY <1>6, <2>1
    DEF OrphanRelease, ReleaseCall, MovesTo, GoesOn, Control, Here, Unbinding,
        HasDropin
  <2>6. Through'
    BY <1>6, <2>1
    DEF OrphanRelease, ReleaseCall, MovesTo, GoesOn, Control, Here, Through,
        Settled, HasDropin, Binding, Unbinding
  <2>7. QED
    BY <2>1, <2>2, <2>3, <2>4, <2>5, <2>6 DEF Here, MovesTo, GoesOn
<1>7. ASSUME OrphanForget PROVE HookInv'
  <2>1. GoesOn("orphan", "finish", hook.err)
    BY <1>7, AdvanceMoves DEF OrphanForget, Places, HookType
  <2>2. Control'
    BY <1>7, <2>1
    DEF OrphanForget, SetTransition, NoTransition, GoesOn, Control, HookType
  <2>3. Journaling'
    BY <1>7, <2>1
    DEF OrphanForget, SetTransition, NoTransition, GoesOn, Control, Here,
        Journaling, Known, Recorded, Journaled
  <2>4. Binding'
    BY <1>7, <2>1
    DEF OrphanForget, SetTransition, NoTransition, GoesOn, Control, Here,
        Binding
  <2>5. Unbinding'
    BY <1>7, <2>1
    DEF OrphanForget, SetTransition, NoTransition, GoesOn, Control, Here,
        Unbinding, HasDropin
  <2>6. Through'
    BY <1>7, <2>1
    DEF OrphanForget, SetTransition, NoTransition, GoesOn, Control, Here,
        Through, Settled, HasDropin, Binding, Unbinding
  <2>7. QED
    BY <2>1, <2>2, <2>3, <2>4, <2>5, <2>6 DEF Here, GoesOn
<1>8. ASSUME Finish PROVE HookInv'
  <2>1. HookInv' \/ MovesTo("handoff", hook.then)
    BY <1>8, GotoMoves, IdleHolds DEF Finish, Places
  <2>2. HookInv' \/ Control'
    BY <1>8, <2>1 DEF Finish, OnlyControl, Idle, MovesTo, Control, HookType
  <2>3. HookInv' \/ Journaling'
    BY <1>8, <2>1
    DEF Finish, OnlyControl, Idle, MovesTo, Control, Here, Journaling, Known,
        Recorded, Journaled
  <2>4. HookInv' \/ Binding'
    BY <1>8, <2>1
    DEF Finish, OnlyControl, Idle, MovesTo, Control, Here, Binding
  <2>5. HookInv' \/ Unbinding'
    BY <1>8, <2>1
    DEF Finish, OnlyControl, Idle, MovesTo, Control, Here, Unbinding, HasDropin
  <2>6. HookInv' \/ Through'
    BY <1>8, <2>1
    DEF Finish, OnlyControl, Idle, MovesTo, Control, Here, Through, Settled,
        HasDropin, Binding, Unbinding
  <2>7. QED
    BY <2>1, <2>2, <2>3, <2>4, <2>5, <2>6 DEF Here, MovesTo
<1>9. ASSUME Handoff PROVE HookInv'
  BY <1>9, IdleHolds DEF Handoff
<1>10. QED
  BY <1>1, <1>2, <1>3, <1>4, <1>5, <1>6, <1>7, <1>8, <1>9 DEF Reconciling

\* An OSD under a profile that insists on its node.
LEMMA StrictStepHeld == ASSUME AllocInv, StrictStep PROVE HookInv'
<1> USE DEF AllocInv, StoresInv, HookInv, StoresOK, Osd, At, world, systemd,
            journal, Plans, Journals, Replaces, Applies, Cleans, Claims, Clears,
            Stales, Orphans, Teardowns, Rests, Removals
<1>1. ASSUME StrictOsd PROVE HookInv'
  <2>1. /\ Osd \in OSDs /\ hook.pc = "osd" /\ hook.op = "reconcile"
        /\ hook.profile \in Profiles
        /\ UNCHANGED <<world, claims, systemd, recs, tear, restarts, clears>>
    BY <1>1 DEF StrictOsd, OnlyControl, BeginNewClaim, SetTransition, Control
  <2>2. hook' = [hook EXCEPT !.pc = "claim", !.new = TRUE] =>
          MovesTo("claim", hook.then)
    BY DEF MovesTo, HookType, Places
  <2>3. \/ HookInv'
        \/ /\ \/ MovesTo("claim", hook.then)
              \/ MovesTo("replace", "claim") \/ MovesTo("replace", "rejournal")
           /\ recs'[Osd].cores # {} \/ trans'[Osd].status # "none"
    <3>1. CASE NeedsTransition(Osd, Request)
      BY <1>1, <2>1, <3>1, GotoMoves, CallMoves
      DEF StrictOsd, NeedsTransition, Recorded, Places
    <3>2. CASE ~NeedsTransition(Osd, Request) /\ Recorded(Osd)
      BY <1>1, <2>1, <3>2, GotoMoves DEF StrictOsd, Recorded, Places
    <3>3. CASE /\ ~NeedsTransition(Osd, Request) /\ ~Recorded(Osd)
               /\ NewTransitionMatches(Osd, Request)
      <4>1. Journaled(Osd)
        BY <2>1, <3>3 DEF NewTransitionMatches, Everywhere
      <4>2. QED
        BY <1>1, <2>2, <3>3, <4>1, CallMoves
        DEF StrictOsd, OnlyControl, Journaled, Places
    <3>4. CASE /\ ~NeedsTransition(Osd, Request) /\ ~Recorded(Osd)
               /\ ~NewTransitionMatches(Osd, Request)
      <4>1. CASE Failed
        BY <2>1, <4>1, FailedEnds
      <4>2. CASE /\ BeginNewClaim
                 /\ hook' = [hook EXCEPT !.pc = "claim", !.new = TRUE]
        BY <2>1, <2>2, <4>2 DEF BeginNewClaim, SetTransition
      <4>3. QED
        BY <1>1, <3>4, <4>1, <4>2 DEF StrictOsd
    <3>5. QED
      BY <3>1, <3>2, <3>3, <3>4
  <2>4. HookInv' \/ Control'
    BY <2>1, <2>3 DEF MovesTo, Control
  <2>5. HookInv' \/ Here'
    BY <2>1, <2>3
    DEF MovesTo, Here, Journaling, Binding, Unbinding, Known, Recorded,
        Journaled
  <2>6. HookInv' \/ Through'
    BY <2>1, <2>3 DEF MovesTo, Through, Settled, HasDropin
  <2>7. QED
    BY <2>3, <2>4, <2>5, <2>6 DEF MovesTo
<1>2. ASSUME StrictRejournal PROVE HookInv'
  <2>1. MovesTo("claim", hook.then)
    BY <1>2 DEF StrictRejournal, MovesTo, HookType, Places
  <2>2. Control'
    BY <1>2, <2>1
    DEF StrictRejournal, SetTransition, TransitionType, MovesTo, Control,
        HookType
  <2>3. Journaling'
    BY <1>2, <2>1
    DEF StrictRejournal, SetTransition, TransitionType, MovesTo, Control, Here,
        Journaling, Known, Recorded, Journaled
  <2>4. Binding'
    BY <1>2, <2>1
    DEF StrictRejournal, SetTransition, TransitionType, MovesTo, Control, Here,
        Binding
  <2>5. Unbinding'
    BY <1>2, <2>1
    DEF StrictRejournal, SetTransition, TransitionType, MovesTo, Control, Here,
        Unbinding, HasDropin
  <2>6. Through'
    BY <1>2, <2>1
    DEF StrictRejournal, SetTransition, TransitionType, MovesTo, Control, Here,
        Through, Settled, HasDropin, Binding, Unbinding
  <2>7. QED
    BY <2>1, <2>2, <2>3, <2>4, <2>5, <2>6 DEF Here, MovesTo
<1>3. ASSUME StrictClaim PROVE HookInv'
  <2>1. /\ Osd \in OSDs /\ hook.pc = "claim" /\ hook.op = "reconcile"
        /\ hook.profile \in Profiles /\ Known(Osd)
        /\ Request.node \in Shapes /\ Request.count \in Nat \ {0}
        /\ UNCHANGED <<world, systemd, journal>>
        /\ \/ UNCHANGED claims
           \/ \E S \in SUBSET Cpus : claims' = [claims EXCEPT ![Osd] = S]
    BY <1>3, RequestTyped, ClaimMakes
    DEF StrictClaim, ClaimCall, Control, Here, Journaling, Shapes
  <2>2. \/ HookInv'
        \/ GrantedTo
        \/ MovesTo("cleanup", hook.then)
    BY <1>3, <2>1, ClaimMakes, GotoMoves, FailedEnds
    DEF StrictClaim, ClaimCall, StrictGiveUp, Places
  <2>4. HookInv' \/ Control'
    BY <2>1, <2>2 DEF MovesTo, GrantedTo, Control
  <2>5. HookInv' \/ Here'
    BY <2>1, <2>2
    DEF MovesTo, GrantedTo, Here, Journaling, Binding, Unbinding, Known,
        Recorded, Journaled
  <2>6. HookInv' \/ Through'
    BY <2>1, <2>2 DEF MovesTo, GrantedTo, Through, Settled, HasDropin
  <2>7. QED
    BY <2>2, <2>4, <2>5, <2>6 DEF MovesTo, GrantedTo
<1>4. ASSUME Cleanup PROVE HookInv'
  <2>1. HookInv' \/ (MovesTo("cleanup-release", hook.then) /\ ~HasDropin(Osd))
    BY <1>4, GotoMoves, FailedEnds
    DEF Cleanup, OnlyControl, ClaimMayBackEnforcement, Places
  <2>2. HookInv' \/ Control'
    BY <1>4, <2>1
    DEF Cleanup, SetTransition, OnlyControl, ClaimMayBackEnforcement,
        TransitionType, MovesTo, Control, HookType
  <2>3. HookInv' \/ Journaling'
    BY <1>4, <2>1
    DEF Cleanup, SetTransition, OnlyControl, ClaimMayBackEnforcement,
        TransitionType, MovesTo, Control, Here, Journaling, Known, Recorded,
        Journaled
  <2>4. HookInv' \/ Binding'
    BY <1>4, <2>1
    DEF Cleanup, SetTransition, OnlyControl, ClaimMayBackEnforcement,
        TransitionType, MovesTo, Control, Here, Binding
  <2>5. HookInv' \/ Unbinding'
    BY <1>4, <2>1
    DEF Cleanup, SetTransition, OnlyControl, ClaimMayBackEnforcement,
        TransitionType, MovesTo, Control, Here, Unbinding, HasDropin
  <2>6. HookInv' \/ Through'
    BY <1>4, <2>1
    DEF Cleanup, SetTransition, OnlyControl, ClaimMayBackEnforcement,
        TransitionType, MovesTo, Control, Here, Through, Settled, HasDropin,
        Binding, Unbinding
  <2>7. QED
    BY <2>1, <2>2, <2>3, <2>4, <2>5, <2>6 DEF Here, MovesTo
<1>5. ASSUME CleanupRelease PROVE HookInv'
  <2>1. HookInv' \/ MovesTo("cleanup-forget", hook.then)
    BY <1>5, GotoMoves, FailedEnds DEF CleanupRelease, ReleaseCall, Places
  <2>2. QED
    BY <1>5, <2>1
    DEF CleanupRelease, ReleaseCall, MovesTo, Here, Through, Journaling,
        Binding, Unbinding, Settled, Control, Known, Recorded, Journaled,
        HasDropin
<1>6. ASSUME CleanupForget PROVE HookInv'
  BY <1>6, FailedEnds DEF CleanupForget, SetTransition
<1>7. QED
  BY <1>1, <1>2, <1>3, <1>4, <1>5, <1>6 DEF StrictStep

\* An OSD under a profile that takes what it can get.
LEMMA FlexibleStepHeld == ASSUME AllocInv, FlexibleStep PROVE HookInv'
<1> USE DEF AllocInv, StoresInv, HookInv, StoresOK, Osd, At, world, systemd,
            journal, Plans, Journals, Replaces, Applies, Cleans, Claims, Clears,
            Stales, Orphans, Teardowns, Rests, Removals
<1>1. ASSUME FlexibleOsd PROVE HookInv'
  <2>1. \/ MovesTo("first", hook.then)
        \/ MovesTo("replace", "first") /\ Journaled(Osd)
    BY <1>1, GotoMoves, CallMoves DEF FlexibleOsd, Journaled, Places
  <2>2. Control'
    BY <1>1, <2>1 DEF FlexibleOsd, OnlyControl, MovesTo, Control, HookType
  <2>3. Journaling'
    BY <1>1, <2>1
    DEF FlexibleOsd, OnlyControl, MovesTo, Control, Here, Journaling, Known,
        Recorded, Journaled
  <2>4. Binding'
    BY <1>1, <2>1 DEF FlexibleOsd, OnlyControl, MovesTo, Control, Here, Binding
  <2>5. Unbinding'
    BY <1>1, <2>1
    DEF FlexibleOsd, OnlyControl, MovesTo, Control, Here, Unbinding, HasDropin
  <2>6. Through'
    BY <1>1, <2>1
    DEF FlexibleOsd, OnlyControl, MovesTo, Control, Here, Through, Settled,
        HasDropin, Binding, Unbinding
  <2>7. QED
    BY <2>1, <2>2, <2>3, <2>4, <2>5, <2>6 DEF Here, MovesTo
<1>2. ASSUME FlexibleFirst PROVE HookInv'
  <2>1. /\ Osd \in OSDs /\ hook.pc = "first" /\ hook.op = "reconcile"
        /\ hook.profile \in Profiles
        /\ UNCHANGED <<world, claims, systemd, recs, tear, restarts, clears>>
    BY <1>2
    DEF FlexibleFirst, OnlyControl, BeginNewClaim, SetTransition, Control
  <2>2. trans[Osd].new => Journaled(Osd)
    BY <2>1 DEF Everywhere
  <2>3. /\ MovesTo("reset", hook.then) \/ MovesTo("replace", "reset")
        /\ recs'[Osd].cores # {} \/ trans'[Osd].status # "none"
    BY <1>2, <2>1, <2>2, GotoMoves, CallMoves
    DEF FlexibleFirst, OnlyControl, BeginNewClaim, SetTransition, Recorded,
        Journaled, Places
  <2>4. Control'
    BY <2>1, <2>3 DEF MovesTo, Control
  <2>5. Here'
    BY <2>1, <2>3
    DEF MovesTo, Here, Journaling, Binding, Unbinding, Known, Recorded,
        Journaled
  <2>6. Through'
    BY <2>1, <2>3 DEF MovesTo, Through, Settled, HasDropin
  <2>7. QED
    BY <2>3, <2>4, <2>5, <2>6 DEF MovesTo
<1>3. ASSUME FlexibleReset PROVE HookInv'
  <2>1. /\ Osd \in OSDs /\ hook.pc = "reset" /\ hook.op = "reconcile"
        /\ hook.profile \in Profiles /\ Known(Osd)
        /\ UNCHANGED <<world, claims, systemd, recs, trans, tear, restarts,
                       clears>>
    BY <1>3 DEF FlexibleReset, OnlyControl, Control, Here, Journaling
  <2>2. \/ MovesTo("any", hook.then) \/ MovesTo("claim", hook.then)
        \/ MovesTo("replace", "any") \/ MovesTo("replace", "claim")
    BY <1>3, GotoMoves, CallMoves DEF FlexibleReset, Places
  <2>4. Control'
    BY <2>1, <2>2 DEF MovesTo, Control
  <2>5. Here'
    BY <2>1, <2>2
    DEF MovesTo, Here, Journaling, Binding, Unbinding, Known, Recorded,
        Journaled
  <2>6. Through'
    BY <2>1, <2>2 DEF MovesTo, Through, Settled, HasDropin
  <2>7. QED
    BY <2>2, <2>4, <2>5, <2>6 DEF MovesTo
<1>4. ASSUME FlexibleClaim PROVE HookInv'
  <2>1. /\ Osd \in OSDs /\ hook.pc = "claim" /\ hook.op = "reconcile"
        /\ hook.profile \in Profiles /\ Known(Osd)
        /\ Request.node \in Shapes /\ Request.count \in Nat \ {0}
        /\ UNCHANGED <<world, systemd, journal>>
        /\ \/ UNCHANGED claims
           \/ \E S \in SUBSET Cpus : claims' = [claims EXCEPT ![Osd] = S]
    BY <1>4, RequestTyped, ClaimMakes
    DEF FlexibleClaim, ClaimCall, Control, Here, Journaling, Shapes
  <2>2. \/ HookInv'
        \/ GrantedTo
        \/ MovesTo("replace", "any")
    BY <1>4, <2>1, ClaimMakes, CallMoves, FailedEnds
    DEF FlexibleClaim, ClaimCall, Places
  <2>4. HookInv' \/ Control'
    BY <2>1, <2>2 DEF MovesTo, GrantedTo, Control
  <2>5. HookInv' \/ Here'
    BY <2>1, <2>2
    DEF MovesTo, GrantedTo, Here, Journaling, Binding, Unbinding, Known,
        Recorded, Journaled
  <2>6. HookInv' \/ Through'
    BY <2>1, <2>2 DEF MovesTo, GrantedTo, Through, Settled, HasDropin
  <2>7. QED
    BY <2>2, <2>4, <2>5, <2>6 DEF MovesTo, GrantedTo
<1>5. ASSUME FlexibleAny PROVE HookInv'
  <2>1. MovesTo("any-claim", hook.then)
    BY <1>5, GotoMoves DEF FlexibleAny, Places
  <2>2. QED
    BY <1>5, <2>1
    DEF FlexibleAny, JournalClaimAttempt, SetTransition, MovesTo, Here,
        Through, Journaling, Binding, Unbinding, Settled, Control, Known,
        Recorded, Journaled, HasDropin
<1>6. ASSUME FlexibleAnyClaim PROVE HookInv'
  <2>1. /\ Osd \in OSDs /\ hook.pc = "any-claim" /\ hook.op = "reconcile"
        /\ hook.profile \in Profiles /\ Known(Osd)
        /\ AnyNode \in Shapes /\ Request.count \in Nat \ {0}
        /\ UNCHANGED <<world, systemd, journal>>
        /\ \/ UNCHANGED claims
           \/ \E S \in SUBSET Cpus : claims' = [claims EXCEPT ![Osd] = S]
    BY <1>6, RequestTyped, ClaimMakes
    DEF FlexibleAnyClaim, ClaimCall, Control, Here, Journaling, Shapes
  <2>2. \/ HookInv'
        \/ GrantedTo
        \/ MovesTo("fewer", hook.then)
    BY <1>6, <2>1, ClaimMakes, GotoMoves, FailedEnds
    DEF FlexibleAnyClaim, ClaimCall, Places
  <2>4. HookInv' \/ Control'
    BY <2>1, <2>2 DEF MovesTo, GrantedTo, Control
  <2>5. HookInv' \/ Here'
    BY <2>1, <2>2
    DEF MovesTo, GrantedTo, Here, Journaling, Binding, Unbinding, Known,
        Recorded, Journaled
  <2>6. HookInv' \/ Through'
    BY <2>1, <2>2 DEF MovesTo, GrantedTo, Through, Settled, HasDropin
  <2>7. QED
    BY <2>2, <2>4, <2>5, <2>6 DEF MovesTo, GrantedTo
<1>7. ASSUME FlexibleFewer PROVE HookInv'
  <2>1. /\ Osd \in OSDs /\ hook.pc = "fewer" /\ hook.op = "reconcile"
        /\ hook.profile \in Profiles /\ Known(Osd)
        /\ UNCHANGED <<world, claims, systemd, journal>>
    BY <1>7 DEF FlexibleFewer, Control, Here, Journaling
  <2>2. \/ HookInv'
        \/ MovesTo("unpin", hook.then)
        \/ /\ FreeForService(Osd) # {}
           /\ hook' = [hook EXCEPT !.pc = "fewer-journal",
                                       !.cores = FreeForService(Osd)]
    BY <1>7, <2>1, GotoMoves, FailedEnds DEF FlexibleFewer, Places
  <2>3. CASE MovesTo("unpin", hook.then)
    BY <2>1, <2>3
    DEF MovesTo, Control, Here, Journaling, Binding, Unbinding, Known,
        Recorded, Journaled, Through, Settled, HasDropin
  <2>4. CASE /\ FreeForService(Osd) # {}
             /\ hook' = [hook EXCEPT !.pc = "fewer-journal",
                                         !.cores = FreeForService(Osd)]
    <3>1. /\ hook' \in HookType /\ hook'.pc = "fewer-journal"
          /\ hook'.op = hook.op /\ hook'.profile = hook.profile
          /\ hook'.then = hook.then /\ hook'.osd = hook.osd
          /\ hook'.todo = hook.todo /\ hook'.unpin = hook.unpin
          /\ hook'.cores # {}
      <4>1. FreeForService(Osd) \in SUBSET Cpus
        BY DEF FreeForService
      <4>2. QED
        BY <2>4, <4>1 DEF HookType, Places
    <3>2. QED
      BY <2>1, <3>1
      DEF Control, Here, Journaling, Binding, Unbinding, Known, Recorded,
          Journaled, Through, Settled, HasDropin
  <2>5. QED
    BY <2>2, <2>3, <2>4
<1>8. ASSUME FlexibleFewerJournal PROVE HookInv'
  <2>1. MovesTo("fewer-claim", hook.then)
    BY <1>8, GotoMoves DEF FlexibleFewerJournal, Places
  <2>2. QED
    BY <1>8, <2>1
    DEF FlexibleFewerJournal, JournalClaimAttempt, SetTransition, MovesTo,
        Here, Through, Journaling, Binding, Unbinding, Settled, Control, Known,
        Recorded, Journaled, HasDropin
<1>9. ASSUME FlexibleFewerClaim PROVE HookInv'
  <2>1. /\ Osd \in OSDs /\ hook.pc = "fewer-claim" /\ hook.op = "reconcile"
        /\ hook.profile \in Profiles /\ Known(Osd)
        /\ AnyNode \in Shapes /\ Cardinality(hook.cores) \in Nat \ {0}
        /\ UNCHANGED <<world, systemd, journal>>
        /\ \/ UNCHANGED claims
           \/ \E S \in SUBSET Cpus : claims' = [claims EXCEPT ![Osd] = S]
    BY <1>9, CoresCounted, ClaimMakes
    DEF FlexibleFewerClaim, ClaimCall, Control, Here, Journaling, Shapes
  <2>2. \/ HookInv'
        \/ GrantedTo
        \/ MovesTo("unpin", hook.then)
    BY <1>9, <2>1, ClaimMakes, GotoMoves, FailedEnds
    DEF FlexibleFewerClaim, ClaimCall, Places
  <2>4. HookInv' \/ Control'
    BY <2>1, <2>2 DEF MovesTo, GrantedTo, Control
  <2>5. HookInv' \/ Here'
    BY <2>1, <2>2
    DEF MovesTo, GrantedTo, Here, Journaling, Binding, Unbinding, Known,
        Recorded, Journaled
  <2>6. HookInv' \/ Through'
    BY <2>1, <2>2 DEF MovesTo, GrantedTo, Through, Settled, HasDropin
  <2>7. QED
    BY <2>2, <2>4, <2>5, <2>6 DEF MovesTo, GrantedTo
<1>10. ASSUME FlexibleUnpin PROVE HookInv'
  <2>1. /\ Osd \in OSDs /\ hook.pc = "unpin" /\ hook.op = "reconcile"
        /\ hook.profile \in Profiles
        /\ UNCHANGED <<world, claims, systemd, journal>>
    BY <1>10 DEF FlexibleUnpin, OnlyControl, Control
  <2>2. /\ hook' \in HookType /\ hook'.pc = "clear"
        /\ hook'.op = hook.op /\ hook'.profile = hook.profile
        /\ hook'.then = "unpinned" /\ hook'.osd = hook.osd
        /\ hook'.todo = hook.todo /\ hook'.unpin
    BY <1>10 DEF FlexibleUnpin, HookType, Places
  <2>3. QED
    BY <2>1, <2>2
    DEF Control, Here, Journaling, Binding, Unbinding, Through, Settled,
        HasDropin
<1>11. ASSUME FlexibleUnpinned PROVE HookInv'
  <2>1. GoesOn("osd", "finish", FALSE)
    BY <1>11, AdvanceMoves DEF FlexibleUnpinned, Places
  <2>2. Control'
    BY <1>11, <2>1
    DEF FlexibleUnpinned, NoRecord, NoTransition, TransitionType, GoesOn,
        Control, HookType
  <2>3. Journaling'
    BY <1>11, <2>1
    DEF FlexibleUnpinned, NoRecord, NoTransition, TransitionType, GoesOn,
        Control, Here, Journaling, Known, Recorded, Journaled
  <2>4. Binding'
    BY <1>11, <2>1
    DEF FlexibleUnpinned, NoRecord, NoTransition, TransitionType, GoesOn,
        Control, Here, Binding
  <2>5. Unbinding'
    BY <1>11, <2>1
    DEF FlexibleUnpinned, NoRecord, NoTransition, TransitionType, GoesOn,
        Control, Here, Unbinding, HasDropin
  <2>6. Through'
    BY <1>11, <2>1
    DEF FlexibleUnpinned, NoRecord, NoTransition, TransitionType, GoesOn,
        Control, Here, Through, Settled, HasDropin, Binding, Unbinding
  <2>7. QED
    BY <2>1, <2>2, <2>3, <2>4, <2>5, <2>6 DEF Here, GoesOn
<1>12. QED
  BY <1>1, <1>2, <1>3, <1>4, <1>5, <1>6, <1>7, <1>8, <1>9, <1>10, <1>11
  DEF FlexibleStep

\* The removal of one disk, or of the unit.
LEMMA TearingDownHeld == ASSUME AllocInv, TearingDown PROVE HookInv'
<1> USE DEF AllocInv, StoresInv, HookInv, StoresOK, Osd, At, world, systemd,
            journal, Plans, Journals, Replaces, Applies, Cleans, Claims, Clears,
            Stales, Orphans, Teardowns, Rests, Removals
<1>1. ASSUME RemoveStop PROVE HookInv'
  <2>1. MovesTo("teardown", hook.then)
    BY <1>1, GotoMoves DEF RemoveStop, Places
  <2>2. QED
    BY <1>1, <2>1
    DEF RemoveStop, Halt, MovesTo, Here, Through, Journaling, Binding,
        Unbinding, Settled, Control, Known, Recorded, Journaled, HasDropin
<1>2. ASSUME Teardown PROVE HookInv'
  <2>1. \/ MovesTo("teardown-stop", hook.then) /\ Osd \in tear'
        \/ MovesTo("removed", hook.then)
        \/ GoesOn("teardown", "departed", hook.err)
    BY <1>2, GotoMoves, AdvanceMoves DEF Teardown, Places, HookType
  <2>2. Control'
    BY <1>2, <2>1 DEF Teardown, MovesTo, GoesOn, Control, HookType
  <2>3. Journaling'
    BY <1>2, <2>1
    DEF Teardown, MovesTo, GoesOn, Control, Here, Journaling, Known, Recorded,
        Journaled
  <2>4. Binding'
    BY <1>2, <2>1 DEF Teardown, MovesTo, GoesOn, Control, Here, Binding
  <2>5. Unbinding'
    BY <1>2, <2>1
    DEF Teardown, MovesTo, GoesOn, Control, Here, Unbinding, HasDropin
  <2>6. Through'
    BY <1>2, <2>1
    DEF Teardown, MovesTo, GoesOn, Control, Here, Through, Settled, HasDropin,
        Binding, Unbinding
  <2>7. QED
    BY <2>1, <2>2, <2>3, <2>4, <2>5, <2>6 DEF Here, MovesTo, GoesOn
<1>3. ASSUME TeardownStop PROVE HookInv'
  <2>1. HookInv' \/ (MovesTo("clear", "teardown-release") /\ Osd \notin active')
    BY <1>3, CallMoves, FailedEnds DEF TeardownStop, StopOsd, Halt, Places
  <2>2. HookInv' \/ Control'
    BY <1>3, <2>1 DEF TeardownStop, StopOsd, Halt, MovesTo, Control, HookType
  <2>3. HookInv' \/ Journaling'
    BY <1>3, <2>1
    DEF TeardownStop, StopOsd, Halt, MovesTo, Control, Here, Journaling, Known,
        Recorded, Journaled
  <2>4. HookInv' \/ Binding'
    BY <1>3, <2>1
    DEF TeardownStop, StopOsd, Halt, MovesTo, Control, Here, Binding
  <2>5. HookInv' \/ Unbinding'
    BY <1>3, <2>1
    DEF TeardownStop, StopOsd, Halt, MovesTo, Control, Here, Unbinding,
        HasDropin
  <2>6. HookInv' \/ Through'
    BY <1>3, <2>1
    DEF TeardownStop, StopOsd, Halt, MovesTo, Control, Here, Through, Settled,
        HasDropin, Binding, Unbinding
  <2>7. QED
    BY <2>1, <2>2, <2>3, <2>4, <2>5, <2>6 DEF Here, MovesTo
<1>4. ASSUME TeardownRelease PROVE HookInv'
  <2>1. HookInv' \/ MovesTo("teardown-complete", hook.then)
    BY <1>4, GotoMoves, FailedEnds DEF TeardownRelease, ReleaseCall, Places
  <2>2. QED
    BY <1>4, <2>1
    DEF TeardownRelease, ReleaseCall, MovesTo, Here, Through, Journaling,
        Binding, Unbinding, Settled, Control, Known, Recorded, Journaled,
        HasDropin
<1>5. ASSUME TeardownComplete PROVE HookInv'
  <2>1. MovesTo("removed", hook.then) \/ GoesOn("teardown", "departed", hook.err)
    BY <1>5, GotoMoves, AdvanceMoves DEF TeardownComplete, Places, HookType
  <2>2. Control'
    BY <1>5, <2>1
    DEF TeardownComplete, NoRecord, NoTransition, MovesTo, GoesOn, Control,
        HookType
  <2>3. Journaling'
    BY <1>5, <2>1
    DEF TeardownComplete, NoRecord, NoTransition, MovesTo, GoesOn, Control,
        Here, Journaling, Known, Recorded, Journaled
  <2>4. Binding'
    BY <1>5, <2>1
    DEF TeardownComplete, NoRecord, NoTransition, MovesTo, GoesOn, Control,
        Here, Binding
  <2>5. Unbinding'
    BY <1>5, <2>1
    DEF TeardownComplete, NoRecord, NoTransition, MovesTo, GoesOn, Control,
        Here, Unbinding, HasDropin
  <2>6. Through'
    BY <1>5, <2>1
    DEF TeardownComplete, NoRecord, NoTransition, MovesTo, GoesOn, Control,
        Here, Through, Settled, HasDropin, Binding, Unbinding
  <2>7. QED
    BY <2>1, <2>2, <2>3, <2>4, <2>5, <2>6 DEF Here, MovesTo, GoesOn
<1>6. ASSUME Removed PROVE HookInv'
  BY <1>6, IdleHolds DEF Removed
<1>7. ASSUME Departed PROVE HookInv'
  BY <1>7, IdleHolds DEF Departed
<1>8. QED
  BY <1>1, <1>2, <1>3, <1>4, <1>5, <1>6, <1>7 DEF TearingDown

-----------------------------------------------------------------------------
(* The environment and the start of a hook                                 *)

\* Between hooks, and while nothing but the host moves, the place stays true.
LEMMA AtRest ==
  ASSUME hook' \in HookType, hook'.pc = "idle"
  PROVE HookInv'
  BY DEF HookInv, Control, Here, Through, Journaling, Binding, Unbinding,
         Plans, Journals, Replaces, Applies, Cleans, Claims, Clears, Stales,
         Orphans, Teardowns, Rests, Removals, Osd

\* A reconcile starts with the OSDs it finds orphaned or stale.
LEMMA ReconcileHeld == ASSUME AllocInv, Reconcile PROVE HookInv'
<1> USE DEF AllocInv, StoresInv, HookInv, StoresOK
<1> DEFINE New == {o \in OSDs : trans[o].new}
           Gone == IF local = {} /\ restarts = {}
                      /\ \A o \in OSDs : ~Recorded(o) /\ ~Journaled(o)
                   THEN {} ELSE Stale
<1>1. New \subseteq OSDs /\ Gone \subseteq OSDs \ local
  BY DEF Stale
<1>2. ASSUME NEW todo \in SUBSET OSDs, NEW loop \in {"orphan", "stale"},
             NEW done \in {"finish", "plan"}, conf \in Profiles \cup {Unmanaged},
             hook' = IF todo = {}
                     THEN [Idle EXCEPT !.op = "reconcile", !.profile = conf,
                             !.pc = done]
                     ELSE [Idle EXCEPT !.op = "reconcile", !.profile = conf,
                             !.pc = loop, !.osd = Least(todo),
                             !.todo = todo \ {Least(todo)}]
      PROVE /\ hook' \in HookType
            /\ hook'.op = "reconcile" /\ hook'.profile = conf
            /\ hook'.then = "idle" /\ ~hook'.unpin
            /\ \/ hook'.pc = done
               \/ /\ hook'.pc = loop
                  /\ hook'.osd \in todo /\ hook'.todo \subseteq todo
  <2>1. CASE todo = {}
    BY <1>2, <2>1 DEF Idle, HookType, Places, Orphans, Stales, Rests, Shapes
  <2>2. CASE todo # {}
    <3>1. PICK o : o = Least(todo)
      OBVIOUS
    <3>2. o \in todo
      BY <2>2, <3>1, LeastOsd
    <3>3. hook' = [op |-> "reconcile", pc |-> loop, profile |-> conf, osd |-> o,
                   todo |-> todo \ {o}, then |-> "idle", new |-> FALSE,
                   unpin |-> FALSE, node |-> AnyNode, cores |-> {}, err |-> FALSE]
      BY <1>2, <2>2, <3>1 DEF Idle
    <3>4. hook' \in HookType
      BY <3>2, <3>3 DEF HookType, Places, Shapes, Orphans, Stales, Rests
    <3>5. QED
      BY <3>2, <3>3, <3>4
  <2>3. QED
    BY <2>1, <2>2
<1>3. UNCHANGED <<world, claims, systemd, journal>>
  BY DEF Reconcile, OnlyControl
<1>4. CASE conf = Unmanaged
  <2>1. /\ hook' \in HookType /\ hook'.op = "reconcile" /\ hook'.profile = conf
        /\ hook'.then = "idle" /\ ~hook'.unpin
        /\ \/ hook'.pc = "finish"
           \/ hook'.pc = "orphan" /\ hook'.osd \in New
    BY <1>1, <1>2, <1>4 DEF Reconcile
  <2>2. QED
    BY <1>1, <1>3, <1>4, <2>1
    DEF Control, Here, Through, Journaling, Binding, Unbinding, Plans,
        Journals, Replaces, Applies, Cleans, Claims, Clears, Stales, Orphans,
        Teardowns, Rests, Removals, Osd
<1>5. CASE conf # Unmanaged
  <2>1. /\ hook' \in HookType /\ hook'.op = "reconcile" /\ hook'.profile = conf
        /\ hook'.then = "idle" /\ ~hook'.unpin
        /\ \/ hook'.pc = "plan"
           \/ /\ hook'.pc = "stale"
              /\ hook'.osd \in Gone /\ hook'.todo \subseteq Gone
    BY <1>1, <1>2, <1>5 DEF Reconcile
  <2>2. QED
    BY <1>1, <1>3, <1>5, <2>1
    DEF Control, Here, Through, Journaling, Binding, Unbinding, world, Plans,
        Journals, Replaces, Applies, Cleans, Claims, Clears, Stales, Orphans,
        Teardowns, Rests, Removals, Osd
<1>6. QED
  BY <1>4, <1>5

\* Crashes, daemons, disks, the operator and the other workloads.
LEMMA EnvironmentHeld == ASSUME AllocInv, Environment PROVE HookInv'
<1> USE DEF AllocInv, StoresInv, HookInv, StoresOK, At, Osd, world, systemd,
            journal,
            Plans, Journals, Replaces, Applies, Cleans, Claims, Clears, Stales,
            Orphans, Teardowns, Rests, Removals
<1>1. CASE Crash
  BY <1>1, IdleHolds DEF Crash
<1>2. CASE SetProfile
  BY <1>2, AtRest DEF SetProfile
<1>3. CASE ForeignClaims
  BY <1>3
  DEF ForeignClaims, Control, Here, Through, Journaling, Binding, Unbinding,
      Settled, Known, Recorded, Journaled, HasDropin
<1>4. CASE StopUnit
  <2>1. PICK known \in SUBSET OSDs :
          hook' = IF known = {}
                  THEN [Idle EXCEPT !.op = "release_all", !.pc = "departed"]
                  ELSE [Idle EXCEPT !.op = "release_all", !.pc = "teardown",
                          !.osd = Least(known), !.todo = known \ {Least(known)}]
    BY <1>4 DEF StopUnit
  <2>2. /\ hook' \in HookType /\ hook'.op = "release_all"
        /\ hook'.then = "idle" /\ ~hook'.unpin
        /\ \/ hook'.pc = "departed"
           \/ hook'.pc = "teardown" /\ hook'.osd \in OSDs
    <3>1. CASE known = {}
      <4>1. hook' = [Idle EXCEPT !.op = "release_all", !.pc = "departed"]
        BY <2>1, <3>1
      <4>2. QED
        BY ONLY <4>1 DEF Idle, HookType, Places, Shapes
    <3>2. CASE known # {}
      <4>1. PICK o : o = Least(known)
        OBVIOUS
      <4>2. o \in known
        BY <3>2, <4>1, LeastOsd
      <4>3. hook' = [Idle EXCEPT !.op = "release_all", !.pc = "teardown",
                       !.osd = o, !.todo = known \ {o}]
        BY <2>1, <3>2, <4>1
      <4>4. QED
        BY <4>2, <4>3 DEF Idle, HookType, Places, Shapes
    <3>3. QED
      BY <3>1, <3>2
  <2>3. QED
    BY <2>2 DEF Control, Here, Through, Journaling, Binding, Unbinding
<1>5. ASSUME NEW o \in OSDs, RemoveDisk(o) PROVE HookInv'
  <2>1. /\ hook' \in HookType
        /\ hook'.op = "remove-disk" /\ hook'.pc = "remove-stop"
        /\ hook'.then = "idle" /\ ~hook'.unpin /\ hook'.osd = o
    BY <1>5 DEF RemoveDisk, Idle, HookType, Places, Shapes
  <2>2. o \in tear' \cup spent'.asked
    <3>1. CASE o \in tear
      BY <1>5, <3>1 DEF RemoveDisk
    <3>2. CASE o \notin tear
      <4>1. spent' = [spent EXCEPT !.moves = spent.moves + 1,
                                   !.asked = spent.asked \cup {o}]
        BY <1>5, <3>2 DEF RemoveDisk
      <4>2. QED
        BY <4>1
    <3>3. QED
      BY <3>1, <3>2
  <2>3. QED
    BY <2>1, <2>2 DEF Control, Here, Through, Journaling, Binding, Unbinding
<1>6. ASSUME NEW o \in OSDs, DaemonRestarts(o) PROVE HookInv'
  <2>1. /\ o \in active /\ active' = active
        /\ mask' = [mask EXCEPT ![o] = loaded[o]]
        /\ UNCHANGED <<world, claims, dropin, loaded, journal, hook, spent>>
    BY <1>6 DEF DaemonRestarts, Launch
  <2>2. Control' /\ Journaling'
    BY <2>1 DEF Control, Here, Journaling, Known, Recorded, Journaled
  <2>3. Binding'
    BY <2>1 DEF Control, Here, Binding
  <2>4. Unbinding'
    BY <2>1 DEF Control, Here, Unbinding, HasDropin
  <2>5. Through'
    BY <2>1 DEF Through, Settled, HasDropin
  <2>6. QED
    BY <2>1, <2>2, <2>3, <2>4, <2>5 DEF Here
<1>7. ASSUME NEW o \in OSDs, DiskFails(o) PROVE HookInv'
  <2>1. /\ local' = local \ {o}
        /\ active \ {o} \subseteq active' /\ active' \subseteq active
        /\ spent'.asked = spent.asked
        /\ mask' = IF o \in active' THEN mask ELSE [mask EXCEPT ![o] = {}]
        /\ UNCHANGED <<conf, foreign, claims, dropin, loaded, journal, hook>>
    BY <1>7 DEF DiskFails, Move
  <2>2. Control' /\ Journaling'
    BY <2>1 DEF Control, Here, Journaling, Known, Recorded, Journaled
  <2>3. Binding'
    BY <2>1 DEF Control, Here, Binding
  <2>4. Unbinding'
    BY <2>1 DEF Control, Here, Unbinding, HasDropin
  <2>5. Through'
    BY <2>1 DEF Through, Settled, HasDropin
  <2>6. QED
    BY <2>1, <2>2, <2>3, <2>4, <2>5 DEF Here
<1>8. ASSUME NEW o \in OSDs, DiskAppears(o) PROVE HookInv'
  BY <1>8, AtRest DEF DiskAppears
<1>9. ASSUME NEW o \in OSDs, StartedElsewhere(o) PROVE HookInv'
  BY <1>9, AtRest DEF StartedElsewhere
<1>10. QED
  BY <1>1, <1>2, <1>3, <1>4, <1>5, <1>6, <1>7, <1>8, <1>9 DEF Environment

-----------------------------------------------------------------------------
(* What every step does to the stores                                      *)

Counted == SpentOK' /\ spent'.asked = spent.asked

\* What is spent only counts.
LEMMA FaultCounts == ASSUME SpentOK, Fault \/ Move \/ spent' = spent PROVE Counted
  BY DEF SpentOK, Fault, Move, Counted

\* A step that touches no store but EPA's claims and the hook.
LEMMA StoresKept ==
  ASSUME StoresInv, Counted, UNCHANGED <<world, systemd, journal>>,
         claims' \in [OSDs -> SUBSET Cpus]
  PROVE StoresInv'
  BY DEF StoresInv, StoresOK, Counted, SpentOK, Everywhere, Enforcing, Down,
         Unloading, Known, Recorded, Journaled, HasDropin, world, systemd,
         journal

\* A step that journals one transition.
LEMMA TransitionSet ==
  ASSUME StoresInv, Osd \in OSDs,
         NEW record \in TransitionType, SetTransition(record),
         record.new => record.status # "none",
         HasDropin(Osd) => Recorded(Osd) \/ record.status # "none" \/ Osd \in tear
  PROVE StoresInv'
<1>1. /\ trans' \in [OSDs -> TransitionType] /\ trans'[Osd] = record
      /\ \A o \in OSDs \ {Osd} : trans'[o] = trans[o]
  BY DEF SetTransition, StoresInv, StoresOK, SpentOK
<1>2. UNCHANGED <<world, claims, systemd, recs, tear, restarts, clears, spent>>
  BY DEF SetTransition
<1>3. StoresOK'
  BY <1>1, <1>2 DEF StoresInv, StoresOK, SpentOK, world, systemd
<1>4. ASSUME NEW o \in OSDs
      PROVE /\ Enforcing(o)' /\ Down(o)'
            /\ HasDropin(o)' => Known(o)' \/ o \in tear'
            /\ trans'[o].new => Journaled(o)'
  <2>1. Enforcing(o)' /\ Down(o)'
    BY <1>2
    DEF StoresInv, Everywhere, Enforcing, Down, Unloading, Recorded, HasDropin,
        world, systemd
  <2>2. CASE o = Osd
    BY <1>1, <1>2, <2>1, <2>2
    DEF Known, Recorded, Journaled, HasDropin, systemd
  <2>3. CASE o # Osd
    BY <1>1, <1>2, <2>1, <2>3
    DEF StoresInv, Everywhere, Known, Recorded, Journaled, HasDropin, systemd
  <2>4. QED
    BY <2>2, <2>3
<1>5. QED
  BY <1>3, <1>4 DEF StoresInv, Everywhere

LEMMA StatusSet ==
  ASSUME StoresOK, Osd \in OSDs,
         NEW s \in {"claiming", "cleanup", "stopped", "replacing", "allocated",
                    "unallocated"}
  PROVE /\ [trans[Osd] EXCEPT !.status = s] \in TransitionType
        /\ [trans[Osd] EXCEPT !.status = s].status = s
<1>1. trans[Osd] \in TransitionType
  BY DEF StoresOK, SpentOK
<1>2. QED
  BY <1>1 DEF TransitionType

\* A daemon that stops or dies, one that starts, and a reload of systemd.
LEMMA DaemonHalts ==
  ASSUME StoresInv, NEW o \in OSDs, Halt(o), Counted,
         Recorded(o) \/ HasDropin(o) =>
           o \in restarts \cup tear \cup spent.asked \/ o \notin local',
         local' \subseteq local,
         UNCHANGED <<conf, foreign, claims, dropin, loaded, journal>>
  PROVE StoresInv'
  BY DEF StoresInv, StoresOK, Counted, SpentOK, Everywhere, Halt, Enforcing,
         Down, Unloading, Known, Recorded, Journaled, HasDropin, journal

LEMMA DaemonLaunches ==
  ASSUME StoresInv, NEW o \in OSDs, Launch(o), Counted,
         UNCHANGED <<world, claims, dropin, loaded, journal>>
  PROVE StoresInv'
  BY DEF StoresInv, StoresOK, Counted, SpentOK, Everywhere, Launch, Enforcing,
         Down, Unloading, Known, Recorded, Journaled, HasDropin, world, journal

LEMMA Reloads ==
  ASSUME StoresInv, DaemonReload, Counted,
         UNCHANGED <<world, claims, dropin, active, mask, journal>>
  PROVE StoresInv'
<1>1. /\ loaded' \in [OSDs -> SUBSET Cpus]
      /\ \A o \in OSDs : loaded'[o] = dropin[o].cores
  BY DEF DaemonReload, StoresInv, StoresOK, SpentOK
<1>2. QED
  BY <1>1
  DEF StoresInv, StoresOK, Counted, SpentOK, Everywhere, Enforcing, Down,
      Unloading, Known, Recorded, Journaled, HasDropin, world, journal

LEMMA SpentCounts == ASSUME StoresOK PROVE SpentOK
  BY DEF StoresOK, SpentOK

\* The same groups of steps keep what holds of every OSD.
LEMMA ReplacingStores == ASSUME AllocInv, Replacing PROVE StoresInv'
<1> USE DEF AllocInv, StoresInv, HookInv, At
<1>0. /\ SpentOK /\ claims \in [OSDs -> SUBSET Cpus]
      /\ hook.pc \notin Rests => Osd \in OSDs
  BY SpentCounts DEF StoresOK, SpentOK, Control
<1>1. CASE ReplaceBegin
  BY <1>0, <1>1, FaultCounts, StoresKept, TransitionSet, RequestTyped
  DEF ReplaceBegin, TransitionType, Shapes, Rests, Plans, Journals, Claims,
      Replaces, Cleans, StoresOK, SpentOK, Here, Journaling, Unbinding
<1>2. CASE ReplaceMark
  <2>1. StoresOK'
    BY <1>0, <1>2
    DEF ReplaceMark, StoresOK, SpentOK, world, systemd, Rests, HookType,
        TransitionType, Shapes
  <2>2. Everywhere'
    BY <1>0, <1>2
    DEF ReplaceMark, StoresOK, SpentOK, world, systemd, Rests, HookType,
        Everywhere, Enforcing, Down, Unloading, Known, Recorded, Journaled,
        HasDropin, Here, Journaling, Unbinding, Binding, Journals, Applies,
        Clears, Plans, Stales, Teardowns, Control
  <2>3. QED
    BY <2>1, <2>2
<1>3. CASE ReplaceStop
  BY <1>0, <1>3, FaultCounts, StoresKept, DaemonHalts
  DEF ReplaceStop, StopOsd, Rests, Here, Journaling, world, systemd
<1>4. CASE ReplaceStopped
  BY <1>0, <1>4, StatusSet, TransitionSet DEF ReplaceStopped, Rests
<1>5. CASE ReplaceRelease
  BY <1>0, <1>5, FaultCounts, StoresKept DEF ReplaceRelease, ReleaseCall, Rests
<1>6. CASE ReplaceDone
  BY <1>0, <1>6, StatusSet, TransitionSet DEF ReplaceDone, Rests
<1>7. QED
  BY <1>1, <1>2, <1>3, <1>4, <1>5, <1>6 DEF Replacing

LEMMA ClearingStores == ASSUME AllocInv, Clearing PROVE StoresInv'
<1> USE DEF AllocInv, StoresInv, HookInv, At
<1>0. /\ SpentOK /\ claims \in [OSDs -> SUBSET Cpus]
      /\ hook.pc \notin Rests => Osd \in OSDs
  BY SpentCounts DEF StoresOK, SpentOK, Control
<1>1. CASE ClearMark
  <2>1. StoresOK'
    BY <1>0, <1>1
    DEF ClearMark, StoresOK, SpentOK, world, systemd, journal, Rests, HookType,
        TransitionType, Shapes
  <2>2. Everywhere'
    BY <1>0, <1>1
    DEF ClearMark, StoresOK, SpentOK, world, systemd, journal, Rests, HookType,
        Everywhere, Enforcing, Down, Unloading, Known, Recorded, Journaled,
        HasDropin, Here, Journaling, Unbinding, Binding, Journals, Applies,
        Clears, Plans, Stales, Teardowns, Control
  <2>3. QED
    BY <2>1, <2>2
<1>2. CASE ClearRemove
  <2>1. StoresOK'
    BY <1>0, <1>2
    DEF ClearRemove, StoresOK, SpentOK, world, journal, Rests, HookType,
        NoDropin, TransitionType, Shapes
  <2>2. Everywhere'
    BY <1>0, <1>2
    DEF ClearRemove, StoresOK, SpentOK, world, journal, Rests, HookType,
        NoDropin, Everywhere, Enforcing, Down, Unloading, Known, Recorded,
        Journaled, HasDropin, Here, Journaling, Unbinding, Binding, Journals,
        Applies, Clears, Plans, Stales, Teardowns, Control
  <2>3. QED
    BY <2>1, <2>2
<1>3. CASE ClearReload
  BY <1>0, <1>3, FaultCounts, StoresKept, Reloads
  DEF ClearReload, Reload, systemd
<1>4. CASE ClearReloaded
  <2>1. StoresOK'
    BY <1>0, <1>4
    DEF ClearReloaded, StoresOK, SpentOK, world, systemd, Rests, HookType,
        TransitionType, Shapes
  <2>2. Everywhere'
    BY <1>0, <1>4
    DEF ClearReloaded, StoresOK, SpentOK, world, systemd, Rests, HookType,
        Everywhere, Enforcing, Down, Unloading, Known, Recorded, Journaled,
        HasDropin, Here, Journaling, Unbinding, Binding, Journals, Applies,
        Clears, Plans, Stales, Teardowns, Control
  <2>3. QED
    BY <2>1, <2>2
<1>5. CASE ClearRestart
  BY <1>0, <1>5, FaultCounts, StoresKept, DaemonHalts, DaemonLaunches
  DEF ClearRestart, Restart, Rests, Here, Journaling, Unbinding, Binding,
      Clears, Control, world, systemd
<1>6. CASE ClearDone
  <2>1. StoresOK'
    BY <1>0, <1>6
    DEF ClearDone, StoresOK, SpentOK, world, systemd, Rests, HookType,
        TransitionType, Shapes
  <2>2. Everywhere'
    BY <1>0, <1>6
    DEF ClearDone, StoresOK, SpentOK, world, systemd, Rests, HookType,
        Everywhere, Enforcing, Down, Unloading, Known, Recorded, Journaled,
        HasDropin, Here, Journaling, Unbinding, Binding, Journals, Applies,
        Clears, Plans, Stales, Teardowns, Control
  <2>3. QED
    BY <2>1, <2>2
<1>7. QED
  BY <1>1, <1>2, <1>3, <1>4, <1>5, <1>6 DEF Clearing

LEMMA ApplyingStores == ASSUME AllocInv, Applying PROVE StoresInv'
<1> USE DEF AllocInv, StoresInv, HookInv, At
<1>0. /\ SpentOK /\ claims \in [OSDs -> SUBSET Cpus]
      /\ hook.pc \notin Rests => Osd \in OSDs
  BY SpentCounts DEF StoresOK, SpentOK, Control
<1>1. CASE Granted
  <2>1. Osd \in OSDs /\ hook.node \in Shapes /\ trans[Osd] \in TransitionType
    BY <1>0, <1>1 DEF Granted, Rests, HookType, StoresOK, SpentOK
  <2>2. PICK r :
          r = [trans[Osd] EXCEPT !.status = "allocated", !.node = hook.node]
    OBVIOUS
  <2>3. r \in TransitionType /\ r.status = "allocated"
    BY <2>1, <2>2 DEF TransitionType
  <2>4. QED
    BY <1>0, <1>1, <2>1, <2>2, <2>3, TransitionSet, StoresKept, FaultCounts
    DEF Granted
<1>2. CASE ApplyMark
  <2>1. StoresOK'
    BY <1>0, <1>2
    DEF ApplyMark, StoresOK, SpentOK, Content, world, systemd, Rests, HookType,
        TransitionType, Shapes
  <2>2. Everywhere'
    BY <1>0, <1>2
    DEF ApplyMark, StoresOK, SpentOK, Content, world, systemd, Rests, HookType,
        Everywhere, Enforcing, Down, Unloading, Known, Recorded, Journaled,
        HasDropin, Here, Journaling, Unbinding, Binding, Journals, Applies,
        Clears, Plans, Stales, Teardowns, Control
  <2>3. QED
    BY <2>1, <2>2
<1>3. CASE ApplyWrite
  <2>1. StoresOK'
    BY <1>0, <1>3
    DEF ApplyWrite, StoresOK, SpentOK, Content, world, journal, Rests,
        HookType, TransitionType, Shapes
  <2>2. Everywhere'
    BY <1>0, <1>3
    DEF ApplyWrite, StoresOK, SpentOK, Content, world, journal, Rests,
        HookType, Everywhere, Enforcing, Down, Unloading, Known, Recorded,
        Journaled, HasDropin, Here, Journaling, Unbinding, Binding, Journals,
        Applies, Clears, Plans, Stales, Teardowns, Control
  <2>3. QED
    BY <2>1, <2>2
<1>4. CASE ApplyReload
  BY <1>0, <1>4, FaultCounts, StoresKept, Reloads
  DEF ApplyReload, Reload, systemd
<1>5. CASE ApplyRestart
  BY <1>0, <1>5, FaultCounts, StoresKept, DaemonHalts, DaemonLaunches
  DEF ApplyRestart, Restart, Rests, Here, Journaling, Unbinding, Binding,
      Clears, Control, world, systemd
<1>6. CASE ApplyVerify
  <2>1. /\ Osd \in OSDs
        /\ dropin[Osd].cores = hook.cores /\ loaded[Osd] = hook.cores
        /\ Osd \in active => mask[Osd] = hook.cores
    BY <1>0, <1>6 DEF ApplyVerify, Rests, Here, Binding
  <2>2. CASE Enforced
    BY <1>6, <2>1, <2>2
    DEF ApplyVerify, Enforced, StoresOK, SpentOK, Everywhere, Enforcing, Down,
        Unloading, Known, Recorded, Journaled, HasDropin, world, systemd
  <2>3. CASE ~Enforced
    BY <1>0, <1>6, <2>3, StoresKept, FaultCounts DEF ApplyVerify, journal
  <2>4. QED
    BY <2>2, <2>3
<1>7. CASE Record
  <2>1. StoresOK'
    BY <1>0, <1>7
    DEF Record, StoresOK, SpentOK, world, systemd, Rests, HookType,
        NoTransition, TransitionType, Shapes
  <2>2. Everywhere'
    BY <1>0, <1>7
    DEF Record, StoresOK, SpentOK, world, systemd, Rests, HookType,
        NoTransition, Everywhere, Enforcing, Down, Unloading, Known, Recorded,
        Journaled, HasDropin, Here, Journaling, Unbinding, Binding, Journals,
        Applies, Clears, Plans, Stales, Teardowns, Control
  <2>3. QED
    BY <2>1, <2>2
<1>8. QED
  BY <1>1, <1>2, <1>3, <1>4, <1>5, <1>6, <1>7 DEF Applying

LEMMA ReconcilingStores == ASSUME AllocInv, Reconciling PROVE StoresInv'
<1> USE DEF AllocInv, StoresInv, HookInv, At
<1>0. /\ SpentOK /\ claims \in [OSDs -> SUBSET Cpus]
      /\ hook.pc \notin Rests => Osd \in OSDs
  BY SpentCounts DEF StoresOK, SpentOK, Control
<1>1. CASE StaleOsd
  BY <1>0, <1>1, FaultCounts, StoresKept DEF StaleOsd, OnlyControl
<1>2. CASE StaleRelease
  BY <1>0, <1>2, FaultCounts, StoresKept
  DEF StaleRelease, ReleaseCall, Rests, OnlyControl
<1>3. CASE StaleForget
  <2>1. StoresOK'
    BY <1>0, <1>3
    DEF StaleForget, StoresOK, SpentOK, world, systemd, Rests, HookType,
        NoRecord, NoTransition, TransitionType, Shapes
  <2>2. Everywhere'
    BY <1>0, <1>3
    DEF StaleForget, StoresOK, SpentOK, world, systemd, Rests, HookType,
        NoRecord, NoTransition, Everywhere, Enforcing, Down, Unloading, Known,
        Recorded, Journaled, HasDropin, Here, Journaling, Unbinding, Binding,
        Journals, Applies, Clears, Plans, Stales, Teardowns, Control
  <2>3. QED
    BY <2>1, <2>2
<1>4. CASE Plan
  BY <1>0, <1>4, FaultCounts, StoresKept DEF Plan, OnlyControl
<1>5. CASE Orphan
  BY <1>0, <1>5, StatusSet, TransitionSet, FaultCounts, StoresKept
  DEF Orphan, OnlyControl, Rests
<1>6. CASE OrphanRelease
  BY <1>0, <1>6, FaultCounts, StoresKept DEF OrphanRelease, ReleaseCall, Rests
<1>7. CASE OrphanForget
  BY <1>0, <1>7, FaultCounts, StoresKept, TransitionSet, RequestTyped
  DEF OrphanForget, NoTransition, TransitionType, Shapes, Rests, Plans,
      Journals, Claims, Replaces, Cleans, StoresOK, SpentOK, Here, Journaling,
      Unbinding
<1>8. CASE Finish
  BY <1>0, <1>8, FaultCounts, StoresKept DEF Finish, OnlyControl
<1>9. CASE Handoff
  BY <1>0, <1>9, FaultCounts, StoresKept DEF Handoff, OnlyControl
<1>10. QED
  BY <1>1, <1>2, <1>3, <1>4, <1>5, <1>6, <1>7, <1>8, <1>9 DEF Reconciling

LEMMA StrictStepStores == ASSUME AllocInv, StrictStep PROVE StoresInv'
<1> USE DEF AllocInv, StoresInv, HookInv, At
<1>0. /\ SpentOK /\ claims \in [OSDs -> SUBSET Cpus]
      /\ hook.pc \notin Rests => Osd \in OSDs
  BY SpentCounts DEF StoresOK, SpentOK, Control
<1>1. CASE StrictOsd
  BY <1>0, <1>1, FaultCounts, StoresKept, TransitionSet, RequestTyped
  DEF StrictOsd, OnlyControl, BeginNewClaim, TransitionType, Shapes, Rests,
      Plans, Journals, Claims, Replaces, Cleans, StoresOK, SpentOK, Here,
      Journaling, Unbinding
<1>2. CASE StrictRejournal
  BY <1>0, <1>2, StatusSet, TransitionSet DEF StrictRejournal, Rests
<1>3. CASE StrictClaim
  <2>1. Osd \in OSDs /\ Request.node \in Shapes /\ Request.count \in Nat \ {0}
    BY <1>0, <1>3, RequestTyped
    DEF StrictClaim, Rests, Plans, Journals, Claims, Shapes
  <2>2. Counted /\ UNCHANGED <<world, systemd, journal>>
    BY <1>0, <1>3, FaultCounts DEF StrictClaim, ClaimCall
  <2>3. \/ UNCHANGED claims
        \/ \E S \in SUBSET Cpus : claims' = [claims EXCEPT ![Osd] = S]
    BY <1>3, <2>1, ClaimMakes DEF StrictClaim, ClaimCall
  <2>4. claims' \in [OSDs -> SUBSET Cpus]
    BY <1>0, <2>1, <2>3
  <2>5. QED
    BY <2>2, <2>4, StoresKept
<1>4. CASE Cleanup
  BY <1>0, <1>4, StatusSet, TransitionSet, FaultCounts, StoresKept
  DEF Cleanup, OnlyControl, Rests
<1>5. CASE CleanupRelease
  BY <1>0, <1>5, FaultCounts, StoresKept DEF CleanupRelease, ReleaseCall, Rests
<1>6. CASE CleanupForget
  BY <1>0, <1>6, FaultCounts, StoresKept, TransitionSet, RequestTyped
  DEF CleanupForget, NoTransition, TransitionType, Shapes, Rests, Plans,
      Journals, Claims, Replaces, Cleans, StoresOK, SpentOK, Here, Journaling,
      Unbinding
<1>7. QED
  BY <1>1, <1>2, <1>3, <1>4, <1>5, <1>6 DEF StrictStep

LEMMA FlexibleStepStores == ASSUME AllocInv, FlexibleStep PROVE StoresInv'
<1> USE DEF AllocInv, StoresInv, HookInv, At
<1>0. /\ SpentOK /\ claims \in [OSDs -> SUBSET Cpus]
      /\ hook.pc \notin Rests => Osd \in OSDs
  BY SpentCounts DEF StoresOK, SpentOK, Control
<1>1. CASE FlexibleOsd
  BY <1>0, <1>1, FaultCounts, StoresKept DEF FlexibleOsd, OnlyControl
<1>2. CASE FlexibleFirst
  BY <1>0, <1>2, FaultCounts, StoresKept, TransitionSet, RequestTyped
  DEF FlexibleFirst, OnlyControl, BeginNewClaim, TransitionType, Shapes, Rests,
      Plans, Journals, Claims, Replaces, Cleans, StoresOK, SpentOK, Here,
      Journaling, Unbinding
<1>3. CASE FlexibleReset
  BY <1>0, <1>3, FaultCounts, StoresKept DEF FlexibleReset, OnlyControl
<1>4. CASE FlexibleClaim
  <2>1. Osd \in OSDs /\ Request.node \in Shapes /\ Request.count \in Nat \ {0}
    BY <1>0, <1>4, RequestTyped
    DEF FlexibleClaim, Rests, Plans, Journals, Claims, Shapes
  <2>2. Counted /\ UNCHANGED <<world, systemd, journal>>
    BY <1>0, <1>4, FaultCounts DEF FlexibleClaim, ClaimCall
  <2>3. \/ UNCHANGED claims
        \/ \E S \in SUBSET Cpus : claims' = [claims EXCEPT ![Osd] = S]
    BY <1>4, <2>1, ClaimMakes DEF FlexibleClaim, ClaimCall
  <2>4. claims' \in [OSDs -> SUBSET Cpus]
    BY <1>0, <2>1, <2>3
  <2>5. QED
    BY <2>2, <2>4, StoresKept
<1>5. CASE FlexibleAny
  BY <1>0, <1>5, FaultCounts, StoresKept, TransitionSet, RequestTyped
  DEF FlexibleAny, JournalClaimAttempt, TransitionType, Shapes, Rests, Plans,
      Journals, Claims, Replaces, Cleans, StoresOK, SpentOK, Here, Journaling,
      Unbinding
<1>6. CASE FlexibleAnyClaim
  <2>1. Osd \in OSDs /\ AnyNode \in Shapes /\ Request.count \in Nat \ {0}
    BY <1>0, <1>6, RequestTyped
    DEF FlexibleAnyClaim, Rests, Plans, Journals, Claims, Shapes
  <2>2. Counted /\ UNCHANGED <<world, systemd, journal>>
    BY <1>0, <1>6, FaultCounts DEF FlexibleAnyClaim, ClaimCall
  <2>3. \/ UNCHANGED claims
        \/ \E S \in SUBSET Cpus : claims' = [claims EXCEPT ![Osd] = S]
    BY <1>6, <2>1, ClaimMakes DEF FlexibleAnyClaim, ClaimCall
  <2>4. claims' \in [OSDs -> SUBSET Cpus]
    BY <1>0, <2>1, <2>3
  <2>5. QED
    BY <2>2, <2>4, StoresKept
<1>7. CASE FlexibleFewer
  BY <1>0, <1>7, FaultCounts, StoresKept DEF FlexibleFewer
<1>8. CASE FlexibleFewerJournal
  BY <1>0, <1>8, FaultCounts, StoresKept, TransitionSet, RequestTyped
  DEF FlexibleFewerJournal, JournalClaimAttempt, TransitionType, Shapes, Rests,
      Plans, Journals, Claims, Replaces, Cleans, StoresOK, SpentOK, Here,
      Journaling, Unbinding
<1>9. CASE FlexibleFewerClaim
  <2>1. /\ Osd \in OSDs /\ AnyNode \in Shapes
        /\ Cardinality(hook.cores) \in Nat \ {0}
    BY <1>0, <1>9, CoresCounted DEF FlexibleFewerClaim, Rests, Shapes
  <2>2. Counted /\ UNCHANGED <<world, systemd, journal>>
    BY <1>0, <1>9, FaultCounts DEF FlexibleFewerClaim, ClaimCall
  <2>3. \/ UNCHANGED claims
        \/ \E S \in SUBSET Cpus : claims' = [claims EXCEPT ![Osd] = S]
    BY <1>9, <2>1, ClaimMakes DEF FlexibleFewerClaim, ClaimCall
  <2>4. claims' \in [OSDs -> SUBSET Cpus]
    BY <1>0, <2>1, <2>3
  <2>5. QED
    BY <2>2, <2>4, StoresKept
<1>10. CASE FlexibleUnpin
  BY <1>0, <1>10, FaultCounts, StoresKept DEF FlexibleUnpin, OnlyControl
<1>11. CASE FlexibleUnpinned
  <2>1. Osd \in OSDs /\ trans[Osd] \in TransitionType
    BY <1>0, <1>11 DEF FlexibleUnpinned, Rests, StoresOK, SpentOK
  <2>2. PICK r :
          r = IF trans[Osd].source
              THEN [trans[Osd] EXCEPT !.status = "unallocated"]
              ELSE NoTransition
    OBVIOUS
  <2>3. r \in TransitionType
    BY <1>0, <1>11, <2>1, <2>2, StatusSet
    DEF NoTransition, TransitionType, Shapes
  <2>4. trans' = [trans EXCEPT ![Osd] = r]
    BY <1>11, <2>2 DEF FlexibleUnpinned
  <2>5. NoRecord \in [node : Shapes, cores : SUBSET Cpus]
    BY DEF NoRecord, Shapes
  <2>6. StoresOK'
    <3>1. SpentOK'
      BY <1>0, <1>11 DEF FlexibleUnpinned, SpentOK
    <3>2. /\ trans' \in [OSDs -> TransitionType]
          /\ recs' \in [OSDs -> [node : Shapes, cores : SUBSET Cpus]]
      BY <1>11, <2>1, <2>3, <2>4, <2>5 DEF FlexibleUnpinned, StoresOK
    <3>3. QED
      BY <1>11, <3>1, <3>2 DEF FlexibleUnpinned, StoresOK, world, systemd
  <2>7. Everywhere'
    BY <1>0, <1>11
    DEF FlexibleUnpinned, StoresOK, SpentOK, world, systemd, Rests, HookType,
        NoRecord, NoTransition, Everywhere, Enforcing, Down, Unloading, Known,
        Recorded, Journaled, HasDropin, Here, Journaling, Unbinding, Binding,
        Journals, Applies, Clears, Plans, Stales, Teardowns, Control
  <2>8. QED
    BY <2>6, <2>7
<1>12. QED
  BY <1>1, <1>2, <1>3, <1>4, <1>5, <1>6, <1>7, <1>8, <1>9, <1>10, <1>11
  DEF FlexibleStep

LEMMA TearingDownStores == ASSUME AllocInv, TearingDown PROVE StoresInv'
<1> USE DEF AllocInv, StoresInv, HookInv, At
<1>0. /\ SpentOK /\ claims \in [OSDs -> SUBSET Cpus]
      /\ hook.pc \notin Rests => Osd \in OSDs
  BY SpentCounts DEF StoresOK, SpentOK, Control
<1>1. CASE RemoveStop
  <2>1. Osd \in OSDs /\ Osd \in tear \cup spent.asked
    BY <1>0, <1>1 DEF RemoveStop, Rests, Here, Journaling
  <2>2. QED
    BY <1>0, <1>1, <2>1, FaultCounts, StoresKept, DaemonHalts
    DEF RemoveStop, world, systemd
<1>2. CASE Teardown
  <2>1. CASE UNCHANGED tear
    BY <1>0, <1>2, <2>1, FaultCounts, StoresKept DEF Teardown, journal
  <2>2. CASE tear' = tear \cup {Osd} /\ UNCHANGED spent
    BY <1>0, <1>2, <2>2
    DEF Teardown, Rests, StoresOK, SpentOK, Everywhere, Enforcing, Down,
        Unloading, Known, Recorded, Journaled, HasDropin, world, systemd
  <2>3. QED
    BY <1>2, <2>1, <2>2 DEF Teardown
<1>3. CASE TeardownStop
  BY <1>0, <1>3, FaultCounts, StoresKept, DaemonHalts
  DEF TeardownStop, StopOsd, Rests, Here, Journaling, world, systemd
<1>4. CASE TeardownRelease
  BY <1>0, <1>4, FaultCounts, StoresKept
  DEF TeardownRelease, ReleaseCall, Rests
<1>5. CASE TeardownComplete
  <2>1. StoresOK'
    BY <1>0, <1>5
    DEF TeardownComplete, StoresOK, SpentOK, world, systemd, Rests, HookType,
        NoRecord, NoTransition, TransitionType, Shapes
  <2>2. Everywhere'
    BY <1>0, <1>5
    DEF TeardownComplete, StoresOK, SpentOK, world, systemd, Rests, HookType,
        NoRecord, NoTransition, Everywhere, Enforcing, Down, Unloading, Known,
        Recorded, Journaled, HasDropin, Here, Journaling, Unbinding, Binding,
        Journals, Applies, Clears, Plans, Stales, Teardowns, Control
  <2>3. QED
    BY <2>1, <2>2
<1>6. CASE Removed
  <2>1. StoresOK'
    BY <1>0, <1>6
    DEF Removed, StoresOK, SpentOK, journal, Halt, Rests, HookType,
        TransitionType, Shapes
  <2>2. Everywhere'
    BY <1>0, <1>6
    DEF Removed, StoresOK, SpentOK, journal, Halt, Rests, HookType, Everywhere,
        Enforcing, Down, Unloading, Known, Recorded, Journaled, HasDropin,
        Here, Journaling, Unbinding, Binding, Journals, Applies, Clears, Plans,
        Stales, Teardowns, Control
  <2>3. QED
    BY <2>1, <2>2
<1>7. CASE Departed
  BY <1>0, <1>7, FaultCounts, StoresKept DEF Departed, OnlyControl
<1>8. QED
  BY <1>1, <1>2, <1>3, <1>4, <1>5, <1>6, <1>7 DEF TearingDown

\* So does everything outside the hook.
LEMMA EnvironmentStores == ASSUME AllocInv, Environment PROVE StoresInv'
<1> USE DEF AllocInv, StoresInv, HookInv, At
<1>0. SpentOK /\ claims \in [OSDs -> SUBSET Cpus]
  BY SpentCounts DEF StoresOK, SpentOK
<1>1. CASE Crash
  BY <1>0, <1>1, FaultCounts, StoresKept DEF Crash
<1>2. CASE SetProfile
  <2>1. conf' \in Profiles \cup {Unmanaged} /\ Counted
    BY <1>0, <1>2, FaultCounts DEF SetProfile
  <2>2. QED
    BY <1>2, <2>1
    DEF SetProfile, StoresOK, Counted, SpentOK, Everywhere, Enforcing, Down,
        Unloading, Known, Recorded, Journaled, HasDropin, systemd, journal
<1>3. CASE ForeignClaims
  <2>1. Counted
    BY <1>0, <1>3 DEF ForeignClaims, Counted, SpentOK
  <2>2. foreign' \in SUBSET Cpus
    BY <1>3 DEF ForeignClaims, StoresOK, SpentOK
  <2>3. QED
    BY <1>3, <2>1, <2>2
    DEF ForeignClaims, StoresOK, Counted, SpentOK, Everywhere, Enforcing, Down,
        Unloading, Known, Recorded, Journaled, HasDropin, systemd, journal
<1>4. CASE StopUnit
  BY <1>0, <1>4, FaultCounts, StoresKept DEF StopUnit
<1>5. ASSUME NEW o \in OSDs, RemoveDisk(o) PROVE StoresInv'
  <2>1. SpentOK' /\ spent.asked \subseteq spent'.asked
    <3>1. CASE o \in tear
      BY <1>0, <1>5, <3>1 DEF RemoveDisk, SpentOK
    <3>2. CASE o \notin tear
      <4>1. spent' = [spent EXCEPT !.moves = spent.moves + 1,
                                   !.asked = spent.asked \cup {o}]
        BY <1>5, <3>2 DEF RemoveDisk
      <4>2. spent.moves + 1 \in Nat /\ spent.asked \cup {o} \in SUBSET OSDs
        BY <1>0 DEF SpentOK
      <4>3. QED
        BY <1>0, <4>1, <4>2 DEF SpentOK
    <3>3. QED
      BY <3>1, <3>2
  <2>2. QED
    BY <1>5, <2>1
    DEF RemoveDisk, StoresOK, SpentOK, Everywhere, Enforcing, Down, Unloading,
        Known, Recorded, Journaled, HasDropin, world, systemd, journal
<1>6. ASSUME NEW o \in OSDs, DaemonRestarts(o) PROVE StoresInv'
  BY <1>0, <1>6, FaultCounts, DaemonLaunches DEF DaemonRestarts
<1>7. ASSUME NEW o \in OSDs, DiskFails(o) PROVE StoresInv'
  <2>1. Counted /\ local' = local \ {o}
    BY <1>0, <1>7, FaultCounts DEF DiskFails
  <2>2. CASE active' = active
    BY <1>7, <2>1, <2>2
    DEF DiskFails, StoresOK, Counted, SpentOK, Everywhere, Enforcing, Down,
        Unloading, Known, Recorded, Journaled, HasDropin, journal
  <2>3. CASE active' = active \ {o}
    BY <1>7, <2>1, <2>3
    DEF DiskFails, StoresOK, Counted, SpentOK, Everywhere, Enforcing, Down,
        Unloading, Known, Recorded, Journaled, HasDropin, journal
  <2>4. QED
    BY <1>7, <2>2, <2>3 DEF DiskFails
<1>8. ASSUME NEW o \in OSDs, DiskAppears(o) PROVE StoresInv'
  <2>1. SpentOK' /\ spent'.asked = spent.asked \ {o}
    <3>1. PICK n : n = IF o \in restarts \ active
                       THEN spent.starts + 1 ELSE spent.starts
      OBVIOUS
    <3>2. spent' = [spent EXCEPT !.moves = spent.moves + 1, !.starts = n,
                                 !.asked = spent.asked \ {o}]
      BY <1>8, <3>1 DEF DiskAppears
    <3>3. /\ spent.moves + 1 \in Nat /\ n \in Nat
          /\ spent.asked \ {o} \in SUBSET OSDs
      BY <1>0, <3>1 DEF SpentOK
    <3>4. QED
      BY <1>0, <3>2, <3>3 DEF SpentOK
  <2>2. /\ local' = local \cup {o} /\ active' = active \cup {o}
        /\ mask' = IF o \in active THEN mask ELSE [mask EXCEPT ![o] = loaded[o]]
        /\ UNCHANGED <<conf, foreign, claims, dropin, loaded, journal>>
    BY <1>8 DEF DiskAppears, Launch
  <2>3. QED
    BY <1>8, <2>1, <2>2
    DEF StoresOK, SpentOK, Everywhere, Enforcing, Down, Unloading, Known,
        Recorded, Journaled, HasDropin, journal
<1>9. ASSUME NEW o \in OSDs, StartedElsewhere(o) PROVE StoresInv'
  <2>1. Counted
    BY <1>0, <1>9 DEF StartedElsewhere, Counted, SpentOK
  <2>2. QED
    BY <1>9, <2>1, DaemonLaunches DEF StartedElsewhere
<1>10. QED
  BY <1>1, <1>2, <1>3, <1>4, <1>5, <1>6, <1>7, <1>8, <1>9 DEF Environment

LEMMA InvInit == Init => AllocInv
<1> SUFFICES ASSUME Init PROVE AllocInv
  OBVIOUS
<1>1. StoresOK
  BY DEF Init, HostInit, StoresOK, SpentOK, NoDropin, NoRecord, NoTransition,
         TransitionType, Shapes
<1>2. Everywhere
  BY DEF Init, HostInit, Everywhere, Enforcing, Down, Unloading, Known,
         Recorded, Journaled, HasDropin, NoDropin, NoRecord, NoTransition
<1>3. HookInv
  <2>1. hook \in HookType /\ hook.pc = "idle"
    BY DEF Init, Idle, HookType, Places, Rests, Shapes
  <2>2. QED
    BY <2>1
    DEF HookInv, Control, Here, Through, Journaling, Binding, Unbinding, Plans,
        Journals, Replaces, Applies, Cleans, Claims, Clears, Stales, Orphans,
        Teardowns, Rests, Removals, Osd
<1>4. QED
  BY <1>1, <1>2, <1>3 DEF AllocInv, StoresInv

LEMMA HookStepHeld == ASSUME AllocInv, HookStep PROVE AllocInv'
<1>1. HookInv'
  BY ReplacingHeld, ClearingHeld, ApplyingHeld, ReconcilingHeld,
     StrictStepHeld, FlexibleStepHeld, TearingDownHeld
  DEF HookStep
<1>2. StoresInv'
  BY ReplacingStores, ClearingStores, ApplyingStores, ReconcilingStores,
     StrictStepStores, FlexibleStepStores, TearingDownStores
  DEF HookStep
<1>3. QED
  BY <1>1, <1>2 DEF AllocInv

LEMMA InvStep == AllocInv /\ [Next]_vars => AllocInv'
<1> SUFFICES ASSUME AllocInv, [Next]_vars PROVE AllocInv'
  OBVIOUS
<1>1. CASE Reconcile
  <2>1. UNCHANGED <<world, claims, systemd, journal, spent>>
    BY <1>1 DEF Reconcile, OnlyControl
  <2>2. Counted /\ claims' \in [OSDs -> SUBSET Cpus]
    BY <2>1, FaultCounts, SpentCounts
    DEF AllocInv, StoresInv, StoresOK, SpentOK
  <2>3. QED
    BY <1>1, <2>1, <2>2, StoresKept, ReconcileHeld DEF AllocInv
<1>2. CASE HookStep
  BY <1>2, HookStepHeld
<1>3. CASE Environment
  BY <1>3, EnvironmentHeld, EnvironmentStores DEF AllocInv
<1>4. CASE UNCHANGED vars
  BY <1>4
  DEF vars, AllocInv, StoresInv, StoresOK, SpentOK, Everywhere, Enforcing,
      Down, Unloading, HookInv, Control, Here, Journaling, Binding, Unbinding,
      Through, Settled, Known, Recorded, Journaled, HasDropin, Osd
<1>5. QED
  BY <1>1, <1>2, <1>3, <1>4 DEF Next

LEMMA InvHolds == Spec => []AllocInv
  BY InvInit, InvStep, PTL DEF Spec

-----------------------------------------------------------------------------
(* What follows                                                            *)

LEMMA InvTypes == AllocInv => TypeOK
  BY DEF AllocInv, StoresInv, HookInv, HookType, StoresOK, SpentOK, TypeOK

LEMMA InvRemembers == AllocInv => DownIsRemembered
  BY DEF AllocInv, StoresInv, Everywhere, StoresOK, SpentOK, Down,
         DownIsRemembered

LEMMA InvHandsOver == AllocInv => (hook.profile # Unmanaged => HandoffTruthful)
<1> SUFFICES ASSUME AllocInv, hook.profile # Unmanaged, At("handoff"), NEW o \in local
    PROVE /\ o \in active
          /\ mask[o] \subseteq claims[o] /\ mask[o] = recs[o].cores
  BY DEF HandoffTruthful
<1>1. /\ Settled(o) /\ o \in active /\ o \notin restarts /\ o \in OSDs
  BY DEF AllocInv, StoresInv, HookInv, Through, StoresOK, SpentOK, At
<1>2. mask[o] = dropin[o].cores
  BY <1>1
  DEF AllocInv, StoresInv, Everywhere, Enforcing, Unloading, Settled, HasDropin
<1>3. QED
  BY <1>1, <1>2 DEF Settled

\* Every store keeps its shape through every step, failure and crash.
THEOREM AllocationTyped == Spec => []TypeOK
  BY InvHolds, InvTypes, PTL

\* An OSD of this host that was bound to CPUs and is down between two hooks is
\* down for a reason the journal remembers or the operator gave, whatever calls
\* failed and wherever the hooks before died.
THEOREM DownRemembered == Spec => []DownIsRemembered
  BY InvHolds, InvRemembers, PTL

\* A host that acknowledges its turn under a managed profile runs every OSD on
\* exactly the recorded CPUs, all of which EPA holds for it.
THEOREM HandoffHonest == Spec => [](hook.profile # Unmanaged => HandoffTruthful)
  BY InvHolds, InvHandsOver, PTL

-----------------------------------------------------------------------------
(* What EPA holds is known to the journal                                  *)

\* Between the listing that says how few CPUs are left and the claim for them
\* no other workload claims one.
ListingHolds ==
  hook.pc \in {"fewer-journal", "fewer-claim"} => foreign' \subseteq foreign

Emptied == {"stale-forget", "cleanup-forget", "orphan-forget",
            "teardown-complete", "unpin", "unpinned"}
Fewers == {"fewer-journal", "fewer-claim"}

\* No CPU is claimed twice.
Disjoint ==
  /\ \A o \in OSDs : claims[o] \cap foreign = {}
  /\ \A o, p \in OSDs : o # p => claims[o] \cap claims[p] = {}

\* Before an OSD is forgotten its claim is given up; a claim for what is left
\* includes what the OSD has.
Released ==
  /\ hook.pc \in Emptied \/ (hook.pc \in Clears /\ hook.then = "unpinned") =>
       claims[Osd] = {}
  /\ hook.pc \in Fewers => /\ claims[Osd] \subseteq hook.cores
                           /\ hook.cores \subseteq FreeForService(Osd)

ClaimsInv == Disjoint /\ ClaimsJournaled /\ Released

\* A place that says nothing of the claim.
Neutral == /\ hook'.pc \notin Emptied \cup Fewers
           /\ hook'.pc \in Clears => hook'.then # "unpinned"

LEMMA NeutralReleases == Neutral => Released'
  BY DEF Neutral, Released

\* A failing step leads to a place that says nothing of the claim.
LEMMA FailedNeutral ==
  ASSUME HookInv, hook.pc \notin Rests, Failed PROVE Neutral
<1>1. "stale" \in Places /\ "plan" \in Places /\ "teardown" \in Places
      /\ "departed" \in Places
  BY DEF Places, Stales, Rests, Teardowns
<1>2. CASE hook' = Idle
  BY <1>2 DEF Neutral, Idle, Emptied, Fewers, Clears
<1>3. CASE Advance("stale", "plan", FALSE)
  BY <1>1, <1>3, AdvanceMoves
  DEF HookInv, GoesOn, Neutral, Emptied, Fewers, Clears
<1>4. CASE Advance("teardown", "departed", TRUE)
  BY <1>1, <1>4, AdvanceMoves
  DEF HookInv, GoesOn, Neutral, Emptied, Fewers, Clears
<1>5. QED
  BY <1>2, <1>3, <1>4 DEF Failed

\* What is free for a service nobody else has.
LEMMA FreeIsFree ==
  ASSUME StoresOK, NEW o \in OSDs
  PROVE \A c \in Cpus : c \in FreeForService(o) <=>
          c \notin foreign /\ \A p \in OSDs \ {o} : c \notin claims[p]
  BY DEF FreeForService, ClaimedByOthers, StoresOK

LEMMA OwnIsFree ==
  ASSUME StoresOK, Disjoint, NEW o \in OSDs
  PROVE claims[o] \subseteq FreeForService(o)
  BY FreeIsFree DEF Disjoint, StoresOK

\* A step that touches neither the claims nor what the journal knows.
LEMMA ClaimsAside ==
  ASSUME StoresOK, ClaimsInv, Released',
         UNCHANGED <<foreign, claims, recs, trans, tear>>
  PROVE ClaimsInv'
  BY DEF ClaimsInv, Disjoint, ClaimsJournaled, Recorded, Journaled

\* One OSD is journaled, or forgotten after its claim was given up.
LEMMA ClaimsKnown ==
  ASSUME StoresOK, ClaimsInv, Released', Osd \in OSDs,
         UNCHANGED <<foreign, claims>>,
         \A o \in OSDs \ {Osd} : /\ recs'[o] = recs[o] /\ trans'[o] = trans[o]
                                 /\ o \in tear => o \in tear',
         \/ claims[Osd] = {} \/ recs'[Osd].cores # {}
         \/ trans'[Osd].status # "none" \/ Osd \in tear'
  PROVE ClaimsInv'
<1>1. Disjoint'
  BY DEF ClaimsInv, Disjoint
<1>2. ASSUME NEW o \in OSDs, claims[o] # {}
      PROVE Recorded(o)' \/ Journaled(o)' \/ o \in tear'
  BY <1>2 DEF ClaimsInv, ClaimsJournaled, Recorded, Journaled
<1>3. QED
  BY <1>1, <1>2 DEF ClaimsInv, ClaimsJournaled

LEMMA ClaimsTransition ==
  ASSUME StoresOK, ClaimsInv, Released', Osd \in OSDs,
         NEW record, SetTransition(record),
         record.status # "none" \/ claims[Osd] = {}
  PROVE ClaimsInv'
<1>1. /\ trans'[Osd] = record /\ \A o \in OSDs \ {Osd} : trans'[o] = trans[o]
      /\ UNCHANGED <<foreign, claims, recs, tear>>
  BY DEF SetTransition, StoresOK, world
<1>2. QED
  BY <1>1, ClaimsKnown

\* A claim is given up, or made by an OSD that the journal knows.
LEMMA ClaimsSet ==
  ASSUME StoresOK, ClaimsInv, Released', Osd \in OSDs,
         NEW S \in SUBSET FreeForService(Osd), S = {} \/ Known(Osd),
         claims' = [claims EXCEPT ![Osd] = S],
         UNCHANGED <<foreign, recs, trans, tear>>
  PROVE ClaimsInv'
<1>1. /\ claims'[Osd] = S /\ \A o \in OSDs \ {Osd} : claims'[o] = claims[o]
  BY DEF StoresOK
<1>2. \A c \in S : /\ c \notin foreign
                    /\ \A p \in OSDs \ {Osd} : c \notin claims[p]
  BY FreeIsFree DEF FreeForService
<1>3. Disjoint'
  BY <1>1, <1>2 DEF ClaimsInv, Disjoint
<1>4. ClaimsJournaled'
  BY <1>1 DEF ClaimsInv, ClaimsJournaled, Known, Recorded, Journaled
<1>5. QED
  BY <1>3, <1>4 DEF ClaimsInv

LEMMA GrantIsFree ==
  ASSUME StoresOK, Disjoint, Osd \in OSDs, NEW node \in Shapes, NEW count,
         NEW S \in Grants(Osd, node, count)
  PROVE ClaimWith(Osd, node, S) \in SUBSET FreeForService(Osd)
<1>1. S \subseteq FreeForService(Osd)
  BY DEF Grants
<1>2. claims[Osd] \subseteq FreeForService(Osd)
  BY OwnIsFree
<1>3. QED
  BY <1>1, <1>2 DEF ClaimWith

\* A step that frees the claim, or fails and may have.
LEMMA ClaimsRelease ==
  ASSUME StoresOK, ClaimsInv, Released', Osd \in OSDs,
         claims' \in {claims, [claims EXCEPT ![Osd] = {}]},
         UNCHANGED <<world, journal>>
  PROVE ClaimsInv'
<1>1. CASE claims' = claims
  BY <1>1, ClaimsAside DEF world, journal
<1>2. CASE claims' = [claims EXCEPT ![Osd] = {}]
  <2>1. {} \in SUBSET FreeForService(Osd)
    OBVIOUS
  <2>2. QED
    BY <1>2, <2>1, ClaimsSet DEF world, journal
<1>3. QED
  BY <1>1, <1>2

\* A claim that was granted, perhaps without an answer, or refused.
LEMMA ClaimsClaim ==
  ASSUME StoresOK, ClaimsInv, Released', Osd \in OSDs, Known(Osd),
         NEW node \in Shapes, NEW count,
         \/ UNCHANGED claims
         \/ \E S \in Grants(Osd, node, count) :
              claims' = [claims EXCEPT ![Osd] = ClaimWith(Osd, node, S)],
         UNCHANGED <<world, journal>>
  PROVE ClaimsInv'
<1>1. CASE UNCHANGED claims
  BY <1>1, ClaimsAside DEF world, journal
<1>2. CASE \E S \in Grants(Osd, node, count) :
             claims' = [claims EXCEPT ![Osd] = ClaimWith(Osd, node, S)]
  <2>1. PICK S \in Grants(Osd, node, count) :
          claims' = [claims EXCEPT ![Osd] = ClaimWith(Osd, node, S)]
    BY <1>2
  <2>2. ClaimWith(Osd, node, S) \in SUBSET FreeForService(Osd)
    BY GrantIsFree DEF ClaimsInv
  <2>3. QED
    BY <2>1, <2>2, ClaimsSet DEF world, journal
<1>3. QED
  BY <1>1, <1>2

\* What the steps below need of the invariant above.
LEMMA InHook ==
  ASSUME AllocInv
  PROVE /\ StoresOK /\ HookInv /\ hook \in HookType
        /\ hook.pc \notin Rests => Osd \in OSDs
        /\ hook.pc \in Journals => Known(Osd)
  BY DEF AllocInv, StoresInv, HookInv, Control, Here, Journaling

\* Each group of steps keeps it.
LEMMA ReplacingClaims == ASSUME AllocInv, ClaimsInv, Replacing PROVE ClaimsInv'
<1>1. ASSUME ReplaceBegin PROVE ClaimsInv'
  <2>1. Osd \in OSDs
    BY <1>1, InHook DEF ReplaceBegin, At, Rests
  <2>2. Neutral
    BY <1>1, InHook
    DEF ReplaceBegin, Goto, HookType, Neutral, Emptied, Fewers, Clears
  <2>3. PICK record : SetTransition(record) /\ record.status # "none"
    BY <1>1 DEF ReplaceBegin
  <2>4. QED
    BY <2>1, <2>2, <2>3, InHook, NeutralReleases, ClaimsTransition
<1>2. ASSUME ReplaceMark PROVE ClaimsInv'
  <2>1. Neutral
    BY <1>2, InHook
    DEF ReplaceMark, Goto, HookType, Neutral, Emptied, Fewers, Clears
  <2>2. QED
    BY <1>2, <2>1, InHook, NeutralReleases, ClaimsAside DEF ReplaceMark, world
<1>3. ASSUME ReplaceStop PROVE ClaimsInv'
  <2>1. Neutral
    BY <1>3, InHook, FailedNeutral
    DEF ReplaceStop, StopOsd, At, Goto, HookType, Rests, Neutral, Emptied,
        Fewers, Clears
  <2>2. QED
    BY <1>3, <2>1, InHook, NeutralReleases, ClaimsAside
    DEF ReplaceStop, StopOsd, world, journal
<1>4. ASSUME ReplaceStopped PROVE ClaimsInv'
  <2>1. Neutral
    BY <1>4, InHook
    DEF ReplaceStopped, Goto, HookType, Neutral, Emptied, Fewers, Clears
  <2>2. Osd \in OSDs
    BY <1>4, InHook DEF ReplaceStopped, At, Rests
  <2>3. [trans[Osd] EXCEPT !.status = "stopped"].status # "none"
    BY <2>2, InHook, StatusSet
  <2>4. QED
    BY <1>4, <2>1, <2>2, <2>3, InHook, NeutralReleases, ClaimsTransition
    DEF ReplaceStopped
<1>5. ASSUME ReplaceRelease PROVE ClaimsInv'
  <2>1. Neutral
    BY <1>5, InHook, FailedNeutral
    DEF ReplaceRelease, ReleaseCall, At, Goto, HookType, Rests, Neutral,
        Emptied, Fewers, Clears
  <2>2. Osd \in OSDs
    BY <1>5, InHook DEF ReplaceRelease, At, Rests
  <2>3. QED
    BY <1>5, <2>1, <2>2, InHook, NeutralReleases, ClaimsRelease
    DEF ReplaceRelease, ReleaseCall
<1>6. ASSUME ReplaceDone PROVE ClaimsInv'
  <2>1. hook.then \in {"claim", "any", "first", "reset", "rejournal"}
    BY <1>6, InHook DEF ReplaceDone, At, HookInv, Control, Replaces
  <2>2. Neutral
    BY <1>6, <2>1, InHook
    DEF ReplaceDone, Return, Goto, HookType, Neutral, Emptied, Fewers, Clears
  <2>3. Osd \in OSDs
    BY <1>6, InHook DEF ReplaceDone, At, Rests
  <2>4. [trans[Osd] EXCEPT !.status = "replacing"].status # "none"
    BY <2>3, InHook, StatusSet
  <2>5. QED
    BY <1>6, <2>2, <2>3, <2>4, InHook, NeutralReleases, ClaimsTransition
    DEF ReplaceDone
<1>7. QED
  BY <1>1, <1>2, <1>3, <1>4, <1>5, <1>6 DEF Replacing

\* Clearing a drop-in leaves the claims alone and comes back to where the claim
\* is released, or was.
LEMMA ClearingClaims == ASSUME AllocInv, ClaimsInv, Clearing PROVE ClaimsInv'
<1>1. hook.pc \in Clears /\ hook \in HookType
  BY InHook
  DEF Clearing, ClearMark, ClearRemove, ClearReload, ClearReloaded,
      ClearRestart, ClearDone, Reload, Restart, At, Clears
<1>2. hook.then \in {"stale-release", "teardown-release", "unpinned"}
  BY <1>1, InHook, InClear
<1>3. \/ Neutral
      \/ hook'.pc \in Clears /\ hook'.then = hook.then /\ hook'.osd = hook.osd
      \/ hook'.pc = hook.then /\ hook'.osd = hook.osd
  BY <1>1, InHook, FailedNeutral
  DEF Clearing, ClearMark, ClearRemove, ClearReload, ClearReloaded,
      ClearRestart, ClearDone, Reload, Restart, At, Clears, Rests, Goto, Return,
      HookType
<1>4. UNCHANGED <<foreign, claims, recs, trans, tear>>
  BY DEF Clearing, ClearMark, ClearRemove, ClearReload, ClearReloaded,
         ClearRestart, ClearDone, Reload, Restart, world, journal
<1>5. Released'
  <2>1. CASE Neutral
    BY <2>1, NeutralReleases
  <2>2. CASE /\ hook'.pc \in Clears /\ hook'.then = hook.then
             /\ hook'.osd = hook.osd
    BY <1>1, <1>2, <1>4, <2>2
    DEF ClaimsInv, Released, Clears, Emptied, Fewers, Osd
  <2>3. CASE hook'.pc = hook.then /\ hook'.osd = hook.osd
    BY <1>1, <1>2, <1>4, <2>3
    DEF ClaimsInv, Released, Clears, Emptied, Fewers, Osd
  <2>4. QED
    BY <1>3, <2>1, <2>2, <2>3
<1>6. QED
  BY <1>4, <1>5, InHook, ClaimsAside

LEMMA ApplyingClaims == ASSUME AllocInv, ClaimsInv, Applying PROVE ClaimsInv'
<1>1. hook.pc \in Applies /\ hook \in HookType /\ Osd \in OSDs
  BY InHook
  DEF Applying, Granted, ApplyMark, ApplyWrite, ApplyReload, ApplyRestart,
      ApplyVerify, Record, Reload, Restart, At, Applies, Rests
<1>2. CASE Record
  <2>1. "osd" \in Places /\ "finish" \in Places
    BY DEF Places, Plans, Rests
  <2>2. Neutral
    BY <1>1, <1>2, <2>1, AdvanceMoves
    DEF Record, GoesOn, Neutral, Emptied, Fewers, Clears
  <2>3. hook.cores # {}
    BY <1>1, InHook DEF HookInv, Here, Binding
  <2>4. recs'[Osd].cores # {}
    BY <1>1, <1>2, <2>3, InHook DEF Record, StoresOK
  <2>5. \A o \in OSDs \ {Osd} : recs'[o] = recs[o] /\ trans'[o] = trans[o]
    BY <1>2, InHook DEF Record, StoresOK
  <2>6. QED
    BY <1>1, <1>2, <2>2, <2>4, <2>5, InHook, NeutralReleases, ClaimsKnown
    DEF Record, world
<1>3. CASE Granted
  <2>1. Neutral
    BY <1>1, <1>3 DEF Granted, Goto, HookType, Neutral, Emptied, Fewers, Clears
  <2>2. CASE Journaled(Osd)
    <3>1. PICK record :
            record = [trans[Osd] EXCEPT !.status = "allocated",
                                        !.node = hook.node]
      OBVIOUS
    <3>2. record.status # "none"
      BY <1>1, <3>1, InHook DEF StoresOK, TransitionType
    <3>3. QED
      BY <1>1, <1>3, <2>1, <2>2, <3>1, <3>2, InHook, NeutralReleases,
         ClaimsTransition
      DEF Granted
  <2>3. CASE ~Journaled(Osd)
    BY <1>3, <2>1, <2>3, InHook, NeutralReleases, ClaimsAside
    DEF Granted, world, journal
  <2>4. QED
    BY <2>2, <2>3
<1>4. CASE ApplyMark \/ ApplyWrite \/ ApplyReload \/ ApplyRestart \/ ApplyVerify
  <2>1. Neutral
    BY <1>1, <1>4, InHook, FailedNeutral
    DEF ApplyMark, ApplyWrite, ApplyReload, ApplyRestart, ApplyVerify, Reload,
        Restart, At, Goto, HookType, Rests, Neutral, Emptied, Fewers, Clears
  <2>2. QED
    BY <1>4, <2>1, InHook, NeutralReleases, ClaimsAside
    DEF ApplyMark, ApplyWrite, ApplyReload, ApplyRestart, ApplyVerify, Reload,
        Restart, world, journal
<1>5. QED
  BY <1>2, <1>3, <1>4 DEF Applying

LEMMA ReconcilingClaims ==
  ASSUME AllocInv, ClaimsInv, Reconciling PROVE ClaimsInv'
<1> USE DEF At, Rests
<1>1. ASSUME StaleOsd PROVE ClaimsInv'
  <2>1. "stale" \in Places /\ "plan" \in Places
    BY DEF Places, Stales
  <2>2. Neutral
    <3>1. CASE Advance("stale", "plan", FALSE)
      BY <2>1, <3>1, InHook, AdvanceMoves
      DEF GoesOn, Neutral, Emptied, Fewers, Clears
    <3>2. CASE Call("clear", "stale-release")
      BY <3>2, InHook DEF Call, HookType, Neutral, Emptied, Fewers, Clears
    <3>3. QED
      BY <1>1, <3>1, <3>2 DEF StaleOsd
  <2>3. QED
    BY <1>1, <2>2, InHook, NeutralReleases, ClaimsAside
    DEF StaleOsd, OnlyControl, world, journal
<1>2. ASSUME StaleRelease PROVE ClaimsInv'
  <2>1. /\ Osd \in OSDs
        /\ claims' \in {claims, [claims EXCEPT ![Osd] = {}]}
        /\ UNCHANGED <<world, journal>>
    BY <1>2, InHook DEF StaleRelease, ReleaseCall, OnlyControl
  <2>2. Neutral \/ /\ hook' = [hook EXCEPT !.pc = "stale-forget"]
                   /\ claims'[Osd] = {}
    BY <1>2, InHook, FailedNeutral
    DEF StaleRelease, ReleaseCall, OnlyControl, Goto, StoresOK
  <2>3. Released'
    BY <2>2, InHook, NeutralReleases
    DEF Released, HookType, Emptied, Fewers, Clears, Osd
  <2>4. QED
    BY <2>1, <2>3, InHook, ClaimsRelease
<1>3. ASSUME StaleForget PROVE ClaimsInv'
  <2>1. "stale" \in Places /\ "plan" \in Places
    BY DEF Places, Stales
  <2>2. Neutral
    BY <1>3, <2>1, InHook, AdvanceMoves
    DEF StaleForget, GoesOn, Neutral, Emptied, Fewers, Clears
  <2>3. Osd \in OSDs /\ claims[Osd] = {}
    BY <1>3, InHook DEF StaleForget, ClaimsInv, Released, Emptied
  <2>4. \A o \in OSDs \ {Osd} : recs'[o] = recs[o] /\ trans'[o] = trans[o]
    BY <1>3, InHook DEF StaleForget, StoresOK
  <2>5. QED
    BY <1>3, <2>2, <2>3, <2>4, InHook, NeutralReleases, ClaimsKnown
    DEF StaleForget, world
<1>4. ASSUME Plan \/ Finish \/ Handoff PROVE ClaimsInv'
  <2>1. hook'.pc \in {"finish", "idle", "osd", "handoff"}
    <3>1. PICK o, todo :
            \/ Goto("finish") \/ Goto("handoff") \/ hook' = Idle
            \/ hook' = [hook EXCEPT !.pc = "osd", !.osd = o, !.todo = todo,
                                    !.then = "idle"]
      BY <1>4 DEF Plan, Finish, Handoff
    <3>2. CASE hook' = [hook EXCEPT !.pc = "osd", !.osd = o, !.todo = todo,
                                    !.then = "idle"]
      BY <3>2, InHook DEF HookType
    <3>3. CASE Goto("finish") \/ Goto("handoff")
      BY <3>3, InHook DEF Goto, HookType
    <3>4. CASE hook' = Idle
      BY <3>4 DEF Idle
    <3>5. QED
      BY <3>1, <3>2, <3>3, <3>4
  <2>2. Neutral
    BY <2>1 DEF Neutral, Emptied, Fewers, Clears
  <2>3. QED
    BY <1>4, <2>2, InHook, NeutralReleases, ClaimsAside
    DEF Plan, Finish, Handoff, OnlyControl, world, journal
<1>5. ASSUME Orphan PROVE ClaimsInv'
  <2>1. "orphan" \in Places /\ "finish" \in Places
    BY DEF Places, Orphans
  <2>2. Neutral
    BY <1>5, <2>1, InHook, AdvanceMoves
    DEF Orphan, GoesOn, Goto, HookType, Neutral, Emptied, Fewers, Clears
  <2>3. CASE OnlyControl
    BY <2>2, <2>3, InHook, NeutralReleases, ClaimsAside
    DEF OnlyControl, world, journal
  <2>4. CASE SetTransition([trans[Osd] EXCEPT !.status = "cleanup"])
    <3>1. Osd \in OSDs
      BY <1>5, InHook DEF Orphan
    <3>2. [trans[Osd] EXCEPT !.status = "cleanup"].status # "none"
      BY <3>1, InHook, StatusSet
    <3>3. QED
      BY <2>2, <2>4, <3>1, <3>2, InHook, NeutralReleases, ClaimsTransition
  <2>5. QED
    BY <1>5, <2>3, <2>4 DEF Orphan
<1>6. ASSUME OrphanRelease PROVE ClaimsInv'
  <2>1. /\ Osd \in OSDs
        /\ claims' \in {claims, [claims EXCEPT ![Osd] = {}]}
        /\ UNCHANGED <<world, journal>>
    BY <1>6, InHook DEF OrphanRelease, ReleaseCall
  <2>2. "orphan" \in Places /\ "finish" \in Places
    BY DEF Places, Orphans
  <2>3. \/ GoesOn("orphan", "finish", TRUE)
        \/ hook' = [hook EXCEPT !.pc = "orphan-forget"] /\ claims'[Osd] = {}
    BY <1>6, <2>1, <2>2, InHook, AdvanceMoves
    DEF OrphanRelease, ReleaseCall, Goto, StoresOK
  <2>4. Released'
    BY <2>3, InHook
    DEF GoesOn, Released, HookType, Emptied, Fewers, Clears, Osd
  <2>5. QED
    BY <2>1, <2>4, InHook, ClaimsRelease
<1>7. ASSUME OrphanForget PROVE ClaimsInv'
  <2>1. /\ "orphan" \in Places /\ "finish" \in Places
        /\ hook.err \in BOOLEAN
    BY InHook DEF Places, Orphans, HookType
  <2>2. Neutral
    BY <1>7, <2>1, InHook, AdvanceMoves
    DEF OrphanForget, GoesOn, Neutral, Emptied, Fewers, Clears
  <2>3. Osd \in OSDs /\ claims[Osd] = {}
    BY <1>7, InHook DEF OrphanForget, ClaimsInv, Released, Emptied
  <2>4. QED
    BY <1>7, <2>2, <2>3, InHook, NeutralReleases, ClaimsTransition
    DEF OrphanForget
<1>8. QED
  BY <1>1, <1>2, <1>3, <1>4, <1>5, <1>6, <1>7 DEF Reconciling

\* Both kinds of profile journal an OSD before they claim for it.
LEMMA BeginKnows ==
  ASSUME StoresOK, ClaimsInv, Released', Osd \in OSDs, BeginNewClaim
  PROVE ClaimsInv'
  BY ClaimsTransition DEF BeginNewClaim

LEMMA StrictStepClaims ==
  ASSUME AllocInv, ClaimsInv, StrictStep PROVE ClaimsInv'
<1> USE DEF At, Rests
<1>1. ASSUME StrictOsd PROVE ClaimsInv'
  <2>1. Osd \in OSDs
    BY <1>1, InHook DEF StrictOsd
  <2>2. Neutral
    BY <1>1, InHook, FailedNeutral
    DEF StrictOsd, Goto, Call, HookType, Neutral, Emptied, Fewers, Clears
  <2>3. OnlyControl \/ BeginNewClaim
    BY <1>1 DEF StrictOsd
  <2>4. CASE OnlyControl
    BY <2>2, <2>4, InHook, NeutralReleases, ClaimsAside
    DEF OnlyControl, world, journal
  <2>5. QED
    BY <2>1, <2>2, <2>3, <2>4, InHook, NeutralReleases, BeginKnows
<1>2. ASSUME StrictRejournal PROVE ClaimsInv'
  <2>1. Osd \in OSDs
    BY <1>2, InHook DEF StrictRejournal
  <2>2. Neutral
    BY <1>2, InHook
    DEF StrictRejournal, HookType, Neutral, Emptied, Fewers, Clears
  <2>3. [trans[Osd] EXCEPT !.status = "claiming"].status # "none"
    BY <2>1, InHook, StatusSet
  <2>4. QED
    BY <1>2, <2>1, <2>2, <2>3, InHook, NeutralReleases, ClaimsTransition
    DEF StrictRejournal
<1>3. ASSUME StrictClaim PROVE ClaimsInv'
  <2>1. Osd \in OSDs /\ Known(Osd)
    BY <1>3, InHook DEF StrictClaim, Journals, Claims
  <2>2. Request.node \in Shapes
    BY <1>3, InHook, RequestTyped
    DEF StrictClaim, Plans, Journals, Claims, Shapes
  <2>3. Neutral
    BY <1>3, InHook, FailedNeutral
    DEF StrictClaim, ClaimCall, StrictGiveUp, Goto, HookType, Neutral, Emptied,
        Fewers, Clears
  <2>4. /\ \/ UNCHANGED claims
           \/ \E S \in Grants(Osd, Request.node, Request.count) :
                claims' = [claims EXCEPT
                             ![Osd] = ClaimWith(Osd, Request.node, S)]
        /\ UNCHANGED <<world, journal>>
    BY <1>3 DEF StrictClaim, ClaimCall
  <2>5. QED
    BY <2>1, <2>2, <2>3, <2>4, InHook, NeutralReleases, ClaimsClaim
<1>4. ASSUME Cleanup PROVE ClaimsInv'
  <2>1. Osd \in OSDs
    BY <1>4, InHook DEF Cleanup
  <2>2. Neutral
    BY <1>4, InHook, FailedNeutral
    DEF Cleanup, Goto, HookType, Neutral, Emptied, Fewers, Clears
  <2>3. CASE OnlyControl
    BY <2>2, <2>3, InHook, NeutralReleases, ClaimsAside
    DEF OnlyControl, world, journal
  <2>4. CASE SetTransition([trans[Osd] EXCEPT !.status = "cleanup"])
    <3>1. [trans[Osd] EXCEPT !.status = "cleanup"].status # "none"
      BY <2>1, InHook, StatusSet
    <3>2. QED
      BY <2>1, <2>2, <2>4, <3>1, InHook, NeutralReleases, ClaimsTransition
  <2>5. QED
    BY <1>4, <2>3, <2>4 DEF Cleanup
<1>5. ASSUME CleanupRelease PROVE ClaimsInv'
  <2>1. /\ Osd \in OSDs
        /\ claims' \in {claims, [claims EXCEPT ![Osd] = {}]}
        /\ UNCHANGED <<world, journal>>
    BY <1>5, InHook DEF CleanupRelease, ReleaseCall
  <2>2. \/ Neutral
        \/ hook' = [hook EXCEPT !.pc = "cleanup-forget"] /\ claims'[Osd] = {}
    BY <1>5, InHook, FailedNeutral
    DEF CleanupRelease, ReleaseCall, Goto, StoresOK
  <2>3. Released'
    BY <2>2, InHook, NeutralReleases
    DEF Released, HookType, Emptied, Fewers, Clears, Osd
  <2>4. QED
    BY <2>1, <2>3, InHook, ClaimsRelease
<1>6. ASSUME CleanupForget PROVE ClaimsInv'
  <2>1. Neutral
    BY <1>6, InHook, FailedNeutral DEF CleanupForget
  <2>2. Osd \in OSDs /\ claims[Osd] = {}
    BY <1>6, InHook DEF CleanupForget, ClaimsInv, Released, Emptied
  <2>3. QED
    BY <1>6, <2>1, <2>2, InHook, NeutralReleases, ClaimsTransition
    DEF CleanupForget
<1>7. QED
  BY <1>1, <1>2, <1>3, <1>4, <1>5, <1>6 DEF StrictStep

\* A first attempt, or one on any node, is journaled.
LEMMA AttemptKnows ==
  ASSUME StoresOK, ClaimsInv, Released', Osd \in OSDs, JournalClaimAttempt
  PROVE ClaimsInv'
  BY ClaimsTransition DEF JournalClaimAttempt

\* What the listing has left is still there, so that a claim for as many CPUs is
\* granted.
LEMMA FewerGranted ==
  ASSUME AllocInv, ClaimsInv, hook.pc = "fewer-claim"
  PROVE Grants(Osd, AnyNode, Cardinality(hook.cores)) # {}
<1>1. hook.cores \in SUBSET Cpus
  BY InHook DEF HookType
<1>2. /\ claims[Osd] \subseteq hook.cores
      /\ hook.cores \subseteq FreeForService(Osd)
  BY DEF ClaimsInv, Released, Fewers
<1>3. hook.cores \in Grants(Osd, AnyNode, Cardinality(hook.cores))
  BY <1>1, <1>2 DEF Grants
<1>4. QED
  BY <1>3

LEMMA FlexibleStepClaims ==
  ASSUME AllocInv, ClaimsInv, FlexibleStep PROVE ClaimsInv'
<1> USE DEF At, Rests
<1>1. ASSUME FlexibleOsd \/ FlexibleReset PROVE ClaimsInv'
  <2>1. Neutral
    BY <1>1, InHook
    DEF FlexibleOsd, FlexibleReset, Goto, Call, HookType, Neutral, Emptied,
        Fewers, Clears
  <2>2. QED
    BY <1>1, <2>1, InHook, NeutralReleases, ClaimsAside
    DEF FlexibleOsd, FlexibleReset, OnlyControl, world, journal
<1>2. ASSUME FlexibleFirst PROVE ClaimsInv'
  <2>1. Neutral
    BY <1>2, InHook
    DEF FlexibleFirst, Goto, Call, HookType, Neutral, Emptied, Fewers, Clears
  <2>2. CASE OnlyControl
    BY <2>1, <2>2, InHook, NeutralReleases, ClaimsAside
    DEF OnlyControl, world, journal
  <2>3. CASE BeginNewClaim
    BY <1>2, <2>1, <2>3, InHook, NeutralReleases, BeginKnows DEF FlexibleFirst
  <2>4. QED
    BY <1>2, <2>2, <2>3 DEF FlexibleFirst
<1>3. ASSUME FlexibleClaim PROVE ClaimsInv'
  <2>1. Osd \in OSDs /\ Known(Osd)
    BY <1>3, InHook DEF FlexibleClaim, Journals, Claims
  <2>2. Request.node \in Shapes
    BY <1>3, InHook, RequestTyped
    DEF FlexibleClaim, Plans, Journals, Claims, Shapes
  <2>3. Neutral
    BY <1>3, InHook, FailedNeutral
    DEF FlexibleClaim, ClaimCall, Call, HookType, Neutral, Emptied, Fewers,
        Clears
  <2>4. /\ \/ UNCHANGED claims
           \/ \E S \in Grants(Osd, Request.node, Request.count) :
                claims' = [claims EXCEPT
                             ![Osd] = ClaimWith(Osd, Request.node, S)]
        /\ UNCHANGED <<world, journal>>
    BY <1>3 DEF FlexibleClaim, ClaimCall
  <2>5. QED
    BY <2>1, <2>2, <2>3, <2>4, InHook, NeutralReleases, ClaimsClaim
<1>4. ASSUME FlexibleAny PROVE ClaimsInv'
  <2>1. Neutral
    BY <1>4, InHook
    DEF FlexibleAny, Goto, HookType, Neutral, Emptied, Fewers, Clears
  <2>2. QED
    BY <1>4, <2>1, InHook, NeutralReleases, AttemptKnows DEF FlexibleAny
<1>5. ASSUME FlexibleAnyClaim PROVE ClaimsInv'
  <2>1. Osd \in OSDs /\ Known(Osd) /\ AnyNode \in Shapes
    BY <1>5, InHook DEF FlexibleAnyClaim, Journals, Claims, Shapes
  <2>2. Neutral
    BY <1>5, InHook, FailedNeutral
    DEF FlexibleAnyClaim, ClaimCall, Goto, HookType, Neutral, Emptied, Fewers,
        Clears
  <2>3. /\ \/ UNCHANGED claims
           \/ \E S \in Grants(Osd, AnyNode, Request.count) :
                claims' = [claims EXCEPT ![Osd] = ClaimWith(Osd, AnyNode, S)]
        /\ UNCHANGED <<world, journal>>
    BY <1>5 DEF FlexibleAnyClaim, ClaimCall
  <2>4. QED
    BY <2>1, <2>2, <2>3, InHook, NeutralReleases, ClaimsClaim
<1>6. ASSUME FlexibleFewer PROVE ClaimsInv'
  <2>1. Osd \in OSDs
    BY <1>6, InHook DEF FlexibleFewer
  <2>2. claims[Osd] \subseteq FreeForService(Osd)
    BY <2>1, InHook, OwnIsFree DEF ClaimsInv
  <2>3. UNCHANGED <<world, claims, journal>>
    BY <1>6 DEF FlexibleFewer
  <2>4. \/ Neutral
        \/ FreeForService(Osd) = {} /\ hook' = [hook EXCEPT !.pc = "unpin"]
        \/ hook' = [hook EXCEPT !.pc = "fewer-journal",
                                !.cores = FreeForService(Osd)]
    BY <1>6, InHook, FailedNeutral DEF FlexibleFewer, Goto
  <2>5. Released'
    <3>1. CASE Neutral
      BY <3>1, NeutralReleases
    <3>2. CASE FreeForService(Osd) = {} /\ hook' = [hook EXCEPT !.pc = "unpin"]
      BY <2>2, <2>3, <3>2, InHook
      DEF Released, HookType, Emptied, Fewers, Clears, Osd
    <3>3. CASE hook' = [hook EXCEPT !.pc = "fewer-journal",
                                    !.cores = FreeForService(Osd)]
      BY <2>2, <2>3, <3>3, InHook
      DEF Released, HookType, Emptied, Fewers, Clears, Osd, FreeForService,
          ClaimedByOthers, world
    <3>4. QED
      BY <2>4, <3>1, <3>2, <3>3
  <2>6. QED
    BY <2>3, <2>5, InHook, ClaimsAside DEF world, journal
<1>7. ASSUME FlexibleFewerJournal PROVE ClaimsInv'
  <2>1. Osd \in OSDs /\ hook' = [hook EXCEPT !.pc = "fewer-claim"]
    BY <1>7, InHook DEF FlexibleFewerJournal, Goto
  <2>2. UNCHANGED <<foreign, claims>>
    BY <1>7
    DEF FlexibleFewerJournal, JournalClaimAttempt, SetTransition, world
  <2>3. Released'
    BY <1>7, <2>1, <2>2, InHook
    DEF FlexibleFewerJournal, ClaimsInv, Released, HookType, Emptied, Fewers,
        Clears, Osd, FreeForService, ClaimedByOthers
  <2>4. QED
    BY <1>7, <2>1, <2>3, InHook, AttemptKnows DEF FlexibleFewerJournal
<1>8. ASSUME FlexibleFewerClaim PROVE ClaimsInv'
  <2>1. Osd \in OSDs /\ Known(Osd) /\ AnyNode \in Shapes
    BY <1>8, InHook DEF FlexibleFewerClaim, Journals, Claims, Shapes
  <2>2. Grants(Osd, AnyNode, Cardinality(hook.cores)) # {}
    BY <1>8, FewerGranted DEF FlexibleFewerClaim
  <2>3. Neutral
    BY <1>8, <2>2, InHook, FailedNeutral
    DEF FlexibleFewerClaim, ClaimCall, HookType, Neutral, Emptied, Fewers,
        Clears
  <2>4. /\ \/ UNCHANGED claims
           \/ \E S \in Grants(Osd, AnyNode, Cardinality(hook.cores)) :
                claims' = [claims EXCEPT ![Osd] = ClaimWith(Osd, AnyNode, S)]
        /\ UNCHANGED <<world, journal>>
    BY <1>8 DEF FlexibleFewerClaim, ClaimCall
  <2>5. QED
    BY <2>1, <2>3, <2>4, InHook, NeutralReleases, ClaimsClaim
<1>9. ASSUME FlexibleUnpin PROVE ClaimsInv'
  <2>1. claims[Osd] = {} /\ UNCHANGED <<world, claims, journal>>
    BY <1>9 DEF FlexibleUnpin, OnlyControl, ClaimsInv, Released, Emptied
  <2>2. hook' = [hook EXCEPT !.pc = "clear", !.then = "unpinned",
                             !.unpin = TRUE]
    BY <1>9 DEF FlexibleUnpin
  <2>3. Released'
    BY <2>1, <2>2, InHook
    DEF Released, HookType, Emptied, Fewers, Clears, Osd
  <2>4. QED
    BY <2>1, <2>3, InHook, ClaimsAside DEF world, journal
<1>10. ASSUME FlexibleUnpinned PROVE ClaimsInv'
  <2>1. "osd" \in Places /\ "finish" \in Places
    BY DEF Places, Plans
  <2>2. Neutral
    BY <1>10, <2>1, InHook, AdvanceMoves
    DEF FlexibleUnpinned, GoesOn, Neutral, Emptied, Fewers, Clears
  <2>3. Osd \in OSDs /\ claims[Osd] = {}
    BY <1>10, InHook DEF FlexibleUnpinned, ClaimsInv, Released, Emptied
  <2>4. \A o \in OSDs \ {Osd} : recs'[o] = recs[o] /\ trans'[o] = trans[o]
    BY <1>10, InHook DEF FlexibleUnpinned, StoresOK
  <2>5. QED
    BY <1>10, <2>2, <2>3, <2>4, InHook, NeutralReleases, ClaimsKnown
    DEF FlexibleUnpinned, world
<1>11. QED
  BY <1>1, <1>2, <1>3, <1>4, <1>5, <1>6, <1>7, <1>8, <1>9, <1>10
  DEF FlexibleStep

LEMMA TearingDownClaims ==
  ASSUME AllocInv, ClaimsInv, TearingDown PROVE ClaimsInv'
<1> USE DEF At, Rests
<1>1. /\ "teardown" \in Places /\ "departed" \in Places
      /\ hook.err \in BOOLEAN
  BY InHook DEF Places, Teardowns, HookType
<1>2. ASSUME RemoveStop PROVE ClaimsInv'
  <2>1. Neutral
    BY <1>2, InHook
    DEF RemoveStop, Goto, HookType, Neutral, Emptied, Fewers, Clears
  <2>2. QED
    BY <1>2, <2>1, InHook, NeutralReleases, ClaimsAside
    DEF RemoveStop, world, journal
<1>3. ASSUME Teardown PROVE ClaimsInv'
  <2>1. Osd \in OSDs
    BY <1>3, InHook DEF Teardown
  <2>2. Neutral
    <3>1. CASE Advance("teardown", "departed", hook.err)
      BY <1>1, <3>1, InHook, AdvanceMoves
      DEF GoesOn, Neutral, Emptied, Fewers, Clears
    <3>2. CASE Goto("teardown-stop") \/ Goto("removed")
      BY <3>2, InHook DEF Goto, HookType, Neutral, Emptied, Fewers, Clears
    <3>3. QED
      BY <1>3, <3>1, <3>2 DEF Teardown
  <2>3. /\ UNCHANGED <<foreign, claims, recs, trans>>
        /\ tear' = tear \/ tear' = tear \cup {Osd}
    BY <1>3 DEF Teardown, world
  <2>4. CASE tear' = tear
    BY <2>2, <2>3, <2>4, InHook, NeutralReleases, ClaimsAside
  <2>5. CASE tear' = tear \cup {Osd}
    BY <2>1, <2>2, <2>3, <2>5, InHook, NeutralReleases, ClaimsKnown
  <2>6. QED
    BY <2>3, <2>4, <2>5
<1>4. ASSUME TeardownStop PROVE ClaimsInv'
  <2>1. Neutral
    BY <1>4, InHook, FailedNeutral
    DEF TeardownStop, StopOsd, Call, HookType, Neutral, Emptied, Fewers, Clears
  <2>2. QED
    BY <1>4, <2>1, InHook, NeutralReleases, ClaimsAside
    DEF TeardownStop, StopOsd, world, journal
<1>5. ASSUME TeardownRelease PROVE ClaimsInv'
  <2>1. /\ Osd \in OSDs
        /\ claims' \in {claims, [claims EXCEPT ![Osd] = {}]}
        /\ UNCHANGED <<world, journal>>
    BY <1>5, InHook DEF TeardownRelease, ReleaseCall
  <2>2. \/ Neutral
        \/ hook' = [hook EXCEPT !.pc = "teardown-complete"] /\ claims'[Osd] = {}
    BY <1>5, InHook, FailedNeutral
    DEF TeardownRelease, ReleaseCall, Goto, StoresOK
  <2>3. Released'
    BY <2>2, InHook, NeutralReleases
    DEF Released, HookType, Emptied, Fewers, Clears, Osd
  <2>4. QED
    BY <2>1, <2>3, InHook, ClaimsRelease
<1>6. ASSUME TeardownComplete PROVE ClaimsInv'
  <2>1. Neutral
    <3>1. CASE Advance("teardown", "departed", hook.err)
      BY <1>1, <3>1, InHook, AdvanceMoves
      DEF GoesOn, Neutral, Emptied, Fewers, Clears
    <3>2. CASE Goto("removed")
      BY <3>2, InHook DEF Goto, HookType, Neutral, Emptied, Fewers, Clears
    <3>3. QED
      BY <1>6, <3>1, <3>2 DEF TeardownComplete
  <2>2. Osd \in OSDs /\ claims[Osd] = {}
    BY <1>6, InHook DEF TeardownComplete, ClaimsInv, Released, Emptied
  <2>3. \A o \in OSDs \ {Osd} : /\ recs'[o] = recs[o] /\ trans'[o] = trans[o]
                                /\ o \in tear => o \in tear'
    BY <1>6, InHook DEF TeardownComplete, StoresOK
  <2>4. QED
    BY <1>6, <2>1, <2>2, <2>3, InHook, NeutralReleases, ClaimsKnown
    DEF TeardownComplete, world
<1>7. ASSUME Removed \/ Departed PROVE ClaimsInv'
  <2>1. Neutral
    BY <1>7 DEF Removed, Departed, Idle, Neutral, Emptied, Fewers, Clears
  <2>2. QED
    BY <1>7, <2>1, InHook, NeutralReleases, ClaimsAside
    DEF Removed, Departed, OnlyControl, world, journal
<1>8. QED
  BY <1>2, <1>3, <1>4, <1>5, <1>6, <1>7 DEF TearingDown

LEMMA ReconcileClaims == ASSUME AllocInv, ClaimsInv, Reconcile PROVE ClaimsInv'
<1>1. \E start \in {"orphan", "finish", "stale", "plan"} : hook'.pc = start
  BY DEF Reconcile, Idle
<1>2. Neutral
  BY <1>1 DEF Neutral, Emptied, Fewers, Clears
<1>3. QED
  BY <1>2, InHook, NeutralReleases, ClaimsAside
  DEF Reconcile, OnlyControl, world, journal

\* Other workloads claim what is free, and not while a listing is relied upon.
LEMMA EnvironmentClaims ==
  ASSUME AllocInv, ClaimsInv, Environment, ListingHolds PROVE ClaimsInv'
<1>1. CASE Crash
  <2>1. Neutral
    BY <1>1 DEF Crash, Idle, Neutral, Emptied, Fewers, Clears
  <2>2. QED
    BY <1>1, <2>1, InHook, NeutralReleases, ClaimsAside
    DEF Crash, world, journal
<1>2. CASE StopUnit
  <2>1. hook'.pc \in {"departed", "teardown"}
    BY <1>2 DEF StopUnit, Idle
  <2>2. Neutral
    BY <2>1 DEF Neutral, Emptied, Fewers, Clears
  <2>3. QED
    BY <1>2, <2>2, InHook, NeutralReleases, ClaimsAside
    DEF StopUnit, world, journal
<1>3. ASSUME NEW o \in OSDs, RemoveDisk(o) PROVE ClaimsInv'
  <2>1. Neutral
    BY <1>3 DEF RemoveDisk, Idle, Neutral, Emptied, Fewers, Clears
  <2>2. QED
    BY <1>3, <2>1, InHook, NeutralReleases, ClaimsAside
    DEF RemoveDisk, world, journal
<1>4. CASE ForeignClaims
  <2>1. UNCHANGED <<hook, claims, recs, trans, tear>>
    BY <1>4 DEF ForeignClaims, journal
  <2>2. \A c \in foreign' \ foreign : \A o \in OSDs : c \notin claims[o]
    BY <1>4 DEF ForeignClaims
  <2>3. Disjoint' /\ ClaimsJournaled'
    BY <2>1, <2>2
    DEF ClaimsInv, Disjoint, ClaimsJournaled, Recorded, Journaled
  <2>4. hook.pc \in Fewers => FreeForService(Osd) \subseteq FreeForService(Osd)'
    BY <2>1
    DEF ListingHolds, Fewers, FreeForService, ClaimedByOthers, Osd
  <2>5. Released'
    BY <2>1, <2>4 DEF ClaimsInv, Released, Osd
  <2>6. QED
    BY <2>3, <2>5 DEF ClaimsInv
<1>5. ASSUME \/ SetProfile
             \/ \E o \in OSDs : \/ DaemonRestarts(o) \/ DiskFails(o)
                                \/ DiskAppears(o) \/ StartedElsewhere(o)
      PROVE ClaimsInv'
  <2>1. UNCHANGED <<hook, foreign, claims, recs, trans, tear>>
    BY <1>5
    DEF SetProfile, DaemonRestarts, DiskFails, DiskAppears, StartedElsewhere,
        world, journal
  <2>2. Released'
    BY <2>1
    DEF ClaimsInv, Released, Osd, FreeForService, ClaimedByOthers
  <2>3. QED
    BY <2>1, <2>2, InHook, ClaimsAside
<1>6. QED
  BY <1>1, <1>2, <1>3, <1>4, <1>5 DEF Environment

LEMMA ClaimsInit == Init => ClaimsInv
<1> SUFFICES ASSUME Init PROVE ClaimsInv
  OBVIOUS
<1>1. \A o \in OSDs : claims[o] = {}
  BY DEF Init, HostInit
<1>2. hook.pc = "idle" /\ foreign = {}
  BY DEF Init, HostInit, Idle
<1>3. QED
  BY <1>1, <1>2
  DEF ClaimsInv, Disjoint, ClaimsJournaled, Released, Emptied, Fewers, Clears

LEMMA ClaimsStep ==
  AllocInv /\ ClaimsInv /\ [Next]_vars /\ [ListingHolds]_vars => ClaimsInv'
<1> SUFFICES ASSUME AllocInv, ClaimsInv, [Next]_vars, [ListingHolds]_vars
             PROVE ClaimsInv'
  OBVIOUS
<1>1. CASE UNCHANGED vars
  <2>1. UNCHANGED <<hook, foreign, claims, recs, trans, tear>>
    BY <1>1 DEF vars
  <2>2. Released'
    BY <2>1
    DEF ClaimsInv, Released, Osd, FreeForService, ClaimedByOthers
  <2>3. QED
    BY <2>1, <2>2, InHook, ClaimsAside
<1>2. CASE Reconcile
  BY <1>2, ReconcileClaims
<1>3. CASE HookStep
  BY <1>3, ReplacingClaims, ClearingClaims, ApplyingClaims, ReconcilingClaims,
     StrictStepClaims, FlexibleStepClaims, TearingDownClaims
  DEF HookStep
<1>4. CASE Environment /\ ~(UNCHANGED vars)
  BY <1>4, EnvironmentClaims
<1>5. QED
  BY <1>1, <1>2, <1>3, <1>4 DEF Next

\* EPA holds nothing for an OSD that the unit's journal does not know of, as
\* long as no other workload claims a CPU between the listing that says how few
\* are left and the claim for them (_allocate_flexible): wherever hooks die and
\* answers are lost, what was claimed is released by somebody.
THEOREM ClaimsRemembered ==
  Spec /\ [][ListingHolds]_vars => []ClaimsJournaled
<1>1. ClaimsInv => ClaimsJournaled
  BY DEF ClaimsInv
<1>2. QED
  BY <1>1, InvHolds, ClaimsInit, ClaimsStep, PTL DEF Spec

\* Under the same condition an OSD that is gone from the host and from the
\* journal has left nothing in EPA, on the disk or in systemd, unless the
\* removal of a drop-in is unfinished.
THEOREM ForgottenClean ==
  Spec /\ [][ListingHolds]_vars => [](clears = {} => ForgottenIsClean)
<1>1. AllocInv /\ ClaimsInv => (clears = {} => ForgottenIsClean)
  <2> SUFFICES ASSUME AllocInv, ClaimsInv, clears = {}, NEW o \in OSDs,
                      ~Recorded(o) /\ ~Journaled(o),
                      o \notin restarts \cup tear
               PROVE claims[o] = {} /\ ~HasDropin(o) /\ loaded[o] = {}
    BY DEF ForgottenIsClean
  <2>1. claims[o] = {}
    BY DEF ClaimsInv, ClaimsJournaled
  <2>2. ~HasDropin(o)
    BY DEF AllocInv, StoresInv, Everywhere, Known
  <2>3. loaded[o] = dropin[o].cores
    BY DEF AllocInv, StoresInv, Everywhere, Enforcing, Unloading
  <2>4. QED
    BY <2>1, <2>2, <2>3 DEF HasDropin
<1>2. QED
  BY <1>1, InvHolds, ClaimsInit, ClaimsStep, PTL DEF Spec
=============================================================================
