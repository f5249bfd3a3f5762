--------------------------- MODULE OsdAllocation ---------------------------
(***************************************************************************)
(* The resource manager of the ceph-osd charm (hooks/resource_manager.py   *)
(* and hooks/resource_apply.py): reconcile() claims CPUs for every OSD of  *)
(* a host and binds the daemons to them, release_osd() and release_all()   *)
(* give them up.  Juju runs one hook or action of a unit at a time, so     *)
(* there is one sequential process; what makes it hard is that every step  *)
(* writes to another durable store (EPA, a drop-in file, systemd, the      *)
(* journal), each step can fail or be the last one before the hook dies,   *)
(* and daemons, other workloads and disks move on their own meanwhile.     *)
(*                                                                         *)
(* A step of the model is one external call or one flush of the journal.   *)
(* "hook" holds what the running hook has in memory: pc is where it is,    *)
(* then is where the routine it is in returns to.                          *)
(***************************************************************************)
EXTENDS OsdHost

CONSTANTS
  MaxFaults,   \* bound on crashes, refused or lost calls and failed restarts
  MaxMoves,    \* bound on changes of the profile and of disks, and on removals
  MaxForeign,  \* bound on claims and releases of other workloads
  MaxStarts    \* bound on OSD starts that come from elsewhere

ASSUME BoundsAssumption ==
  /\ MaxFaults \in Nat /\ MaxMoves \in Nat
  /\ MaxForeign \in Nat /\ MaxStarts \in Nat

VARIABLES
  hook,     \* the hook that runs
  spent     \* how much of each bound is used; the OSDs asked to be removed

vars == <<conf, local, foreign, claims, dropin, loaded, active, mask, recs,
          trans, tear, restarts, clears, hook, spent>>

NoOsd == -1

Idle == [op |-> "none", pc |-> "idle", profile |-> Unmanaged, osd |-> NoOsd,
         todo |-> {}, then |-> "idle", new |-> FALSE, unpin |-> FALSE,
         node |-> AnyNode, cores |-> {}, err |-> FALSE]

Init ==
  /\ HostInit
  /\ hook = Idle
  /\ spent = [faults |-> 0, moves |-> 0, foreign |-> 0, starts |-> 0,
              asked |-> {}]

-----------------------------------------------------------------------------
(* Control *)

At(pc) == hook.pc = pc
Osd == hook.osd
Request == Want[hook.profile][hook.osd]
Strict == hook.profile \in StrictProfiles

Goto(pc) == hook' = [hook EXCEPT !.pc = pc]
Call(pc, then) == hook' = [hook EXCEPT !.pc = pc, !.then = then]
Return == Goto(hook.then)

Least(S) == CHOOSE o \in S : \A p \in S : o <= p

\* The OSD after this one, or where the loop ends.
Advance(loop, done, err) ==
  hook' = IF hook.todo = {} THEN [hook EXCEPT !.pc = done, !.err = err]
          ELSE [hook EXCEPT !.pc = loop, !.osd = Least(hook.todo),
                            !.todo = @ \ {Least(@)}, !.err = err,
                            !.new = FALSE, !.unpin = FALSE]

\* A failing step ends the hook, except where the code notes the failure
\* and goes on with the next OSD.
Failed ==
  CASE hook.then = "stale-release" -> Advance("stale", "plan", FALSE)
    [] hook.op = "release_all" -> Advance("teardown", "departed", TRUE)
    [] OTHER -> hook' = Idle

Fault ==
  /\ spent.faults < MaxFaults
  /\ spent' = [spent EXCEPT !.faults = @ + 1]

\* One flush of the journal.
SetTransition(record) ==
  /\ trans' = [trans EXCEPT ![Osd] = record]
  /\ UNCHANGED <<world, claims, systemd, recs, tear, restarts, clears, spent>>

OnlyControl == UNCHANGED <<world, claims, systemd, journal, spent>>

-----------------------------------------------------------------------------
(* EPA calls.  A call that fails may have taken effect: EPA commits, and    *)
(* only the answer is lost.                                                 *)

ReleaseCall(onSuccess, onFailure) ==
  /\ \/ /\ claims' = [claims EXCEPT ![Osd] = {}]
        /\ onSuccess
        /\ UNCHANGED spent
     \/ /\ Fault
        /\ claims' \in {claims, [claims EXCEPT ![Osd] = {}]}
        /\ onFailure
  /\ UNCHANGED <<world, systemd, journal>>

\* refused stands for EpaRequestError, unavailable for the other errors.
ClaimCall(node, count, granted, refused, unavailable) ==
  /\ \/ \E S \in Grants(Osd, node, count) :
          /\ claims' = [claims EXCEPT ![Osd] = ClaimWith(Osd, node, S)]
          /\ \/ /\ hook' = [hook EXCEPT !.pc = granted, !.cores = S,
                                        !.node = node]
                /\ UNCHANGED spent
             \/ Fault /\ unavailable
     \/ /\ Grants(Osd, node, count) = {}
        /\ refused
        /\ UNCHANGED <<claims, spent>>
     \/ Fault /\ unavailable /\ UNCHANGED claims
  /\ UNCHANGED <<world, systemd, journal>>

-----------------------------------------------------------------------------
(* _release_for_replacement and _stop_before_replacing: stop the OSD and    *)
(* prove it stopped, then release; every boundary is journaled first.       *)

ReplaceBegin ==
  /\ At("replace")
  /\ LET to(status, source) ==
           [status |-> status, node |-> Request.node, count |-> Request.count,
            new |-> trans[Osd].new, source |-> source]
     IN IF ClaimMayBackEnforcement(Osd, Recorded(Osd))
        THEN SetTransition(to("stopping", TRUE)) /\ Goto("replace-mark")
        ELSE SetTransition(to("cleanup", trans[Osd].source))
             /\ Goto("replace-release")

\* Mutant: the restart that is owed is not recorded.
ReplaceMark_Never == At("replace-mark") /\ Goto("replace-stop") /\ OnlyControl

ReplaceMark ==
  /\ At("replace-mark")
  /\ restarts' = restarts \cup {Osd}
  /\ Goto("replace-stop")
  /\ UNCHANGED <<world, claims, systemd, recs, trans, tear, clears, spent>>

\* stop_osd: systemd refuses, or the unit is still active after the timeout.
StopOsd(pc, next) ==
  /\ At(pc)
  /\ \/ Halt(Osd) /\ next /\ UNCHANGED spent
     \/ Osd \in active /\ Fault /\ Failed /\ UNCHANGED <<active, mask>>
  /\ UNCHANGED <<world, claims, dropin, loaded, journal>>

ReplaceStop == StopOsd("replace-stop", Goto("replace-stopped"))

ReplaceStopped ==
  /\ At("replace-stopped")
  /\ SetTransition([trans[Osd] EXCEPT !.status = "stopped"])
  /\ Goto("replace-release")

ReplaceRelease ==
  At("replace-release") /\ ReleaseCall(Goto("replace-done"), Failed)

ReplaceDone ==
  /\ At("replace-done")
  /\ SetTransition([trans[Osd] EXCEPT !.status = "replacing"])
  /\ Return

-----------------------------------------------------------------------------
(* clear_allocation: remove the drop-in and make systemd forget it, as one  *)
(* durable boundary; with unpin, restart the OSD without it.                *)

ClearMark ==
  /\ At("clear")
  /\ IF ~HasDropin(Osd) /\ Osd \notin clears /\ Osd \notin restarts
     THEN Return /\ UNCHANGED journal
     ELSE /\ restarts' = IF hook.unpin THEN restarts \cup {Osd} ELSE restarts
          /\ clears' = clears \cup {Osd}
          /\ Goto("clear-remove")
          /\ UNCHANGED <<recs, trans, tear>>
  /\ UNCHANGED <<world, claims, systemd, spent>>

ClearRemove ==
  /\ At("clear-remove")
  /\ dropin' = [dropin EXCEPT ![Osd] = NoDropin]
  /\ Goto("clear-reload")
  /\ UNCHANGED <<world, claims, loaded, active, mask, journal, spent>>

Reload(pc, next) ==
  /\ At(pc)
  /\ \/ DaemonReload /\ Goto(next) /\ UNCHANGED spent
     \/ Fault /\ Failed /\ UNCHANGED loaded
  /\ UNCHANGED <<world, claims, dropin, active, mask, journal>>

ClearReload == Reload("clear-reload", "clear-reloaded")

ClearReloaded ==
  /\ At("clear-reloaded")
  /\ clears' = clears \ {Osd}
  /\ Goto(IF hook.unpin THEN "clear-restart" ELSE "clear-done")
  /\ UNCHANGED <<world, claims, systemd, recs, trans, tear, restarts, spent>>

\* restart_osd: systemd may refuse and leave the daemon as it was, or fail to
\* bring it up again.
Restart(pc, next) ==
  /\ At(pc)
  /\ \/ Launch(Osd) /\ Goto(next) /\ UNCHANGED spent
     \/ /\ Fault /\ Failed
        /\ Launch(Osd) \/ Halt(Osd) \/ UNCHANGED <<active, mask>>
  /\ UNCHANGED <<world, claims, dropin, loaded, journal>>

ClearRestart == Restart("clear-restart", "clear-done")

ClearDone ==
  /\ At("clear-done")
  /\ restarts' = restarts \ {Osd}
  /\ Return
  /\ UNCHANGED <<world, claims, systemd, recs, trans, tear, clears, spent>>

-----------------------------------------------------------------------------
(* apply_allocations for one OSD: write the drop-in, restart, verify.       *)

Content == [profile |-> hook.profile, node |-> hook.node, cores |-> hook.cores]

\* verify_enforcement: the daemon runs and stays inside its cores.
Enforced == Osd \in active /\ mask[Osd] # {} /\ mask[Osd] \subseteq hook.cores

\* Mutant: a drop-in with the right content is taken for an applied one.
ApplyMark_Rendered ==
  /\ At("apply")
  /\ IF dropin[Osd] # Content
     THEN restarts' = restarts \cup {Osd} /\ Goto("apply-write")
     ELSE /\ UNCHANGED restarts
          /\ IF Osd \in active /\ ~Enforced THEN Failed ELSE Goto("record")
  /\ UNCHANGED <<world, claims, systemd, recs, trans, tear, clears, spent>>

ApplyMark ==
  /\ At("apply")
  /\ IF dropin[Osd] # Content \/ Osd \in restarts
     THEN restarts' = restarts \cup {Osd} /\ Goto("apply-write")
     ELSE /\ UNCHANGED restarts
          /\ IF Osd \in active /\ ~Enforced THEN Failed ELSE Goto("record")
  /\ UNCHANGED <<world, claims, systemd, recs, trans, tear, clears, spent>>

ApplyWrite ==
  /\ At("apply-write")
  /\ dropin' = [dropin EXCEPT ![Osd] = Content]
  /\ Goto("apply-reload")
  /\ UNCHANGED <<world, claims, loaded, active, mask, journal, spent>>

ApplyReload == Reload("apply-reload", "apply-restart")

ApplyRestart == Restart("apply-restart", "apply-verify")

ApplyVerify ==
  /\ At("apply-verify")
  /\ IF Enforced
     THEN restarts' = restarts \ {Osd} /\ Goto("record")
     ELSE UNCHANGED restarts /\ Failed
  /\ UNCHANGED <<world, claims, systemd, recs, trans, tear, clears, spent>>

\* The applied allocation is recorded and its transition forgotten.
Record ==
  /\ At("record")
  /\ recs' = [recs EXCEPT ![Osd] = [node |-> hook.node, cores |-> hook.cores]]
  /\ trans' = [trans EXCEPT ![Osd] = NoTransition]
  /\ Advance("osd", "finish", FALSE)
  /\ UNCHANGED <<world, claims, systemd, tear, restarts, clears, spent>>

-----------------------------------------------------------------------------
(* reconcile: its early returns, then one OSD after the other.              *)

Stale == {o \in OSDs \ local : \/ Recorded(o) \/ Journaled(o)
                                \/ o \in restarts \/ claims[o] # {}}

\* A managed profile: release what belongs to OSDs that are gone, then plan.
\* An unmanaged one leaves everything but unfinished first claims alone.
Reconcile ==
  /\ At("idle") /\ tear = {}
  /\ LET start(op, todo, loop, done) ==
           hook' = IF todo = {} THEN [Idle EXCEPT !.op = op, !.profile = conf,
                                                  !.pc = done]
                   ELSE [Idle EXCEPT !.op = op, !.profile = conf, !.pc = loop,
                           !.osd = Least(todo), !.todo = todo \ {Least(todo)}]
     IN IF conf = Unmanaged
        THEN /\ restarts = {}
             /\ start("reconcile", {o \in OSDs : trans[o].new},
                      "orphan", "finish")
        ELSE start("reconcile",
                   IF local = {} /\ restarts = {}
                      /\ \A o \in OSDs : ~Recorded(o) /\ ~Journaled(o)
                   THEN {} ELSE Stale,
                   "stale", "plan")
  /\ OnlyControl

\* _release_stale_claims: an inactive OSD that is not on this host any more
\* is cleared and released; a running one keeps its claim.
StaleOsd ==
  /\ At("stale")
  /\ IF Osd \in active THEN Advance("stale", "plan", FALSE)
     ELSE Call("clear", "stale-release")
  /\ OnlyControl

\* Mutant: the claim of an OSD that is gone is left to EPA.
StaleRelease_Never ==
  At("stale-release") /\ Goto("stale-forget") /\ OnlyControl

StaleRelease ==
  /\ At("stale-release")
  /\ IF claims[Osd] # {} THEN ReleaseCall(Goto("stale-forget"), Failed)
     ELSE Goto("stale-forget") /\ OnlyControl

StaleForget ==
  /\ At("stale-forget")
  /\ recs' = [recs EXCEPT ![Osd] = NoRecord]
  /\ trans' = [trans EXCEPT ![Osd] = NoTransition]
  /\ Advance("stale", "plan", FALSE)
  /\ UNCHANGED <<world, claims, systemd, tear, restarts, clears, spent>>

\* A strict plan that does not fit is refused before any claim is made.
Plan ==
  /\ At("plan")
  /\ IF local = {} THEN Goto("finish")
     ELSE IF Strict /\ Shortfall(hook.profile) THEN hook' = Idle
     ELSE hook' = [hook EXCEPT !.pc = "osd", !.osd = Least(local),
                               !.todo = local \ {Least(local)},
                               !.then = "idle"]
  /\ OnlyControl

\* _cleanup_orphaned_new_claims: only a claim that cannot stand behind a
\* running daemon is given up; failures are noted and the loop goes on.
Orphan ==
  /\ At("orphan")
  /\ IF ClaimMayBackEnforcement(Osd, FALSE)
     THEN Advance("orphan", "finish", TRUE) /\ OnlyControl
     ELSE /\ SetTransition([trans[Osd] EXCEPT !.status = "cleanup"])
          /\ Goto("orphan-release")

OrphanRelease ==
  /\ At("orphan-release")
  /\ ReleaseCall(Goto("orphan-forget"), Advance("orphan", "finish", TRUE))

OrphanForget ==
  /\ At("orphan-forget")
  /\ SetTransition(NoTransition)
  /\ Advance("orphan", "finish", hook.err)

\* _ready_for_handoff: the host acknowledges its turn only with no restart
\* pending and every OSD up.
Finish ==
  /\ At("finish")
  /\ IF hook.err \/ restarts # {} \/ ~(local \subseteq active)
     THEN hook' = Idle ELSE Goto("handoff")
  /\ OnlyControl

Handoff == At("handoff") /\ hook' = Idle /\ OnlyControl

-----------------------------------------------------------------------------
(* _apply_strict *)

\* Mutants: the journal is written after the claim; a status nobody handles.
BeginNewClaim_Later == OnlyControl
BeginNewClaim_Planned ==
  SetTransition([NoTransition EXCEPT !.status = "planned", !.new = TRUE,
                   !.node = Request.node, !.count = Request.count])

BeginNewClaim ==
  SetTransition([status |-> "claiming", node |-> Request.node,
                 count |-> Request.count, new |-> TRUE, source |-> FALSE])

StrictOsd ==
  /\ At("osd") /\ Strict
  /\ IF NeedsTransition(Osd, Request)
     THEN /\ IF TransitionMatches(Osd, Request) THEN Goto("claim")
             ELSE Call("replace", "claim")
          /\ OnlyControl
     ELSE IF Recorded(Osd) THEN Goto("claim") /\ OnlyControl
     ELSE IF NewTransitionMatches(Osd, Request)
     THEN /\ IF claims[Osd] # {} /\ ~HasDropin(Osd)
             THEN Call("replace", "rejournal")
             ELSE hook' = [hook EXCEPT !.pc = "claim", !.new = TRUE]
          /\ OnlyControl
     ELSE IF claims[Osd] # {} \/ HasDropin(Osd)
     THEN Failed /\ OnlyControl     \* an untracked allocation is not replaced
     ELSE BeginNewClaim /\ hook' = [hook EXCEPT !.pc = "claim", !.new = TRUE]

\* _journal_claim_attempt, after the release of an unenforced first claim.
StrictRejournal ==
  /\ At("rejournal")
  /\ SetTransition([trans[Osd] EXCEPT !.status = "claiming"])
  /\ hook' = [hook EXCEPT !.pc = "claim", !.new = TRUE]

StrictGiveUp ==
  IF hook.new THEN Goto("cleanup") ELSE Failed

StrictClaim ==
  /\ At("claim") /\ Strict
  /\ ClaimCall(Request.node, Request.count, "granted",
               StrictGiveUp, StrictGiveUp)

\* _cleanup_new_claim
Cleanup ==
  /\ At("cleanup")
  /\ IF ClaimMayBackEnforcement(Osd, FALSE) THEN Failed /\ OnlyControl
     ELSE /\ SetTransition([trans[Osd] EXCEPT !.status = "cleanup"])
          /\ Goto("cleanup-release")

CleanupRelease ==
  At("cleanup-release") /\ ReleaseCall(Goto("cleanup-forget"), Failed)

CleanupForget ==
  At("cleanup-forget") /\ SetTransition(NoTransition) /\ Failed

\* Both kinds of profile: what was granted is journaled before it is applied.
Granted ==
  /\ At("granted")
  /\ IF Journaled(Osd)
     THEN SetTransition([trans[Osd] EXCEPT !.status = "allocated",
                                           !.node = hook.node])
     ELSE UNCHANGED <<world, claims, systemd, journal, spent>>
  /\ Goto("apply")

-----------------------------------------------------------------------------
(* _allocate_flexible: the node asked for, any node, fewer CPUs, none.      *)

\* An interrupted replacement is taken up again from its stop.
FlexibleOsd ==
  /\ At("osd") /\ ~Strict
  /\ IF trans[Osd].status \in {"stopping", "stopped", "replacing", "cleanup",
                               "unallocated"}
     THEN Call("replace", "first") ELSE Goto("first")
  /\ OnlyControl

\* A first claim is recovered if the target changed, or journaled.
FlexibleFirst ==
  /\ At("first")
  /\ IF /\ ~Recorded(Osd) /\ trans[Osd].new
        /\ ~NewTransitionMatches(Osd, Request)
        /\ trans[Osd].status # "replacing"
     THEN Call("replace", "reset") /\ OnlyControl
     ELSE IF ~Recorded(Osd) /\ ~Journaled(Osd)
     THEN BeginNewClaim /\ Goto("reset")
     ELSE Goto("reset") /\ OnlyControl

\* _reset_claim
FlexibleReset ==
  /\ At("reset")
  /\ LET next == IF Request.node = AnyNode THEN "any" ELSE "claim"
     IN IF NeedsTransition(Osd, Request) THEN Call("replace", next)
        ELSE Goto(next)
  /\ OnlyControl

FlexibleClaim ==
  /\ At("claim") /\ ~Strict
  /\ ClaimCall(Request.node, Request.count, "granted",
               Call("replace", "any"), Failed)

JournalClaimAttempt ==
  SetTransition([status |-> "claiming", node |-> AnyNode,
                 count |-> Request.count,
                 new |-> Journaled(Osd) => trans[Osd].new,
                 source |-> trans[Osd].source])

FlexibleAny == At("any") /\ JournalClaimAttempt /\ Goto("any-claim")

FlexibleAnyClaim ==
  /\ At("any-claim")
  /\ ClaimCall(AnyNode, Request.count, "granted", Goto("fewer"), Failed)

\* The listing that says how many CPUs are left is older than the claim.
FlexibleFewer ==
  /\ At("fewer")
  /\ \/ /\ IF FreeForService(Osd) = {} THEN Goto("unpin")
           ELSE hook' = [hook EXCEPT !.pc = "fewer-journal",
                                     !.cores = FreeForService(Osd)]
        /\ UNCHANGED spent
     \/ Fault /\ Failed
  /\ UNCHANGED <<world, claims, systemd, journal>>

FlexibleFewerJournal ==
  At("fewer-journal") /\ JournalClaimAttempt /\ Goto("fewer-claim")

FlexibleFewerClaim ==
  /\ At("fewer-claim")
  /\ ClaimCall(AnyNode, Cardinality(hook.cores), "granted",
               Goto("unpin"), Failed)

\* Nothing was granted: the OSD runs unbound.
FlexibleUnpin ==
  /\ At("unpin")
  /\ hook' = [hook EXCEPT !.pc = "clear", !.then = "unpinned",
                          !.unpin = TRUE]
  /\ OnlyControl

FlexibleUnpinned ==
  /\ At("unpinned")
  /\ recs' = [recs EXCEPT ![Osd] = NoRecord]
  /\ trans' = [trans EXCEPT ![Osd] =
       IF @.source THEN [@ EXCEPT !.status = "unallocated"] ELSE NoTransition]
  /\ Advance("osd", "finish", FALSE)
  /\ UNCHANGED <<world, claims, systemd, tear, restarts, clears, spent>>

-----------------------------------------------------------------------------
(* release_osd and release_all *)

Move ==
  /\ spent.moves < MaxMoves
  /\ spent' = [spent EXCEPT !.moves = @ + 1]

\* The remove-disk action, also when it is retried.
RemoveDisk(o) ==
  /\ At("idle") /\ o \in local
  /\ \/ o \in tear /\ UNCHANGED spent
     \/ /\ o \notin tear /\ spent.moves < MaxMoves
        /\ spent' = [spent EXCEPT !.moves = @ + 1, !.asked = @ \cup {o}]
  /\ hook' = [Idle EXCEPT !.op = "remove-disk", !.pc = "remove-stop", !.osd = o]
  /\ UNCHANGED <<world, claims, systemd, journal>>

\* It stops the OSD before it asks the resource manager to release it, and
\* does not look whether that succeeded.
RemoveStop ==
  /\ At("remove-stop")
  /\ \/ Halt(Osd) /\ UNCHANGED spent
     \/ Osd \in active /\ Fault /\ UNCHANGED <<active, mask>>
  /\ Goto("teardown")
  /\ UNCHANGED <<world, claims, dropin, loaded, journal>>

\* The stop hook: everything the journal, or EPA if it answers, knows of.
StopUnit ==
  /\ At("idle")
  /\ \E listed \in {{o \in OSDs : claims[o] # {}}, {}} :
       LET known == listed \cup tear \cup restarts
                    \cup {o \in OSDs : Recorded(o) \/ Journaled(o)}
       IN /\ IF listed = {} /\ \E o \in OSDs : claims[o] # {}
             THEN Fault ELSE Move
          /\ hook' =
               IF known = {} THEN [Idle EXCEPT !.op = "release_all",
                                               !.pc = "departed"]
               ELSE [Idle EXCEPT !.op = "release_all", !.pc = "teardown",
                       !.osd = Least(known), !.todo = known \ {Least(known)}]
  /\ UNCHANGED <<world, claims, systemd, journal>>

\* An OSD no store knows of is no business of the resource manager; when EPA
\* does not answer, only the unit's own stores are asked.
Teardown ==
  /\ At("teardown")
  /\ \/ /\ RecordedOwnership(Osd) \/ claims[Osd] # {}
        /\ tear' = tear \cup {Osd}
        /\ Goto("teardown-stop")
        /\ UNCHANGED spent
     \/ /\ ~RecordedOwnership(Osd)
        /\ IF claims[Osd] = {} THEN UNCHANGED spent ELSE Fault
        /\ IF hook.op = "release_all"
           THEN Advance("teardown", "departed", hook.err) ELSE Goto("removed")
        /\ UNCHANGED tear
  /\ UNCHANGED <<world, claims, systemd, recs, trans, restarts, clears>>

TeardownStop == StopOsd("teardown-stop", Call("clear", "teardown-release"))

TeardownRelease ==
  At("teardown-release") /\ ReleaseCall(Goto("teardown-complete"), Failed)

\* _complete_teardown
TeardownComplete ==
  /\ At("teardown-complete")
  /\ recs' = [recs EXCEPT ![Osd] = NoRecord]
  /\ trans' = [trans EXCEPT ![Osd] = NoTransition]
  /\ tear' = tear \ {Osd}
  /\ IF hook.op = "release_all" THEN Advance("teardown", "departed", hook.err)
     ELSE Goto("removed")
  /\ UNCHANGED <<world, claims, systemd, restarts, clears, spent>>

\* remove-disk then destroys the OSD.
Removed ==
  /\ At("removed")
  /\ Halt(Osd)
  /\ local' = local \ {Osd}
  /\ hook' = Idle
  /\ UNCHANGED <<conf, foreign, claims, dropin, loaded, journal, spent>>

\* The stop hook fails, and is run again, if a release did; otherwise the unit
\* is gone.
Departed ==
  /\ At("departed") /\ hook.err
  /\ hook' = Idle
  /\ OnlyControl

-----------------------------------------------------------------------------
(* What happens around the hook                                            *)

\* The hook or the whole unit agent dies.
Crash ==
  /\ hook.pc \notin {"idle", "departed"} /\ Fault
  /\ hook' = Idle
  /\ UNCHANGED <<world, claims, systemd, journal>>

\* The profile is read once per hook, so that a change shows between hooks.
SetProfile ==
  /\ At("idle") /\ Move
  /\ conf' \in (Profiles \cup {Unmanaged}) \ {conf}
  /\ UNCHANGED <<local, foreign, claims, systemd, journal, hook>>

\* Another workload claims a free CPU, or gives one up.
ForeignClaims ==
  /\ spent.foreign < MaxForeign
  /\ spent' = [spent EXCEPT !.foreign = @ + 1]
  /\ \/ \E c \in Cpus \ (foreign \cup UNION {claims[o] : o \in OSDs}) :
          foreign' = foreign \cup {c}
     \/ \E c \in foreign : foreign' = foreign \ {c}
  /\ UNCHANGED <<conf, local, claims, systemd, journal, hook>>

\* systemd restarts a daemon that crashed.
DaemonRestarts(o) ==
  /\ o \in active /\ mask[o] # loaded[o]
  /\ Launch(o)
  /\ UNCHANGED <<world, claims, dropin, loaded, journal, hook, spent>>

\* A disk fails: ceph-volume lists its OSD no more, the daemon may live on.
DiskFails(o) ==
  /\ o \in local /\ Move
  /\ local' = local \ {o}
  /\ active' \in {active, active \ {o}}
  /\ mask' = IF o \in active' THEN mask ELSE [mask EXCEPT ![o] = {}]
  /\ UNCHANGED <<conf, foreign, claims, dropin, loaded, journal, hook>>

\* A disk comes back, or a new one gets the identifier, and its OSD starts.  An
\* OSD the charm has stopped for a replacement counts as started elsewhere.
DiskAppears(o) ==
  /\ At("idle") /\ o \notin local
  /\ spent.moves < MaxMoves
  /\ \/ o \in active \/ o \notin restarts \/ spent.starts < MaxStarts
  /\ spent' = [spent EXCEPT !.moves = @ + 1,
                 !.starts = IF o \in restarts \ active THEN @ + 1 ELSE @,
                 !.asked = @ \ {o}]
  /\ local' = local \cup {o}
  /\ IF o \in active THEN UNCHANGED <<active, mask>> ELSE Launch(o)
  /\ UNCHANGED <<conf, foreign, claims, dropin, loaded, journal, hook>>

\* Something else starts the OSD: handle_pending_key restarts it after a key
\* rotation, aa_profile_changed restarts all, the host boots.
StartedElsewhere(o) ==
  /\ o \in local \ active /\ spent.starts < MaxStarts
  /\ At("idle")
  /\ spent' = [spent EXCEPT !.starts = @ + 1]
  /\ Launch(o)
  /\ UNCHANGED <<world, claims, dropin, loaded, journal, hook>>

Replacing == \/ ReplaceBegin \/ ReplaceMark \/ ReplaceStop
             \/ ReplaceStopped \/ ReplaceRelease \/ ReplaceDone

Clearing == \/ ClearMark \/ ClearRemove \/ ClearReload
            \/ ClearReloaded \/ ClearRestart \/ ClearDone

Applying == \/ Granted \/ ApplyMark \/ ApplyWrite \/ ApplyReload
            \/ ApplyRestart \/ ApplyVerify \/ Record

Reconciling == \/ StaleOsd \/ StaleRelease \/ StaleForget \/ Plan
               \/ Orphan \/ OrphanRelease \/ OrphanForget
               \/ Finish \/ Handoff

StrictStep == \/ StrictOsd \/ StrictRejournal \/ StrictClaim
              \/ Cleanup \/ CleanupRelease \/ CleanupForget

FlexibleStep == \/ FlexibleOsd \/ FlexibleFirst \/ FlexibleReset
                \/ FlexibleClaim \/ FlexibleAny \/ FlexibleAnyClaim
                \/ FlexibleFewer \/ FlexibleFewerJournal
                \/ FlexibleFewerClaim \/ FlexibleUnpin \/ FlexibleUnpinned

TearingDown == \/ RemoveStop \/ Teardown \/ TeardownStop \/ TeardownRelease
               \/ TeardownComplete \/ Removed \/ Departed

HookStep == \/ Replacing \/ Clearing \/ Applying \/ Reconciling
            \/ StrictStep \/ FlexibleStep \/ TearingDown

Environment ==
  \/ Crash \/ SetProfile \/ ForeignClaims \/ StopUnit
  \/ \E o \in OSDs : \/ RemoveDisk(o) \/ DaemonRestarts(o) \/ DiskFails(o)
                     \/ DiskAppears(o) \/ StartedElsewhere(o)

Next == Reconcile \/ HookStep \/ Environment

Spec == Init /\ [][Next]_vars

-----------------------------------------------------------------------------
TransitionType ==
  [status : {"none", "claiming", "cleanup", "stopping", "stopped",
             "replacing", "allocated", "unallocated"},
   node : Shapes, count : Nat, new : BOOLEAN, source : BOOLEAN]

TypeOK ==
  /\ conf \in Profiles \cup {Unmanaged}
  /\ local \in SUBSET OSDs /\ foreign \in SUBSET Cpus
  /\ claims \in [OSDs -> SUBSET Cpus]
  /\ dropin \in [OSDs -> [profile : Profiles \cup {Unmanaged},
                         node : Shapes, cores : SUBSET Cpus]]
  /\ loaded \in [OSDs -> SUBSET Cpus]
  /\ active \in SUBSET OSDs /\ mask \in [OSDs -> SUBSET Cpus]
  /\ recs \in [OSDs -> [node : Shapes, cores : SUBSET Cpus]]
  /\ trans \in [OSDs -> TransitionType]
  /\ tear \in SUBSET OSDs /\ restarts \in SUBSET OSDs
  /\ clears \in SUBSET OSDs
  /\ hook.osd \in OSDs \cup {NoOsd} /\ hook.todo \in SUBSET OSDs
  /\ hook.cores \in SUBSET Cpus /\ hook.node \in Shapes
  /\ spent \in [faults : Nat, moves : Nat, foreign : Nat, starts : Nat,
                asked : SUBSET OSDs]

\* EPA holds nothing for an OSD that the unit's journal does not know of: a
\* claim nobody remembers would never be released.
ClaimsJournaled ==
  \A o \in OSDs : claims[o] # {} =>
    Recorded(o) \/ Journaled(o) \/ o \in tear

\* A host that acknowledges its turn runs every OSD on CPUs EPA holds for it
\* and, after a managed profile, exactly as recorded: bound to the recorded
\* CPUs, or unbound without a record.
HandoffTruthful ==
  At("handoff") => \A o \in local :
    /\ o \in active
    /\ mask[o] \subseteq claims[o]
    /\ hook.profile # Unmanaged => mask[o] = recs[o].cores

\* Between hooks an OSD of this host that was bound to CPUs and is down is down
\* for a reason the journal remembers, which blocks the rollout until it is
\* back, or because the operator has asked for its removal.
DownIsRemembered ==
  At("idle") => \A o \in local \ active :
    Recorded(o) \/ HasDropin(o) => o \in restarts \cup tear \cup spent.asked

\* An OSD that is gone from the host and from the journal leaves nothing.
ForgottenIsClean ==
  At("idle") => \A o \in OSDs \ local :
    ~Recorded(o) /\ ~Journaled(o) /\ o \notin restarts \cup tear =>
      claims[o] = {} /\ ~HasDropin(o) /\ loaded[o] = {}

\* A stop that was never confirmed is repeated before the allocation changes:
\* a transition leaves "stopping" only for "stopped".
StopsAreRepeated ==
  [][\A o \in OSDs : trans[o].status = "stopping" =>
       \/ trans'[o].status \in {"stopping", "stopped"}
       \/ o \notin active]_vars

\* Recalculation is idempotent (RESOURCE-PROFILES.md): while nothing fails, an
\* OSD that runs as recorded under the configured profile is not stopped.
UnchangedRunsOn ==
  [][~ \E o \in active \ active' :
         /\ hook.op = "reconcile" /\ o = Osd
         /\ dropin[o].profile = hook.profile
         /\ mask[o] = recs[o].cores
         /\ spent.faults = 0]_vars

\* The manager implements exclusive ownership.
Ownership == INSTANCE CpuOwnership
OwnershipKept == Ownership!OwnershipSpec
=============================================================================
