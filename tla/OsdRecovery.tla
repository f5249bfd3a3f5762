---------------------------- MODULE OsdRecovery ----------------------------
(***************************************************************************)
(* When the resource manager of a unit reconciles again.  A reconcile is   *)
(* owed to a request: a change of the configuration or of the inventory,   *)
(* a refresh of the charm.  safe_reconcile swallows a failure, and run()   *)
(* (hooks/resource_rollout.py) remembers it and does not call reconcile()  *)
(* again for the same request, so that nothing retries a failed call.      *)
(* Only a hook that dies is run again, by Juju, and takes the interrupted  *)
(* turn up.  The model is that of a unit whose turn has come:              *)
(* ResourceRollout.tla has the turns.                                      *)
(***************************************************************************)
EXTENDS OsdAllocation

\* "owed" to a request, "running", ended with a failed call in it ("failed"),
\* or ended without one ("over").
VARIABLE due

recoveryVars == <<vars, due>>

RecoveryInit == Init /\ due = "owed"

\* run() calls reconcile(): the request has not failed before.
Reconciles == due = "owed" /\ Reconcile /\ due' = "running"

\* The early returns of reconcile() with an error, before any call.
Refuses ==
  /\ due = "owed" /\ At("idle")
  /\ tear # {} \/ (conf = Unmanaged /\ restarts # {})
  /\ due' = "over"
  /\ UNCHANGED vars

\* A step of the hook; a failed call makes the reconcile a failed one, also
\* where the code goes on after it.
Works ==
  /\ HookStep
  /\ due' = IF due # "running" THEN due
            ELSE IF spent'.faults # spent.faults THEN "failed"
            ELSE IF hook' = Idle THEN "over" ELSE "running"

\* A hook that dies is run again.
Dies ==
  /\ Crash
  /\ due' = IF hook.op = "reconcile" THEN "owed" ELSE due

\* config-changed follows, with a request of its own.
Changes == SetProfile /\ due' = "owed"

\* The other requests: an option that is not about resources, a change of the
\* inventory that a hook notices, a refresh of the charm.  None has to come.
NewRequest ==
  /\ At("idle") /\ due \in {"failed", "over"}
  /\ due' = "owed"
  /\ UNCHANGED vars

Elsewhere ==
  /\ \/ ForeignClaims \/ StopUnit
     \/ \E o \in OSDs : \/ RemoveDisk(o) \/ DaemonRestarts(o) \/ DiskFails(o)
                        \/ DiskAppears(o) \/ StartedElsewhere(o)
  /\ UNCHANGED due

RecoveryNext == \/ Reconciles \/ Refuses \/ Works \/ Dies
                \/ Changes \/ NewRequest \/ Elsewhere

RecoverySpec == RecoveryInit /\ [][RecoveryNext]_recoveryVars

\* Juju dispatches the hook that is owed, and again when it died, and a hook
\* that has begun goes on.
RecoveryFairSpec ==
  RecoverySpec /\ WF_recoveryVars(Works) /\ WF_recoveryVars(Reconciles \/ Refuses)

-----------------------------------------------------------------------------
\* One request is enough: a pending restart is carried out by the reconcile
\* that is owed, however often the hook dies, unless one of its calls fails,
\* the operator has switched to unmanaged or to a strict profile, which may
\* find its own CPUs in use and refuse, an OSD is being removed or the disk is
\* gone.
RestartsFinish ==
  \A o \in OSDs : o \in restarts /\ due = "owed" ~>
    \/ o \notin restarts \/ due = "failed"
    \/ conf \in {Unmanaged} \cup StrictProfiles \/ tear # {} \/ o \notin local
=============================================================================
