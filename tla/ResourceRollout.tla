----------------------------- MODULE ResourceRollout -----------------------------
(***************************************************************************)
(* The resource rollout of the ceph-osd charm (hooks/resource_rollout.py): *)
(* units restart their OSDs one host at a time after a configuration or    *)
(* inventory change.  Every unit publishes a request on the peer relation; *)
(* the leader freezes all requests into one generation, and the units then *)
(* take their turns through the "done" markers kept by the monitors.       *)
(*                                                                         *)
(* Three stores with different durability meet here, and the model keeps   *)
(* them apart:                                                             *)
(*   - monitor markers (RollingOperation) are durable at once;             *)
(*   - the unit's own key-value store (req, localProg, status) is durable  *)
(*     at once;                                                            *)
(*   - relation data (pubReq, pubProg, rollout) is written to the hook's   *)
(*     buffer and committed by Juju only when the hook exits successfully; *)
(*     a hook that dies loses it and is run again.                         *)
(* A unit runs its handler only when an event wakes it, so that a missing  *)
(* notification is a stall and not merely a delay.                         *)
(***************************************************************************)
EXTENDS RollingOperation

CONSTANTS
  LeadershipSettled, \* TRUE: leadership never moves to a unit between its
                  \* reading the rollout and its asking is-leader
  InitialUnits,   \* the units deployed at the start; the others join later
  Configs,        \* the values the charm configuration takes
  Unmanaged,      \* those with performance-profile=unmanaged
  InitialConfig,
  Nil,            \* Python's None: no rollout, no request, no progress
  MaxChanges,     \* bound on changes of the configuration
  MaxInputs,      \* bound on changes of a unit's inventory
  MaxCrashes,     \* bound on hooks that die before Juju commits them
  MaxElections,   \* bound on leadership changes
  MaxDepartures,  \* bound on units removed
  MaxFailures,    \* bound on failing callbacks and monitor commands, and on
                  \* waits that time out
  MaxDisturbances \* bound on all of these together

ASSUME RolloutAssumption ==
  /\ LeadershipSettled \in BOOLEAN
  /\ InitialUnits \subseteq Units
  /\ InitialUnits # {}
  /\ Unmanaged \subseteq Configs
  /\ InitialConfig \in Configs
  /\ MaxChanges \in Nat /\ MaxInputs \in Nat /\ MaxCrashes \in Nat
  /\ MaxElections \in Nat /\ MaxDepartures \in Nat /\ MaxFailures \in Nat
  /\ MaxDisturbances \in Nat

VARIABLES
  life,         \* "absent", "expected" (in goal-state), "joined" or "gone"
  leader,       \* the unit Juju holds to be the leader
  appConfig,    \* the charm configuration
  input,        \* per unit, the version of its inventory and refresh nonce
  req,          \* kv: LOCAL_REQUEST
  localProg,    \* kv: LOCAL_PROGRESS
  status,       \* what the unit shows of its last run: "failed" if run() raised;
                \* "errors" if the rollout counts as complete but an unmanaged
                \* callback left errors in the state
  pubReq,       \* committed REQUEST of each unit
  pubProg,      \* committed PROGRESS of each unit
  rollout,      \* committed ROLLOUT of the application
  lastGen,      \* generation identifiers minted so far (a fresh uuid each)
  pc,           \* where each unit is in run()
  view,         \* the rollout the current hook works on
  minted,       \* the hook has ROLLOUT in its uncommitted writes
  notify,       \* the hook has PROGRESS in its uncommitted writes
  wake,         \* the events waiting to run the handler of each unit
  dirty,        \* an interrupted callback left restarts unfinished
  applied,      \* the request the last successful callback carried out
  spent         \* how much of each bound has been used

relationVars == <<pubReq, pubProg, rollout>>
localVars == <<req, localProg, status>>
markVars == <<doneMarks, failedMarks>>
hostVars == <<dirty, applied>>
envVars == <<life, leader, appConfig, input>>
hookVars == <<view, minted, notify>>

vars == <<markVars, envVars, localVars, relationVars, lastGen, pc, hookVars,
          wake, hostVars, spent>>

--------------------------------------------------------------------------------
(* Data *)

Request == [id : Nat, config : Configs, input : Nat]
Progress == [gen : Nat, req : Nat, status : {"running", "failed", "done"}]
Rollouts(cohort) == [id : Nat, requests : [cohort -> Request]]

(* None is neither a rollout nor a request nor a progress.                  *)
ASSUME NilAssumption ==
  /\ \A S \in SUBSET Units : Nil \notin Rollouts(S)
  /\ Nil \notin Request /\ Nil \notin Progress

Disturbances == {"changes", "inputs", "crashes", "elections", "departures", "failures"}
Events == {"app", "config", "storage", "elected", "retry"} \cup Units

Participants(g) == DOMAIN g.requests

Joined == {u \in Units : life[u] = "joined"}

IsUnmanaged(u) == req[u].config \in Unmanaged

(* Mutant: any() for all().                                                 *)
Finished_Any(g) == g # Nil => \E p \in Participants(g) : Completed(g.id, p)

(* all(operation.completed(u) for u in participants), or no rollout yet.    *)
Finished(g) == g # Nil => AllCompleted(g.id, Participants(g))

(* Mutant: the fingerprint serves as the identity, without a nonce.         *)
RequestOf_Fingerprint(u) ==
  [id |-> (IF appConfig = InitialConfig THEN 1 ELSE 2) + 2 * input[u],
   config |-> appConfig, input |-> input[u]]

(* _request: a new nonce whenever the fingerprint changed, the recorded one *)
(* otherwise.                                                               *)
RequestOf(u) ==
  IF req[u] # Nil /\ req[u].config = appConfig /\ req[u].input = input[u]
    THEN req[u]
    ELSE [id |-> IF req[u] = Nil THEN 1 ELSE req[u].id + 1,
          config |-> appConfig, input |-> input[u]]

(* _requests as seen by u: its own request and the committed ones of its    *)
(* peers, and the three reasons for which it raises RollingWait.            *)
RequestsSeenBy(u) == [v \in Joined |-> IF v = u THEN req[u] ELSE pubReq[v]]

AllPeersReady(u) ==
  /\ \A v \in Units : life[v] # "expected"
  /\ \A v \in Joined \ {u} : pubReq[v] # Nil /\ pubReq[v].config = req[u].config

RecordProgress_SaveOnly(u, g, r, s) ==   \* Mutant: the peers are not told.
  /\ localProg' = [localProg EXCEPT ![u] = [gen |-> g.id, req |-> r.id, status |-> s]]
  /\ UNCHANGED notify

(* requests == rollout['requests']: the last generation carried them all.   *)
NothingNew(u) == view[u] # Nil /\ RequestsSeenBy(u) = view[u].requests

(* _progress: the record written to the unit store and, unless the relation *)
(* already carries it, to the hook's buffer.                                *)
RecordProgress(u, g, r, s) ==
  /\ localProg' = [localProg EXCEPT ![u] = [gen |-> g.id, req |-> r.id, status |-> s]]
  /\ notify' = [notify EXCEPT ![u] = TRUE]

(* run() returns or raises: safe_reconcile records the status, and the hook *)
(* goes on to its exit.                                                     *)
Leave(u, s) ==
  /\ status' = [status EXCEPT ![u] = s]
  /\ pc' = [pc EXCEPT ![u] = "commit"]

Spend(what, limit) ==
  /\ spent[what] < limit
  /\ spent["changes"] + spent["inputs"] + spent["crashes"] + spent["elections"]
       + spent["departures"] + spent["failures"] < MaxDisturbances
  /\ spent' = [spent EXCEPT ![what] = @ + 1]

--------------------------------------------------------------------------------
Init ==
  /\ doneMarks = {} /\ failedMarks = {}
  /\ life = [u \in Units |-> IF u \in InitialUnits THEN "joined" ELSE "absent"]
  /\ leader \in InitialUnits
  /\ appConfig = InitialConfig
  /\ input = [u \in Units |-> 0]
  /\ req = [u \in Units |-> Nil]
  /\ localProg = [u \in Units |-> Nil]
  /\ status = [u \in Units |-> "none"]
  /\ pubReq = [u \in Units |-> Nil]
  /\ pubProg = [u \in Units |-> Nil]
  /\ rollout = Nil
  /\ lastGen = 0
  /\ pc = [u \in Units |-> "idle"]
  /\ view = [u \in Units |-> Nil]
  /\ minted = [u \in Units |-> FALSE]
  /\ notify = [u \in Units |-> FALSE]
  /\ wake = [u \in Units |-> IF u \in InitialUnits THEN {"config"} ELSE {}]
  /\ dirty = [u \in Units |-> FALSE]
  /\ applied = [u \in Units |-> 0]
  /\ spent = [d \in Disturbances |-> 0]

--------------------------------------------------------------------------------
(* The handler, run by every reconciling hook *)

(* run() up to _active: the request is recorded and buffered, the rollout   *)
(* is read.  Juju runs an interrupted hook again before any other event.    *)
BeginHook(u) ==
  /\ life[u] = "joined"
  /\ pc[u] = "idle"
  /\ \E e \in wake[u] :
       /\ "retry" \in wake[u] => e = "retry"
       /\ wake' = [wake EXCEPT ![u] = @ \ {e}]
  /\ req' = [req EXCEPT ![u] = RequestOf(u)]
  /\ view' = [view EXCEPT ![u] = rollout]
  /\ pc' = [pc EXCEPT ![u] = "look"]
  /\ UNCHANGED <<markVars, envVars, localProg, status, relationVars, lastGen,
                 minted, notify, hostVars, spent>>

RepairNotification_Never(u) == UNCHANGED <<localProg, notify>>   \* Mutant.

(* A monitor marker is durable before Juju commits relation writes: a       *)
(* completed participant publishes the frozen request's completion again.   *)
RepairNotification(u) ==
  LET g == view[u]
  IN IF g # Nil /\ u \in Participants(g) /\ Completed(g.id, u)
       THEN RecordProgress(u, g, g.requests[u], "done")
       ELSE UNCHANGED <<localProg, notify>>

ReconcileUnmanaged_Errorless(u) ==   \* Mutant: the callback's errors are not kept.
  /\ Leave(u, "complete")
  /\ applied' = [applied EXCEPT ![u] = req[u].id] \/ UNCHANGED applied
  /\ UNCHANGED dirty

(* An unmanaged profile reconciles outside any generation.  It restarts     *)
(* nothing, refuses to forget unfinished restarts, and may fail otherwise:  *)
(* by an exception, or by errors in the state it returns, at which run()    *)
(* does not look, so that the rollout is recorded as complete.              *)
ReconcileUnmanaged(u) ==
  /\ \/ /\ ~dirty[u]
        /\ applied' = [applied EXCEPT ![u] = req[u].id]
        /\ Leave(u, "complete")
     \/ /\ Leave(u, "errors") \/ Leave(u, "failed")
        /\ UNCHANGED applied
  /\ UNCHANGED dirty

(* ... at once, when there is no rollout at all.                            *)
LookUnmanaged(u) ==
  /\ pc[u] = "look"
  /\ view[u] = Nil
  /\ IsUnmanaged(u)
  /\ ReconcileUnmanaged(u)
  /\ UNCHANGED <<markVars, envVars, req, localProg, relationVars, lastGen,
                 hookVars, wake, spent>>

LookUnfinished(u) ==
  /\ pc[u] = "look"
  /\ ~Finished(view[u])
  /\ RepairNotification(u)
  /\ pc' = [pc EXCEPT ![u] = "turn"]
  /\ UNCHANGED <<markVars, envVars, req, status, relationVars, lastGen, view,
                 minted, wake, hostVars, spent>>

(* The generation is finished, and this unit is not the one to start the    *)
(* next: peers are missing or not converged, nothing is new, the profile is *)
(* unmanaged (reconcile at once), or another unit is the leader.            *)
LookFinished(u) ==
  /\ pc[u] = "look"
  /\ Finished(view[u])
  /\ ~(view[u] = Nil /\ IsUnmanaged(u))
  /\ RepairNotification(u)
  /\ \/ /\ ~AllPeersReady(u)
        /\ Leave(u, "waiting")
        /\ UNCHANGED hostVars
     \/ /\ AllPeersReady(u)
        /\ NothingNew(u)
        /\ Leave(u, "complete")
        /\ UNCHANGED hostVars
     \/ /\ AllPeersReady(u)
        /\ ~NothingNew(u)
        /\ IsUnmanaged(u)
        /\ ReconcileUnmanaged(u)
     \/ /\ AllPeersReady(u)
        /\ ~NothingNew(u)
        /\ ~IsUnmanaged(u)
        /\ leader # u
        /\ Leave(u, "waiting")
        /\ UNCHANGED hostVars
  /\ UNCHANGED <<markVars, envVars, req, relationVars, lastGen, view, minted,
                 wake, spent>>

(* The leader freezes the requests into a fresh generation.  Only the exit  *)
(* of this hook will publish it, but the hook goes on to its own turn.      *)
Mint(u) ==
  /\ pc[u] = "look"
  /\ Finished(view[u])
  /\ ~IsUnmanaged(u)
  /\ AllPeersReady(u)
  /\ ~NothingNew(u)
  /\ leader = u
  /\ RepairNotification(u)
  /\ lastGen' = lastGen + 1
  /\ view' = [view EXCEPT ![u] = [id |-> lastGen + 1, requests |-> RequestsSeenBy(u)]]
  /\ minted' = [minted EXCEPT ![u] = TRUE]
  /\ pc' = [pc EXCEPT ![u] = "turn"]
  /\ UNCHANGED <<markVars, envVars, req, status, relationVars, wake, hostVars, spent>>

(* The same request has failed in this generation before.                   *)
FailedBefore(u) ==
  localProg[u] = [gen |-> view[u].id, req |-> req[u].id, status |-> "failed"]

CompletedStatus_Always(u) == "complete"   \* Mutant: the newer request forgotten.

CompletedStatus_Progress(u) == "done"   \* Mutant: the vocabulary of _progress.

(* run() returns for a completed participant, or waits with a newer request.*)
CompletedStatus(u) ==
  IF view[u].requests[u] # req[u] THEN "waiting" ELSE "complete"

(* This unit may not run now: it joined after the generation was frozen, it *)
(* has completed it already, a predecessor has not, or it has failed.       *)
TurnDeclined(u) ==
  LET g == view[u]
      cohort == Participants(g)
  IN /\ pc[u] = "turn"
     /\ \/ u \notin cohort /\ Leave(u, "waiting")
        \/ /\ u \in cohort /\ Completed(g.id, u)
           /\ Leave(u, CompletedStatus(u))
        \/ /\ u \in cohort /\ ~Completed(g.id, u) /\ ~Admitted(g.id, cohort, u)
           /\ Leave(u, BlockedStatus(g.id, cohort, u))
        \/ /\ u \in cohort /\ ~Completed(g.id, u) /\ Admitted(g.id, cohort, u)
           /\ FailedBefore(u)
           /\ Leave(u, "failed")
     /\ UNCHANGED <<markVars, envVars, req, localProg, relationVars, lastGen,
                    hookVars, wake, hostVars, spent>>

HasTurn(u) ==
  /\ pc[u] = "turn"
  /\ u \in Participants(view[u])
  /\ ~Completed(view[u].id, u)
  /\ Admitted(view[u].id, Participants(view[u]), u)
  /\ ~FailedBefore(u)

(* check_turn gives up on a predecessor after TIMEOUT, and admits nobody.   *)
TurnTimesOut(u) ==
  LET g == view[u]
  IN /\ pc[u] = "turn"
     /\ u \in Participants(g) /\ ~Completed(g.id, u)
     /\ ~Admitted(g.id, Participants(g), u)
     /\ Spend("failures", MaxFailures)
     /\ Leave(u, "failed")
     /\ UNCHANGED <<markVars, envVars, req, localProg, relationVars, lastGen,
                    hookVars, wake, hostVars>>

(* Admitted: the callback runs, and may have to restart OSDs.               *)
StartCallback(u) ==
  /\ HasTurn(u)
  /\ RecordProgress(u, view[u], req[u], "running")
  /\ pc' = [pc EXCEPT ![u] = "running"]
  /\ UNCHANGED <<markVars, envVars, req, status, relationVars, lastGen, view,
                 minted, wake, hostVars, spent>>

(* The "start" marker cannot be written: the callback is not reached.       *)
StartMarkerFails(u) ==
  /\ HasTurn(u)
  /\ Spend("failures", MaxFailures)
  /\ RecordProgress(u, view[u], req[u], "failed")
  /\ Leave(u, "failed")
  /\ UNCHANGED <<markVars, envVars, req, relationVars, lastGen, view, minted,
                 wake, hostVars>>

(* The callback and check_ready succeed.  A managed one has finished every  *)
(* restart; an unmanaged one restarts nothing, and passes only when no      *)
(* restart was left unfinished.                                             *)
CallbackSucceeds(u) ==
  /\ pc[u] = "running"
  /\ IsUnmanaged(u) => ~dirty[u]
  /\ dirty' = [dirty EXCEPT ![u] = FALSE]
  /\ applied' = [applied EXCEPT ![u] = req[u].id]
  /\ pc' = [pc EXCEPT ![u] = "ack"]
  /\ UNCHANGED <<markVars, envVars, localVars, relationVars, lastGen, hookVars,
                 wake, spent>>

(* A managed callback that stops half-way may leave restarts unfinished.    *)
Interrupted(u) ==
  \/ ~IsUnmanaged(u) /\ dirty' = [dirty EXCEPT ![u] = TRUE]
  \/ UNCHANGED dirty

(* The callback fails; so may the write of the "failed" marker.             *)
CallbackFails(u) ==
  /\ pc[u] = "running"
  /\ IF IsUnmanaged(u) /\ dirty[u]
       THEN UNCHANGED spent
       ELSE Spend("failures", MaxFailures)
  /\ MarkFailed(view[u].id, u) \/ UNCHANGED failedMarks
  /\ Interrupted(u)
  /\ RecordProgress(u, view[u], req[u], "failed")
  /\ Leave(u, "failed")
  /\ UNCHANGED <<doneMarks, envVars, req, relationVars, lastGen, view, minted,
                 wake, applied>>

(* The "done" marker is written after success only ...                      *)
Acknowledge(u) ==
  /\ pc[u] = "ack"
  /\ MarkDone(view[u].id, u)
  /\ pc' = [pc EXCEPT ![u] = "notify"]
  /\ UNCHANGED <<failedMarks, envVars, localVars, relationVars, lastGen, hookVars,
                 wake, hostVars, spent>>

(* ... or its write is reported as failed, whether or not the monitors have *)
(* kept it (the command may time out after they did).                       *)
AcknowledgeFails(u) ==
  /\ pc[u] = "ack"
  /\ Spend("failures", MaxFailures)
  /\ MarkDone(view[u].id, u) \/ UNCHANGED doneMarks
  /\ RecordProgress(u, view[u], req[u], "failed")
  /\ Leave(u, "failed")
  /\ UNCHANGED <<failedMarks, envVars, req, relationVars, lastGen, view, minted,
                 wake, hostVars>>

NotifyDone(u) ==
  /\ pc[u] = "notify"
  /\ RecordProgress(u, view[u], req[u], "done")
  /\ Leave(u, "complete")
  /\ UNCHANGED <<markVars, envVars, req, relationVars, lastGen, view, minted,
                 wake, hostVars, spent>>

(* A marker cannot be read: the exception ends run(), not the hook.         *)
ReadFails(u) ==
  /\ pc[u] \in {"look", "turn"}
  /\ view[u] # Nil
  /\ Spend("failures", MaxFailures)
  /\ Leave(u, "failed")
  /\ UNCHANGED <<markVars, envVars, req, localProg, relationVars, lastGen,
                 hookVars, wake, hostVars>>

EndHook(u) ==
  /\ pc' = [pc EXCEPT ![u] = "idle"]
  /\ view' = [view EXCEPT ![u] = Nil]
  /\ minted' = [minted EXCEPT ![u] = FALSE]
  /\ notify' = [notify EXCEPT ![u] = FALSE]

(* The hook exits successfully and Juju commits its relation writes; every  *)
(* other unit gets relation-changed for a bag whose contents changed.  A    *)
(* unit is not notified of its own writes.                                  *)
Commit(u) ==
  LET newProg == IF notify[u] THEN localProg[u] ELSE pubProg[u]
      bagChanged == pubReq[u] # req[u] \/ pubProg[u] # newProg
  IN /\ pc[u] = "commit"
     /\ minted[u] => leader = u
     /\ pubReq' = [pubReq EXCEPT ![u] = req[u]]
     /\ pubProg' = [pubProg EXCEPT ![u] = newProg]
     /\ rollout' = IF minted[u] THEN view[u] ELSE rollout
     /\ wake' = [v \in Units |->
                   IF v \in Joined \ {u}
                     THEN wake[v] \cup (IF bagChanged THEN {u} ELSE {})
                                  \cup (IF minted[u] THEN {"app"} ELSE {})
                     ELSE wake[v]]
     /\ EndHook(u)
     /\ UNCHANGED <<markVars, envVars, localVars, lastGen, hostVars, spent>>

(* Juju refuses the application data of a unit that is no longer the leader:*)
(* the hook fails, all its relation writes are dropped, and it is retried.  *)
CommitRefused(u) ==
  /\ pc[u] = "commit"
  /\ minted[u] /\ leader # u
  /\ wake' = [wake EXCEPT ![u] = @ \cup {"retry"}]
  /\ EndHook(u)
  /\ UNCHANGED <<markVars, envVars, localVars, relationVars, lastGen, hostVars, spent>>

(* The hook dies (agent restart, reboot, an error elsewhere in it).         *)
Crash(u) ==
  /\ pc[u] # "idle"
  /\ Spend("crashes", MaxCrashes)
  /\ IF pc[u] = "running" THEN Interrupted(u) ELSE UNCHANGED dirty
  /\ wake' = [wake EXCEPT ![u] = @ \cup {"retry"}]
  /\ EndHook(u)
  /\ UNCHANGED <<markVars, envVars, localVars, relationVars, lastGen, applied>>

(* update-status: observe() reports a failed or stalled rollout and changes *)
(* nothing else.                                                            *)
Observe(u) ==
  /\ life[u] = "joined" /\ pc[u] = "idle"
  /\ "retry" \notin wake[u]
  /\ rollout # Nil /\ u \in Participants(rollout)
  /\ LET failed == /\ localProg[u] # Nil
                   /\ localProg[u].gen = rollout.id
                   /\ localProg[u].status = "failed"
     IN \/ /\ failed
           /\ status' = [status EXCEPT ![u] = "failed"]
        \/ /\ ~failed
           /\ ~Completed(rollout.id, u)
           /\ ~Admitted(rollout.id, Participants(rollout), u)
           /\ status' = [status EXCEPT ![u] =
                           BlockedStatus(rollout.id, Participants(rollout), u)]
  /\ UNCHANGED <<markVars, envVars, req, localProg, relationVars, lastGen, pc,
                 hookVars, wake, hostVars, spent>>

--------------------------------------------------------------------------------
(* The environment *)

(* The operator sets the charm configuration: config-changed everywhere.    *)
ChangeConfig(c) ==
  /\ c # appConfig
  /\ Spend("changes", MaxChanges)
  /\ appConfig' = c
  /\ wake' = [u \in Units |-> IF u \in Joined THEN wake[u] \cup {"config"} ELSE wake[u]]
  /\ UNCHANGED <<markVars, life, leader, input, localVars, relationVars, lastGen,
                 pc, hookVars, hostVars>>

(* storage attached or upgrade-charm on one unit.                           *)
ChangeInput(u) ==
  /\ life[u] = "joined" /\ pc[u] = "idle"
  /\ Spend("inputs", MaxInputs)
  /\ input' = [input EXCEPT ![u] = @ + 1]
  /\ wake' = [wake EXCEPT ![u] = @ \cup {"storage"}]
  /\ UNCHANGED <<markVars, life, leader, appConfig, localVars, relationVars,
                 lastGen, pc, hookVars, hostVars>>

(* Leadership moves.  A unit that lost it inside a hook that has written    *)
(* application data does not get it back within that hook.                  *)
Elect(u) ==
  /\ life[u] = "joined" /\ u # leader /\ ~minted[u]
  /\ LeadershipSettled => pc[u] # "look"
  /\ Spend("elections", MaxElections)
  /\ leader' = u
  /\ wake' = [wake EXCEPT ![u] = @ \cup {"elected"}]
  /\ UNCHANGED <<markVars, life, appConfig, input, localVars, relationVars,
                 lastGen, pc, hookVars, hostVars>>

(* add-unit: the unit shows in goal-state before it joins the relation.     *)
Expect(u) ==
  /\ life[u] = "absent"
  /\ life' = [life EXCEPT ![u] = "expected"]
  /\ UNCHANGED <<markVars, leader, appConfig, input, localVars, relationVars,
                 lastGen, pc, hookVars, wake, hostVars, spent>>

Join(u) ==
  /\ life[u] = "expected"
  /\ life' = [life EXCEPT ![u] = "joined"]
  /\ wake' = [v \in Units |-> IF v = u THEN {"config"} \cup Joined
                              ELSE IF v \in Joined THEN wake[v] \cup {u}
                              ELSE wake[v]]
  /\ UNCHANGED <<markVars, leader, appConfig, input, localVars, relationVars,
                 lastGen, pc, hookVars, hostVars, spent>>

(* remove-unit, between hooks: relation-departed on the others.  The model  *)
(* keeps at least one unit.                                                 *)
Depart(u) ==
  /\ life[u] = "joined" /\ pc[u] = "idle"
  /\ Joined # {u}
  /\ Spend("departures", MaxDepartures)
  /\ life' = [life EXCEPT ![u] = "gone"]
  /\ wake' = [v \in Units |-> IF v = u THEN {}
                              ELSE IF v \in Joined THEN wake[v] \cup {u}
                              ELSE wake[v]]
  /\ UNCHANGED <<markVars, leader, appConfig, input, localVars, relationVars,
                 lastGen, pc, hookVars, hostVars>>

HookStep(u) ==
  \/ BeginHook(u)
  \/ LookUnmanaged(u) \/ LookUnfinished(u) \/ LookFinished(u) \/ Mint(u)
  \/ TurnDeclined(u) \/ StartCallback(u)
  \/ CallbackSucceeds(u) \/ Acknowledge(u) \/ NotifyDone(u)
  \/ Commit(u) \/ CommitRefused(u)

Fault(u) ==
  \/ StartMarkerFails(u) \/ CallbackFails(u) \/ AcknowledgeFails(u)
  \/ TurnTimesOut(u) \/ ReadFails(u) \/ Crash(u)

Environment ==
  \/ \E c \in Configs : ChangeConfig(c)
  \/ \E u \in Units : ChangeInput(u) \/ Elect(u) \/ Expect(u) \/ Join(u) \/ Depart(u)

Next ==
  \/ \E u \in Units : HookStep(u) \/ Fault(u) \/ Observe(u)
  \/ Environment

Spec == Init /\ [][Next]_vars

(* Juju runs the hooks of every unit to completion, and delivers every      *)
(* event it owes.  Nothing makes an event happen that nobody caused.        *)
Fairness == \A u \in Units : WF_vars(HookStep(u))

FairSpec == Spec /\ Fairness

--------------------------------------------------------------------------------
(* Correctness *)

Statuses == {"none", "complete", "waiting", "errors", "failed"}

(* Every variable has its type.                                             *)
TypeOK ==
  /\ doneMarks \subseteq Nat \X Units
  /\ failedMarks \subseteq Nat \X Units
  /\ life \in [Units -> {"absent", "expected", "joined", "gone"}]
  /\ leader \in Units
  /\ appConfig \in Configs
  /\ input \in [Units -> Nat]
  /\ req \in [Units -> Request \cup {Nil}]
  /\ localProg \in [Units -> Progress \cup {Nil}]
  /\ status \in [Units -> Statuses]
  /\ pubReq \in [Units -> Request \cup {Nil}]
  /\ pubProg \in [Units -> Progress \cup {Nil}]
  /\ rollout = Nil \/ \E S \in SUBSET Units : rollout \in Rollouts(S)
  /\ lastGen \in Nat
  /\ pc \in [Units -> {"idle", "look", "turn", "running", "ack", "notify", "commit"}]
  /\ DOMAIN view = Units
  /\ \A u \in Units : view[u] = Nil \/ \E S \in SUBSET Units : view[u] \in Rollouts(S)
  /\ minted \in [Units -> BOOLEAN]
  /\ notify \in [Units -> BOOLEAN]
  /\ wake \in [Units -> SUBSET Events]
  /\ dirty \in [Units -> BOOLEAN]
  /\ applied \in [Units -> Nat]
  /\ spent \in [Disturbances -> Nat]

(* A unit works from the start of its callback until the callback has       *)
(* succeeded, the time it lies dead half-way included.                      *)
Working(u) == life[u] = "joined" /\ (pc[u] = "running" \/ dirty[u])

(* "Only one participant in the application proceeds at a time": no unit    *)
(* runs its callback, or sits on restarts it has not finished, while        *)
(* another one does, whatever hooks die and leaders change.                 *)
Serialized == \A u, v \in Units : Working(u) /\ Working(v) => u = v

(* The handoff of the published generation follows the host order: a unit   *)
(* is done only after all its predecessors are.                             *)
TurnOrder ==
  rollout # Nil =>
    \A u, v \in Participants(rollout) :
      Rank[v] < Rank[u] /\ Completed(rollout.id, u) => Completed(rollout.id, v)

(* A "done" marker vouches for the frozen request it will be compared with: *)
(* if that is still the unit's own request, the unit has carried it out.    *)
(* The nonce of a request is what makes this true after A -> B -> A.        *)
MarkerTruthful ==
  rollout # Nil =>
    \A u \in Participants(rollout) :
      Completed(rollout.id, u) /\ rollout.requests[u] = req[u]
        => applied[u] = req[u].id

(* A unit that is there and whose hook ended with rollout status "complete" *)
(* and without errors in its state has carried out its latest request.      *)
CompleteMeansApplied ==
  \A u \in Units :
    (/\ life[u] = "joined" /\ pc[u] = "idle"
     /\ status[u] = "complete" /\ "retry" \notin wake[u])
      => applied[u] = req[u].id

(* "A new request never supersedes an unfinished generation."  It needs     *)
(* LeadershipSettled: a run without it shows the generation that is lost.   *)
NeverSuperseded ==
  [][rollout' # rollout /\ rollout # Nil
       => AllCompleted(rollout.id, Participants(rollout))]_vars

(* The unit whose turn it is has an event pending or is owed one, by a      *)
(* predecessor that has marked its completion, not published it yet and is  *)
(* itself going to run; or else some participant shows a failure.           *)
NoLostHandoff ==
  rollout # Nil =>
    \A u \in Participants(rollout) :
      (/\ life[u] = "joined" /\ pc[u] = "idle" /\ wake[u] = {}
       /\ ~Completed(rollout.id, u)
       /\ Admitted(rollout.id, Participants(rollout), u))
      => \/ \E v \in Participants(rollout) : status[v] = "failed"
         \/ \E v \in Predecessors(Participants(rollout), u) :
              /\ pc[v] # "idle" \/ wake[v] # {}
              /\ \/ pubProg[v] = Nil
                 \/ pubProg[v].gen # rollout.id
                 \/ pubProg[v].status # "done"

(* Every published generation finishes.                                     *)
GenerationsFinish == []<>Finished(rollout)

(* The requests the units start with are carried out.                       *)
FirstRolloutCompletes == <>(\A u \in Units : applied[u] # 0)

(* A request queued behind a generation is carried out in the end.          *)
QueuedRequestsServed ==
  \A u \in Units : []<>(req[u] # Nil /\ applied[u] = req[u].id)
================================================================================
