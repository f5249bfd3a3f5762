------------------------------ MODULE NfsShares ------------------------------
(***************************************************************************)
(* The shares of the ceph-nfs charm (src/charm.py, src/ganesha.py).  They   *)
(* are kept in three kinds of RADOS objects, each read and written as a    *)
(* whole and without a version: one object per export, an index that names *)
(* the exports Ganesha loads, and a counter.  The actions run on the       *)
(* leader, step by step; each unit's Ganesha has its own copy in memory,   *)
(* changed over D-Bus on the leader and reloaded elsewhere after a nonce   *)
(* in the peer relation has changed.                                       *)
(*                                                                         *)
(* A step of the model is one command.  "action" holds what an action that *)
(* runs on a unit has in memory.                                           *)
(***************************************************************************)
EXTENDS Integers, FiniteSets

CONSTANTS
  Units,
  Shares,        \* names of shares
  Clients,       \* addresses that may be granted access
  Absent,        \* the clients of a share that does not exist
  FirstId,       \* what the counter starts from
  MaxActions,    \* bound on actions
  MaxMishaps,    \* bound on what goes wrong: actions that die or whose commands
                 \* fail, deaths of Ganesha, changes of the Juju leader
  HandoverWaits  \* TRUE: a new leader acts once the old one's hook has ended

ASSUME SharesAssumption ==
  /\ IsFiniteSet(Units) /\ Units # {}
  /\ Absent \notin Shares /\ \A C \in SUBSET Clients : C # Absent
  /\ FirstId \in Nat
  /\ MaxActions \in Nat /\ MaxMishaps \in Nat
  /\ HandoverWaits \in BOOLEAN

VARIABLES
  leader,    \* the unit that is the Juju leader
  ready,     \* app data: pool_initialised
  exports,   \* the objects ganesha-export-<id>
  index,     \* ganesha-export-index
  counter,   \* ganesha-export-counter
  served,    \* the exports in the memory of each unit's Ganesha
  up,        \* the units whose Ganesha runs
  told,      \* the units a change of the reload nonce has yet to reach
  restart,   \* the units that have yet to see pool_initialised
  action,    \* what runs on each unit
  announced, \* no change was made since the last action that succeeded
  spent      \* how much of each bound is used

pool == <<exports, index, counter>>
daemons == <<served, up>>
peers == <<ready, told, restart>>
vars == <<leader, pool, daemons, peers, action, announced, spent>>

Ids == FirstId .. (FirstId + MaxActions)
NoExport == [name |-> Absent, clients |-> {}]
Exists(id) == exports[id] # NoExport

Idle == [op |-> "none", pc |-> "idle", share |-> Absent, clients |-> {},
         id |-> FirstId, read |-> {}]

Init ==
  /\ leader \in Units
  /\ ready = FALSE
  /\ exports = [id \in Ids |-> NoExport]
  /\ index = {}
  /\ counter = FirstId
  /\ served = [u \in Units |-> [id \in Ids |-> NoExport]]
  /\ up = Units
  /\ told = {} /\ restart = {}
  /\ action = [u \in Units |-> Idle]
  /\ announced = TRUE
  /\ spent = [actions |-> 0, mishaps |-> 0]

-----------------------------------------------------------------------------
(* Reading                                                                 *)

\* What Ganesha loads: the index, and every object that it names.
Loaded == [id \in Ids |-> IF id \in index THEN exports[id] ELSE NoExport]

\* Export.from_export looks for the CLIENT block, which to_export leaves out
\* when there is no client.
Readable == \A id \in index : Exists(id) /\ exports[id].clients # {}

Named(s) == {id \in index : exports[id].name = s}

-----------------------------------------------------------------------------
(* Control                                                                 *)

At(u, pc) == action[u].pc = pc
Goto(u, pc) == action' = [action EXCEPT ![u].pc = pc]
Quiet == \A u \in Units : action[u].pc = "idle"
Free(u) == At(u, "idle") /\ (HandoverWaits => Quiet)

Mishap == /\ spent.mishaps < MaxMishaps
          /\ spent' = [spent EXCEPT !.mishaps = @ + 1]

OnlyAction == UNCHANGED <<leader, pool, daemons, peers, announced, spent>>

-----------------------------------------------------------------------------
(* setup_ganesha: the leader creates index and counter, once               *)

Setup(u) ==
  /\ Free(u) /\ u = leader /\ ~ready
  /\ action' = [action EXCEPT ![u] = [Idle EXCEPT !.op = "setup",
                                                  !.pc = "setup"]]
  /\ OnlyAction

SetupIndex(u) ==
  /\ At(u, "setup")
  /\ index' = {}
  /\ Goto(u, "setup-counter")
  /\ UNCHANGED <<leader, exports, counter, daemons, peers, announced, spent>>

\* Mutant: counting starts from 0.
SetupCounter_Zero(u) ==
  /\ At(u, "setup-counter")
  /\ counter' = 0
  /\ Goto(u, "setup-done")
  /\ UNCHANGED <<leader, exports, index, daemons, peers, announced, spent>>

SetupCounter(u) ==
  /\ At(u, "setup-counter")
  /\ counter' = FirstId
  /\ Goto(u, "setup-done")
  /\ UNCHANGED <<leader, exports, index, daemons, peers, announced, spent>>

\* pool_initialised is committed with the hook; Ganesha is restarted, here now
\* and on the other units when they see it.
SetupDone(u) ==
  /\ At(u, "setup-done")
  /\ ready' = TRUE
  /\ restart' = Units \ {u}
  /\ served' = [served EXCEPT ![u] = Loaded]
  /\ up' = up \cup {u}
  /\ action' = [action EXCEPT ![u] = Idle]
  /\ UNCHANGED <<leader, pool, told, announced, spent>>

-----------------------------------------------------------------------------
(* The actions.  Each begins by reading the index and every export in it   *)
(* (list_shares); one unreadable export fails it.                          *)

\* Operators act "once all relations have settled" (README.md).
Start(u, op, share, clients) ==
  /\ Free(u) /\ u = leader /\ ready
  /\ spent.actions < MaxActions
  /\ spent' = [spent EXCEPT !.actions = @ + 1]
  /\ action' = [action EXCEPT ![u] = [Idle EXCEPT !.op = op, !.pc = "list",
                                        !.share = share, !.clients = clients]]
  /\ UNCHANGED <<leader, pool, daemons, peers, announced>>

Create(u, s) == \E c \in Clients : Start(u, "create", s, {c})
Delete(u, s) == Start(u, "delete", s, {})
Grant(u, s) == \E c \in Clients : Start(u, "grant", s, {c})
Revoke(u, s) == \E c \in Clients : Start(u, "revoke", s, {c})

\* An existing share is not created again, a missing one is not deleted; both
\* succeed, and grants to a missing one fail.
List(u) ==
  /\ At(u, "list")
  /\ LET me == action[u]
         found == Named(me.share)
         id == CHOOSE i \in found : TRUE
     IN action' = [action EXCEPT ![u] =
          CASE ~Readable -> [me EXCEPT !.pc = "unreadable"]
            [] Readable /\ found = {} ->
                 [me EXCEPT !.pc = CASE me.op = "create" -> "take"
                                     [] me.op = "delete" -> "reload"
                                     [] OTHER -> "failed"]
            [] Readable /\ found # {} ->
                 [me EXCEPT !.id = id, !.pc = CASE me.op = "create" -> "reload"
                                                [] me.op = "delete" -> "remove"
                                                [] OTHER -> "put",
                    !.clients =
                      CASE me.op = "grant" -> exports[id].clients \cup @
                        [] me.op = "revoke" -> exports[id].clients \ @
                        [] OTHER -> @]]
  /\ OnlyAction

\* _get_next_export_id
TakeId(u) ==
  /\ At(u, "take")
  /\ action' = [action EXCEPT ![u] = [@ EXCEPT !.pc = "count",
                                                   !.id = counter]]
  /\ OnlyAction

\* Mutant: the counter stays as it was.
CountId_Never(u) == At(u, "count") /\ Goto(u, "put") /\ OnlyAction

CountId(u) ==
  /\ At(u, "count")
  /\ counter' = action[u].id + 1
  /\ Goto(u, "put")
  /\ UNCHANGED <<leader, exports, index, daemons, peers, announced, spent>>

PutExport(u) ==
  /\ At(u, "put")
  /\ exports' = [exports EXCEPT ![action[u].id] =
                   [name |-> action[u].share, clients |-> action[u].clients]]
  /\ Goto(u, IF action[u].op = "create" THEN "add" ELSE "update")
  /\ announced' = FALSE
  /\ UNCHANGED <<leader, index, counter, daemons, peers, spent>>

\* Ganesha takes an export whose path it does not serve yet, and changes or
\* removes one that it serves; otherwise it refuses and the action fails.
Dbus(u, accepted, export, next) ==
  /\ IF u \in up /\ accepted
     THEN /\ served' = [served EXCEPT ![u][action[u].id] = export]
          /\ announced' = FALSE
          /\ Goto(u, next)
     ELSE Goto(u, "failed") /\ UNCHANGED <<served, announced>>
  /\ UNCHANGED <<leader, pool, up, peers, spent>>

AddExport(u) ==
  /\ At(u, "add")
  /\ Dbus(u, \A id \in Ids : served[u][id].name # action[u].share,
          exports[action[u].id], "read-index")

UpdateExport(u) ==
  /\ At(u, "update")
  /\ Dbus(u, served[u][action[u].id] # NoExport,
          exports[action[u].id], "reload")

RemoveExport(u) ==
  /\ At(u, "remove")
  /\ Dbus(u, served[u][action[u].id] # NoExport, NoExport, "read-index")

\* _add_share_to_index, _remove_share_from_index
\* Mutant: a deleted share stays in the index.
ReadIndex_Late(u) ==
  /\ At(u, "read-index")
  /\ action' = [action EXCEPT ![u] = [@ EXCEPT !.read = index, !.pc =
                  IF action[u].op = "create" THEN "write-index" ELSE "erase"]]
  /\ OnlyAction

ReadIndex(u) ==
  /\ At(u, "read-index")
  /\ action' = [action EXCEPT ![u] = [@ EXCEPT !.pc = "write-index",
                                                   !.read = index]]
  /\ OnlyAction

WriteIndex(u) ==
  /\ At(u, "write-index")
  /\ index' = IF action[u].op = "create" THEN action[u].read \cup {action[u].id}
              ELSE action[u].read \ {action[u].id}
  /\ Goto(u, IF action[u].op = "create" THEN "reload" ELSE "erase")
  /\ announced' = FALSE
  /\ UNCHANGED <<leader, exports, counter, daemons, peers, spent>>

EraseExport(u) ==
  /\ At(u, "erase")
  /\ exports' = [exports EXCEPT ![action[u].id] = NoExport]
  /\ Goto(u, "reload")
  /\ announced' = FALSE
  /\ UNCHANGED <<leader, index, counter, daemons, peers, spent>>

-----------------------------------------------------------------------------
(* trigger_reload: this unit's Ganesha at once, the others once the new    *)
(* nonce is committed with the action                                      *)

Reload(u) == served' = IF u \in up THEN [served EXCEPT ![u] = Loaded]
                       ELSE served

TriggerReload(u) ==
  /\ At(u, "reload")
  /\ Reload(u)
  /\ Goto(u, "commit")
  /\ UNCHANGED <<leader, pool, up, peers, announced, spent>>

\* Mutant: the nonce is written where only this unit looks.
Succeed_Alone(u) ==
  /\ At(u, "commit")
  /\ announced' = TRUE
  /\ action' = [action EXCEPT ![u] = Idle]
  /\ UNCHANGED <<leader, pool, daemons, peers, spent>>

Succeed(u) ==
  /\ At(u, "commit")
  /\ told' = Units \ {u}
  /\ announced' = TRUE
  /\ action' = [action EXCEPT ![u] = Idle]
  /\ UNCHANGED <<leader, pool, daemons, ready, restart, spent>>

Fail(u) ==
  /\ action[u].pc \in {"failed", "unreadable"}
  /\ action' = [action EXCEPT ![u] = Idle]
  /\ OnlyAction

\* The action or hook dies, or a command fails and it with it; nothing it put
\* in the relation is committed.
Abort(u) ==
  /\ ~At(u, "idle") /\ Mishap
  /\ action' = [action EXCEPT ![u] = Idle]
  /\ UNCHANGED <<leader, pool, daemons, peers, announced>>

-----------------------------------------------------------------------------
(* What happens around the actions                                         *)

\* on_changed: a new nonce reloads, the pool's initialisation restarts.
\* Mutant: a new nonce is taken note of and nothing more.
RelationChanged_NotesOnly(u) ==
  /\ At(u, "idle") /\ u \in told \cup restart
  /\ IF u \in restart
     THEN up' = up \cup {u} /\ served' = [served EXCEPT ![u] = Loaded]
     ELSE UNCHANGED daemons
  /\ told' = told \ {u} /\ restart' = restart \ {u}
  /\ UNCHANGED <<leader, pool, ready, action, announced, spent>>

RelationChanged(u) ==
  /\ At(u, "idle") /\ u \in told \cup restart
  /\ IF u \in restart
     THEN up' = up \cup {u} /\ served' = [served EXCEPT ![u] = Loaded]
     ELSE Reload(u) /\ UNCHANGED up
  /\ told' = told \ {u} /\ restart' = restart \ {u}
  /\ UNCHANGED <<leader, pool, ready, action, announced, spent>>

GaneshaDies(u) ==
  /\ u \in up /\ Mishap
  /\ up' = up \ {u}
  /\ served' = [served EXCEPT ![u] = [id \in Ids |-> NoExport]]
  /\ UNCHANGED <<leader, pool, peers, action, announced>>

\* It reads the index and every export in it, or does not start.
GaneshaStarts(u) ==
  /\ u \notin up /\ \A id \in index : Exists(id)
  /\ up' = up \cup {u}
  /\ served' = [served EXCEPT ![u] = Loaded]
  /\ UNCHANGED <<leader, pool, peers, action, announced, spent>>

LeaderChanges ==
  /\ Mishap
  /\ leader' \in Units \ {leader}
  /\ UNCHANGED <<pool, daemons, peers, action, announced>>

-----------------------------------------------------------------------------
SetupStep(u) == SetupIndex(u) \/ SetupCounter(u) \/ SetupDone(u)

ActionStep(u) ==
  \/ List(u) \/ TakeId(u) \/ CountId(u) \/ PutExport(u)
  \/ AddExport(u) \/ UpdateExport(u) \/ RemoveExport(u)
  \/ ReadIndex(u) \/ WriteIndex(u) \/ EraseExport(u)
  \/ TriggerReload(u) \/ Succeed(u) \/ Fail(u)

Step(u) == SetupStep(u) \/ ActionStep(u)

Request(u) ==
  \/ Setup(u)
  \/ \E s \in Shares : Create(u, s) \/ Delete(u, s) \/ Grant(u, s) \/ Revoke(u, s)

Environment(u) ==
  Abort(u) \/ RelationChanged(u) \/ GaneshaDies(u) \/ GaneshaStarts(u)

Next == \/ \E u \in Units : Step(u) \/ Request(u) \/ Environment(u)
        \/ LeaderChanges

Spec == Init /\ [][Next]_vars

\* Hooks and actions that run go on, Juju delivers what it owes and systemd
\* brings Ganesha back.
FairSpec ==
  /\ Spec
  /\ \A u \in Units : /\ WF_vars(Step(u)) /\ WF_vars(RelationChanged(u))
                      /\ WF_vars(GaneshaStarts(u))

-----------------------------------------------------------------------------
Ops == {"none", "setup", "create", "delete", "grant", "revoke"}
Places == {"idle", "setup", "setup-counter", "setup-done", "list", "take",
           "count", "put", "add", "update", "remove", "read-index",
           "write-index", "erase", "reload", "commit", "failed", "unreadable"}

ExportType == [name : Shares \cup {Absent}, clients : SUBSET Clients]
ActionType == [op : Ops, pc : Places, share : Shares \cup {Absent},
               clients : SUBSET Clients, id : Ids, read : SUBSET Ids]

TypeOK ==
  /\ leader \in Units /\ ready \in BOOLEAN /\ announced \in BOOLEAN
  /\ exports \in [Ids -> ExportType]
  /\ index \in SUBSET Ids /\ counter \in Ids
  /\ served \in [Units -> [Ids -> ExportType]] /\ up \in SUBSET Units
  /\ told \in SUBSET Units /\ restart \in SUBSET Units
  /\ action \in [Units -> ActionType]
  /\ spent \in [actions : 0 .. MaxActions, mishaps : 0 .. MaxMishaps]

\* Every export in the index is there, whatever step an action died at:
\* otherwise no Ganesha starts and no action can read the shares.
Loadable == \A id \in index : Exists(id)

\* With every change announced, a unit that has heard of it serves exactly the
\* exports of the index, to exactly the clients of their objects: no client
\* whose access was revoked keeps it, and no deleted share is served.
AnnouncedIsServed ==
  announced => \A u \in up \ (told \cup restart) : served[u] = Loaded

\* Shares change one at a time and each change is whole; none is lost.
CatalogueOf ==
  [s \in Shares |-> IF Named(s) = {} THEN Absent
                    ELSE exports[CHOOSE id \in Named(s) : TRUE].clients]
Catalogue == INSTANCE ShareCatalogue WITH catalogue <- CatalogueOf
CatalogueKept == Catalogue!CatalogueSpec

\* Every unit comes to serve what was announced, also when its Ganesha was
\* dead at that time or dies meanwhile.
UnitsCatchUp ==
  \A u \in Units : announced /\ served[u] # Loaded
                     ~> served[u] = Loaded \/ ~announced

\* Whatever the actions did to the shares before, an action can read them.
SharesStayReadable == \A u \in Units : action[u].pc # "unreadable"
=============================================================================
