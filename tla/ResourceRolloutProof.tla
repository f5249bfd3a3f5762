-------------------------- MODULE ResourceRolloutProof --------------------------
(***************************************************************************)
(* Proofs about ResourceRollout, for any number of units, any bounds and   *)
(* any configurations:                                                     *)
(*   - TypeCorrect, GenerationsCorrect: the generations are well formed;   *)
(*   - HandoffInOrder: turns follow the host order, if leadership does not *)
(*     move while a hook decides;                                          *)
(*   - InformedLeadersSupersedeNothing: only a unit that became the leader *)
(*     in the middle of its decision supersedes an unfinished generation;  *)
(*   - TurnsExclusive: with that and a fixed cohort, one unit at a time;   *)
(*   - MarkersTruthful, CompleteIsApplied: markers and statuses vouch for  *)
(*     requests that were carried out;                                     *)
(*   - HandoffNotLost: the unit whose turn it is hears of it.              *)
(***************************************************************************)
EXTENDS ResourceRolloutInv, TLAPS

--------------------------------------------------------------------------------
(* Types *)

LEMMA RequestOfType ==
  ASSUME TypeOK, NEW u \in Units PROVE RequestOf(u) \in Request
  BY DEF TypeOK, RequestOf, Request

LEMMA BlockedStatusType ==
  ASSUME NEW g, NEW S, NEW u PROVE BlockedStatus(g, S, u) \in Statuses
  BY DEF BlockedStatus, Statuses

LEMMA RequestsSeenType ==
  ASSUME TypeOK, NEW u \in Units, req[u] \in Request, AllPeersReady(u)
  PROVE  RequestsSeenBy(u) \in [Joined -> Request]
  BY DEF TypeOK, AllPeersReady, RequestsSeenBy, Joined

LEMMA RepairType ==
  ASSUME TypeOK, NEW u \in Units, RepairNotification(u)
  PROVE  /\ localProg' \in [Units -> Progress \cup {Nil}]
         /\ notify' \in [Units -> BOOLEAN]
<1> DEFINE g == view[u]
<1>1. CASE g # Nil /\ u \in Participants(g) /\ Completed(g.id, u)
  <2>1. g.id \in Nat /\ g.requests[u].id \in Nat
    BY <1>1 DEF TypeOK, Participants, Rollouts, Request
  <2>2. RecordProgress(u, g, g.requests[u], "done")
    BY <1>1 DEF RepairNotification
  <2> QED BY <2>1, <2>2 DEF TypeOK, RecordProgress, Progress
<1>2. CASE ~(g # Nil /\ u \in Participants(g) /\ Completed(g.id, u))
  BY <1>2 DEF TypeOK, RepairNotification
<1> QED BY <1>1, <1>2

LEMMA InterruptedType ==
  ASSUME TypeOK, NEW u \in Units, Interrupted(u)
  PROVE  /\ dirty' \in [Units -> BOOLEAN]
         /\ \A v \in Units \ {u} : dirty'[v] = dirty[v]
  BY DEF TypeOK, Interrupted

LEMMA SpendType ==
  ASSUME TypeOK, NEW what, NEW limit, Spend(what, limit)
  PROVE  spent' \in [Disturbances -> Nat]
<1>1. spent \in [Disturbances -> Nat] /\ spent' = [spent EXCEPT ![what] = @ + 1]
  BY DEF TypeOK, Spend
<1>2. \A d \in Disturbances : spent[d] + 1 \in Nat
  BY <1>1
<1> QED BY <1>1, <1>2

LEMMA TypeInit == Init => TypeOK /\ Phases
  BY RolloutAssumption DEF Init, TypeOK, Phases, Events, Statuses, Disturbances, markVars

LEMMA TypeStep == TypeOK /\ Phases /\ [Next]_vars => TypeOK' /\ Phases'
<1> SUFFICES ASSUME TypeOK, Phases, [Next]_vars PROVE TypeOK' /\ Phases'
  OBVIOUS
<1> USE DEF markVars, localVars, relationVars, hostVars, envVars, hookVars
<1>1. ASSUME NEW u \in Units, BeginHook(u) PROVE TypeOK' /\ Phases'
  <2>1. req' \in [Units -> Request \cup {Nil}] /\ req'[u] \in Request
    BY <1>1, RequestOfType DEF BeginHook, TypeOK
  <2>2. wake' \in [Units -> SUBSET Events]
    BY <1>1 DEF BeginHook, TypeOK
  <2>3. TypeOK'
    BY <1>1, <2>1, <2>2 DEF BeginHook, TypeOK
  <2>4. Phases'
    BY <1>1, <2>1 DEF BeginHook, TypeOK, Phases, Participants
  <2> QED BY <2>3, <2>4
<1>2. ASSUME NEW u \in Units, LookUnmanaged(u) PROVE TypeOK' /\ Phases'
  BY <1>2 DEF LookUnmanaged, ReconcileUnmanaged, TypeOK, Phases, Participants, Request, Statuses, Leave
<1>3. ASSUME NEW u \in Units, LookUnfinished(u) PROVE TypeOK' /\ Phases'
  <2>1. view[u] # Nil
    BY <1>3 DEF LookUnfinished, Finished
  <2> QED
    BY <1>3, <2>1, RepairType DEF LookUnfinished, TypeOK, Phases, Participants
<1>4. ASSUME NEW u \in Units, LookFinished(u) PROVE TypeOK' /\ Phases'
  <2>1. /\ status' \in [Units -> Statuses]
        /\ applied' \in [Units -> Nat]
        /\ pc' = [pc EXCEPT ![u] = "commit"]
    BY <1>4 DEF LookFinished, ReconcileUnmanaged, Leave, TypeOK, Phases, Statuses, Request
  <2> QED
    BY <1>4, <2>1, RepairType DEF LookFinished, ReconcileUnmanaged, TypeOK, Phases, Participants
<1>5. ASSUME NEW u \in Units, Mint(u) PROVE TypeOK' /\ Phases'
  <2> DEFINE g == [id |-> lastGen + 1, requests |-> RequestsSeenBy(u)]
  <2>1. req[u] \in Request
    BY <1>5 DEF Mint, Phases
  <2>2. RequestsSeenBy(u) \in [Joined -> Request]
    BY <1>5, <2>1, RequestsSeenType DEF Mint
  <2>3. Joined \in SUBSET Units /\ g \in Rollouts(Joined) /\ g # Nil
    BY <2>2, NilAssumption DEF Joined, Rollouts, TypeOK
  <2>4. view' = [view EXCEPT ![u] = g]
    BY <1>5 DEF Mint
  <2> HIDE DEF g
  <2>5. /\ DOMAIN view' = Units
        /\ \A v \in Units : view'[v] = Nil \/ \E S \in SUBSET Units : view'[v] \in Rollouts(S)
    BY <2>3, <2>4 DEF TypeOK
  <2>6. TypeOK'
    BY <1>5, <2>5, RepairType DEF Mint, TypeOK
  <2>7. Phases'
    BY <1>5, <2>3, <2>4 DEF Mint, TypeOK, Phases, Participants
  <2> QED BY <2>6, <2>7
<1>6. ASSUME NEW u \in Units, TurnDeclined(u) PROVE TypeOK' /\ Phases'
  <2>1. /\ status' \in [Units -> Statuses]
        /\ pc' = [pc EXCEPT ![u] = "commit"]
    BY <1>6, BlockedStatusType DEF TurnDeclined, Leave, CompletedStatus, TypeOK, Statuses
  <2> QED
    BY <1>6, <2>1 DEF TurnDeclined, TypeOK, Phases, Participants
<1>7. ASSUME NEW u \in Units, TurnTimesOut(u) PROVE TypeOK' /\ Phases'
  BY <1>7, SpendType DEF TurnTimesOut, TypeOK, Phases, Participants, Leave, Statuses
<1>8. ASSUME NEW u \in Units, StartCallback(u) PROVE TypeOK' /\ Phases'
  BY <1>8 DEF StartCallback, TypeOK, Phases, Participants, HasTurn, RecordProgress, Progress, Rollouts, Request
<1>9. ASSUME NEW u \in Units, StartMarkerFails(u) PROVE TypeOK' /\ Phases'
  BY <1>9, SpendType DEF StartMarkerFails, TypeOK, Phases, Participants, HasTurn, RecordProgress, Progress, Rollouts, Request, Leave, Statuses
<1>10. ASSUME NEW u \in Units, CallbackSucceeds(u) PROVE TypeOK' /\ Phases'
  BY <1>10 DEF CallbackSucceeds, TypeOK, Phases, Participants, Request
<1>11. ASSUME NEW u \in Units, CallbackFails(u) PROVE TypeOK' /\ Phases'
  <2>1. req[u].id \in Nat /\ view[u].id \in Nat
    BY <1>11 DEF CallbackFails, Phases, TypeOK, Request, Rollouts
  <2>2. localProg' \in [Units -> Progress \cup {Nil}] /\ notify' \in [Units -> BOOLEAN]
    BY <1>11, <2>1 DEF CallbackFails, RecordProgress, Progress, TypeOK
  <2>3. failedMarks' \subseteq Nat \X Units
    BY <1>11, <2>1 DEF CallbackFails, MarkFailed, TypeOK
  <2>4. spent' \in [Disturbances -> Nat]
    BY <1>11, SpendType DEF CallbackFails, TypeOK
  <2>5. Interrupted(u) /\ pc' = [pc EXCEPT ![u] = "commit"] /\ status' \in [Units -> Statuses]
    BY <1>11 DEF CallbackFails, Leave, TypeOK, Statuses
  <2>6. TypeOK'
    BY <1>11, <2>2, <2>3, <2>4, <2>5, InterruptedType DEF CallbackFails, TypeOK
  <2>7. Phases'
    BY <1>11, <2>5, InterruptedType DEF CallbackFails, TypeOK, Phases, Participants
  <2> QED BY <2>6, <2>7
<1>12. ASSUME NEW u \in Units, Acknowledge(u) PROVE TypeOK' /\ Phases'
  BY <1>12 DEF Acknowledge, TypeOK, Phases, Participants, MarkDone, Rollouts
<1>13. ASSUME NEW u \in Units, AcknowledgeFails(u) PROVE TypeOK' /\ Phases'
  BY <1>13, SpendType DEF AcknowledgeFails, TypeOK, Phases, Participants, MarkDone, Rollouts, RecordProgress, Progress, Request, Leave, Statuses
<1>14. ASSUME NEW u \in Units, NotifyDone(u) PROVE TypeOK' /\ Phases'
  BY <1>14 DEF NotifyDone, TypeOK, Phases, Participants, RecordProgress, Progress, Rollouts, Request, Leave, Statuses
<1>15. ASSUME NEW u \in Units, ReadFails(u) PROVE TypeOK' /\ Phases'
  BY <1>15, SpendType DEF ReadFails, TypeOK, Phases, Participants, Leave, Statuses
<1>16. ASSUME NEW u \in Units, Commit(u) PROVE TypeOK' /\ Phases'
  <2>0. req[u] \in Request
    BY <1>16 DEF Commit, Phases
  <2>1. wake' \in [Units -> SUBSET Events]
    BY <1>16 DEF Commit, TypeOK, Events
  <2>2. rollout' = Nil \/ \E S \in SUBSET Units : rollout' \in Rollouts(S)
    BY <1>16 DEF Commit, TypeOK
  <2>3. pubReq' \in [Units -> Request \cup {Nil}] /\ pubProg' \in [Units -> Progress \cup {Nil}]
    BY <1>16, <2>0 DEF Commit, TypeOK
  <2>4. EndHook(u)
    BY <1>16 DEF Commit
  <2>6. TypeOK'
    BY <1>16, <2>1, <2>2, <2>3, <2>4 DEF Commit, TypeOK, EndHook
  <2>7. Phases'
    BY <1>16, <2>4 DEF Commit, TypeOK, Phases, Participants, EndHook
  <2> QED BY <2>6, <2>7
<1>17. ASSUME NEW u \in Units, CommitRefused(u) PROVE TypeOK' /\ Phases'
  <2>1. wake' \in [Units -> SUBSET Events]
    BY <1>17 DEF CommitRefused, TypeOK, Events
  <2>6. TypeOK'
    BY <1>17, <2>1 DEF CommitRefused, TypeOK, EndHook
  <2>7. Phases'
    BY <1>17 DEF CommitRefused, TypeOK, Phases, Participants, EndHook
  <2> QED BY <2>6, <2>7
<1>18. ASSUME NEW u \in Units, Crash(u) PROVE TypeOK' /\ Phases'
  <2>1. wake' \in [Units -> SUBSET Events]
    BY <1>18 DEF Crash, TypeOK, Events
  <2>2. dirty' \in [Units -> BOOLEAN] /\ \A v \in Units \ {u} : dirty'[v] = dirty[v]
    BY <1>18, InterruptedType DEF Crash, TypeOK
  <2>3. spent' \in [Disturbances -> Nat]
    BY <1>18, SpendType DEF Crash
  <2>6. TypeOK'
    BY <1>18, <2>1, <2>2, <2>3 DEF Crash, TypeOK, EndHook
  <2>7. Phases'
    BY <1>18, <2>2 DEF Crash, TypeOK, Phases, Participants, EndHook
  <2> QED BY <2>6, <2>7
<1>19. ASSUME NEW u \in Units, Observe(u) PROVE TypeOK' /\ Phases'
  <2>1. status' \in [Units -> Statuses]
    BY <1>19, BlockedStatusType DEF Observe, TypeOK, Statuses
  <2> QED
    BY <1>19, <2>1 DEF Observe, TypeOK, Phases, Participants
<1>20. ASSUME NEW u \in Units, ChangeInput(u) PROVE TypeOK' /\ Phases'
  BY <1>20, SpendType DEF ChangeInput, TypeOK, Phases, Participants, Events
<1>21. ASSUME NEW u \in Units, Elect(u) PROVE TypeOK' /\ Phases'
  BY <1>21, SpendType DEF Elect, TypeOK, Phases, Participants, Events
<1>22. ASSUME NEW u \in Units, Expect(u) PROVE TypeOK' /\ Phases'
  BY <1>22 DEF Expect, TypeOK, Phases, Participants
<1>23. ASSUME NEW u \in Units, Join(u) PROVE TypeOK' /\ Phases'
  BY <1>23 DEF Join, TypeOK, Phases, Participants, Events, Joined
<1>24. ASSUME NEW u \in Units, Depart(u) PROVE TypeOK' /\ Phases'
  BY <1>24, SpendType DEF Depart, TypeOK, Phases, Participants, Events, Joined
<1>25. ASSUME NEW c \in Configs, ChangeConfig(c) PROVE TypeOK' /\ Phases'
  BY <1>25, SpendType DEF ChangeConfig, TypeOK, Phases, Participants, Events
<1>26. CASE UNCHANGED vars
  BY <1>26 DEF vars, TypeOK, Phases, Participants
<1> QED
  BY <1>1, <1>2, <1>3, <1>4, <1>5, <1>6, <1>7, <1>8, <1>9, <1>10, <1>11, <1>12, <1>13, <1>14, <1>15, <1>16, <1>17, <1>18, <1>19, <1>20, <1>21, <1>22, <1>23, <1>24, <1>25, <1>26 DEF Next, HookStep, Fault, Environment

(* Every variable keeps its type, and a hook holds what its phase implies.  *)
THEOREM TypeCorrect == Spec => []TypeOK
<1>1. Spec => [](TypeOK /\ Phases)
  BY TypeInit, TypeStep, PTL DEF Spec
<1> QED BY <1>1, PTL

--------------------------------------------------------------------------------
(* Generations *)

GenerationParts == Identifiers /\ MintedMarks /\ Currency /\ HostOrder

LEMMA GenerationInit == Init => GenerationInv
  BY TypeInit DEF Init, GenerationInv, Identifiers, MintedMarks, Currency, HostOrder,
                  Finished, Completed

(* A step that leaves generations, marks and leader alone keeps the         *)
(* invariant if it moves one unit's hook as run() does.                     *)
LEMMA QuietStep ==
  ASSUME GenerationInv, NEW u \in Units,
         UNCHANGED <<rollout, lastGen, view, minted, doneMarks, leader>>,
         \A v \in Units \ {u} : pc'[v] = pc[v] /\ dirty'[v] = dirty[v],
         pc'[u] = "look" => pc[u] = "look",
         pc[u] \in {"notify", "commit"} => pc'[u] \in {"notify", "commit"} /\ dirty'[u] = dirty[u],
         pc'[u] \in {"running", "ack"} => Admitted(view[u].id, Participants(view[u]), u)
  PROVE  GenerationParts'
<1> USE DEF GenerationInv, Completed, AllCompleted, Predecessors, Admitted, Participants
<1>1. Identifiers'
  BY DEF Identifiers
<1>2. MintedMarks'
  BY DEF MintedMarks
<1>3. Currency'
  BY DEF Currency, Finished
<1>4. HostOrder'
  BY DEF HostOrder, InOrder
<1> QED BY <1>1, <1>2, <1>3, <1>4 DEF GenerationParts

LEMMA GenerationStep ==
  ASSUME LeadershipSettled, GenerationInv, [Next]_vars
  PROVE  GenerationInv'
<1> USE DEF markVars, localVars, relationVars, hostVars, envVars, hookVars
<1>0. TypeOK' /\ Phases'
  BY TypeStep DEF GenerationInv
<1> SUFFICES GenerationParts'
  BY <1>0 DEF GenerationInv, GenerationParts
<1>1. ASSUME NEW u \in Units,
             \/ LookUnmanaged(u) \/ LookUnfinished(u) \/ LookFinished(u)
             \/ TurnDeclined(u) \/ TurnTimesOut(u) \/ StartMarkerFails(u)
             \/ NotifyDone(u) \/ ReadFails(u) \/ Observe(u) \/ ChangeInput(u)
             \/ Expect(u) \/ Join(u) \/ Depart(u)
      PROVE  GenerationParts'
  <2>1. UNCHANGED <<rollout, lastGen, view, minted, doneMarks, leader, dirty>>
    BY <1>1 DEF LookUnmanaged, LookUnfinished, LookFinished, ReconcileUnmanaged, TurnDeclined, TurnTimesOut,
                StartMarkerFails, NotifyDone, ReadFails, Observe, ChangeInput, Expect, Join, Depart
  <2>2. CASE LookUnfinished(u)
    BY <2>1, <2>2, QuietStep DEF LookUnfinished, GenerationInv, TypeOK
  <2>3. CASE \/ LookUnmanaged(u) \/ LookFinished(u) \/ TurnDeclined(u) \/ TurnTimesOut(u)
             \/ StartMarkerFails(u) \/ NotifyDone(u) \/ ReadFails(u)
    <3>1. pc' = [pc EXCEPT ![u] = "commit"]
      BY <2>3 DEF LookUnmanaged, LookFinished, ReconcileUnmanaged, TurnDeclined, TurnTimesOut, StartMarkerFails,
                  NotifyDone, ReadFails, Leave
    <3> QED BY <2>1, <3>1, QuietStep DEF GenerationInv, TypeOK
  <2>4. CASE Observe(u) \/ ChangeInput(u) \/ Expect(u) \/ Join(u) \/ Depart(u)
    <3>1. pc' = pc
      BY <2>4 DEF Observe, ChangeInput, Expect, Join, Depart
    <3> QED BY <2>1, <3>1, QuietStep DEF GenerationInv, TypeOK, HostOrder
  <2> QED BY <1>1, <2>2, <2>3, <2>4
<1>2. ASSUME NEW u \in Units, StartCallback(u) PROVE GenerationParts'
  BY <1>2, QuietStep DEF StartCallback, HasTurn, GenerationInv, TypeOK
<1>3. ASSUME NEW u \in Units, CallbackSucceeds(u) PROVE GenerationParts'
  BY <1>3, QuietStep DEF CallbackSucceeds, GenerationInv, TypeOK, HostOrder
<1>4. ASSUME NEW u \in Units, CallbackFails(u) PROVE GenerationParts'
  BY <1>4, QuietStep, InterruptedType DEF CallbackFails, Leave, GenerationInv, TypeOK
<1>5. ASSUME NEW c \in Configs, ChangeConfig(c) PROVE GenerationParts'
  <2>1. UNCHANGED <<rollout, lastGen, view, minted, doneMarks, leader, dirty, pc>>
    BY <1>5 DEF ChangeConfig
  <2> QED BY <2>1, QuietStep DEF GenerationInv, TypeOK, HostOrder
<1>6. CASE UNCHANGED vars
  <2>1. UNCHANGED <<rollout, lastGen, view, minted, doneMarks, leader, dirty, pc>>
    BY <1>6 DEF vars
  <2> QED BY <2>1, QuietStep DEF GenerationInv, TypeOK, HostOrder
<1>7. ASSUME NEW u \in Units, BeginHook(u) PROVE GenerationParts'
  <2> USE <1>7 DEF BeginHook, GenerationInv, TypeOK, Phases, Participants, Completed
  <2>1. Identifiers'
    BY DEF Identifiers
  <2>2. MintedMarks'
    BY DEF MintedMarks
  <2>3. Currency'
    BY DEF Currency, Finished, AllCompleted
  <2>4. HostOrder'
    BY DEF HostOrder, InOrder, Admitted, AllCompleted, Predecessors
  <2> QED BY <2>1, <2>2, <2>3, <2>4 DEF GenerationParts
<1>8. ASSUME NEW u \in Units, Mint(u) PROVE GenerationParts'
  <2> USE <1>8 DEF Mint, GenerationInv, TypeOK, Phases, Participants, Completed
  <2>0. /\ view' = [view EXCEPT ![u] = [id |-> lastGen + 1, requests |-> RequestsSeenBy(u)]]
        /\ \A v \in Units : <<lastGen + 1, v>> \notin doneMarks
    BY DEF Identifiers
  <2>1. Identifiers'
    BY <2>0 DEF Identifiers, Rollouts
  <2>2. MintedMarks'
    BY <2>0 DEF MintedMarks
  <2>3. Currency'
    BY DEF Currency, Finished, AllCompleted
  <2>4. HostOrder'
    BY <2>0 DEF HostOrder, InOrder, Admitted, AllCompleted, Predecessors
  <2> QED BY <2>1, <2>2, <2>3, <2>4 DEF GenerationParts
<1>10. ASSUME NEW u \in Units, Commit(u) PROVE GenerationParts'
  <2> USE <1>10 DEF Commit, EndHook, GenerationInv, TypeOK, Phases, Participants, Completed
  <2>1. Identifiers'
    BY DEF Identifiers
  <2>2. MintedMarks'
    BY DEF MintedMarks
  <2>3. Currency'
    BY DEF Currency, Finished, AllCompleted
  <2>4. HostOrder'
    BY DEF HostOrder, InOrder, Admitted, AllCompleted, Predecessors
  <2> QED BY <2>1, <2>2, <2>3, <2>4 DEF GenerationParts
<1>11. ASSUME NEW u \in Units, CommitRefused(u) \/ Crash(u) PROVE GenerationParts'
  <2>0. /\ UNCHANGED <<rollout, lastGen, doneMarks, leader>>
        /\ EndHook(u)
        /\ \A v \in Units \ {u} : dirty'[v] = dirty[v]
    BY <1>11, InterruptedType DEF CommitRefused, Crash, GenerationInv, TypeOK
  <2> USE <2>0 DEF EndHook, GenerationInv, TypeOK, Phases, Participants, Completed
  <2>1. Identifiers'
    BY DEF Identifiers
  <2>2. MintedMarks'
    BY DEF MintedMarks
  <2>3. Currency'
    BY DEF Currency, Finished, AllCompleted
  <2>4. HostOrder'
    BY DEF HostOrder, InOrder, Admitted, AllCompleted, Predecessors
  <2> QED BY <2>1, <2>2, <2>3, <2>4 DEF GenerationParts
<1>12. ASSUME NEW u \in Units, Elect(u) PROVE GenerationParts'
  <2> USE <1>12 DEF Elect, GenerationInv, TypeOK, Phases, Participants, Completed
  <2>1. Identifiers'
    BY DEF Identifiers
  <2>2. MintedMarks'
    BY DEF MintedMarks
  <2>3. Currency'
    BY DEF Currency, Finished, AllCompleted
  <2>4. HostOrder'
    BY DEF HostOrder, InOrder, Admitted, AllCompleted, Predecessors
  <2> QED BY <2>1, <2>2, <2>3, <2>4 DEF GenerationParts
<1>13. ASSUME NEW u \in Units, Acknowledge(u) \/ AcknowledgeFails(u) PROVE GenerationParts'
  <2>1. /\ UNCHANGED <<rollout, lastGen, view, minted, leader, dirty>>
        /\ pc[u] = "ack" /\ ~dirty[u] /\ view[u] # Nil /\ u \in Participants(view[u])
        /\ pc' = [pc EXCEPT ![u] = "notify"] \/ pc' = [pc EXCEPT ![u] = "commit"]
        /\ doneMarks' = doneMarks \/ MarkDone(view[u].id, u)
    BY <1>13 DEF Acknowledge, AcknowledgeFails, Leave, GenerationInv, Phases
  <2>2. CASE doneMarks' = doneMarks
    BY <2>1, <2>2, QuietStep DEF GenerationInv, TypeOK
  <2>3. CASE <<view[u].id, u>> \notin doneMarks /\ doneMarks' = doneMarks \cup {<<view[u].id, u>>}
    <3> USE <2>1, <2>3 DEF GenerationInv, TypeOK, Participants, Completed
    <3>1. Identifiers'
      BY DEF Identifiers
    <3>2. MintedMarks'
      BY DEF MintedMarks, Identifiers
    <3>3. Currency'
      BY DEF Currency, Finished, AllCompleted
    <3>4. ~minted[u] => view[u] = rollout
      BY DEF Currency, Finished, AllCompleted
    <3>5. \A v \in Predecessors(Participants(view[u]), u) : Completed(view[u].id, v)
      BY DEF HostOrder, Admitted, AllCompleted
    <3>6. HostOrder'
      <4>1. (rollout # Nil => InOrder(rollout))'
        BY <3>4, <3>5 DEF HostOrder, InOrder, Predecessors, Identifiers
      <4>2. (\A v \in Units : minted[v] => InOrder(view[v]))'
        BY <3>5 DEF HostOrder, InOrder, Predecessors, Identifiers, Phases
      <4>3. (\A v \in Units : pc[v] \in {"running", "ack"} =>
               Admitted(view[v].id, Participants(view[v]), v))'
        BY DEF HostOrder, Admitted, AllCompleted, Predecessors
      <4> QED BY <4>1, <4>2, <4>3 DEF HostOrder
    <3> QED BY <3>1, <3>2, <3>3, <3>6 DEF GenerationParts
  <2> QED BY <2>1, <2>2, <2>3 DEF MarkDone
<1> QED
  BY <1>1, <1>2, <1>3, <1>4, <1>5, <1>6, <1>7, <1>8, <1>10, <1>11, <1>12, <1>13
  DEF Next, HookStep, Fault, Environment

(* The generations stay well formed, whatever joins, leaves, dies or is     *)
(* elected, if leadership does not move to a unit while its hook decides.   *)
THEOREM GenerationsCorrect == LeadershipSettled => (Spec => []GenerationInv)
<1> SUFFICES ASSUME LeadershipSettled PROVE Spec => []GenerationInv
  OBVIOUS
<1>1. GenerationInv /\ [Next]_vars => GenerationInv'
  BY GenerationStep
<1> QED BY <1>1, GenerationInit, PTL DEF Spec

(* The done markers of the published generation follow the host order: no   *)
(* host completes before all its predecessors have (check_turn).            *)
THEOREM HandoffInOrder == LeadershipSettled => (Spec => []TurnOrder)
<1>1. GenerationInv => TurnOrder
  BY DEF GenerationInv, HostOrder, InOrder, TurnOrder
<1> QED BY <1>1, GenerationsCorrect, PTL

--------------------------------------------------------------------------------
(* Who may supersede a generation, without a condition on leadership *)

(* Leadership comes to u after its hook has read the rollout and before it  *)
(* asks who is the leader.                                                  *)
ElectedMidLook(u) == pc[u] = "look" /\ leader # u /\ leader' = u

(* The hook of u ends, and with it the generation that u has minted is the  *)
(* published one.                                                           *)
Publishes(u) == minted[u] /\ Commit(u)

(* What one unit knows of the rollout while it is the leader.               *)
InformedLeader(u) ==
  /\ TypeOK /\ Phases
  /\ leader = u /\ pc[u] = "look" => view[u] = rollout
  /\ leader = u /\ minted[u] => Finished(rollout)

LEMMA FinishedStays ==
  ASSUME TypeOK, Next, rollout' = rollout, Finished(rollout)
  PROVE  Finished(rollout)'
<1>1. doneMarks \subseteq doneMarks'
  BY DEF Next, HookStep, Fault, Environment, markVars, MarkDone,
    BeginHook, LookUnmanaged, LookUnfinished, LookFinished, Mint, TurnDeclined, TurnTimesOut,
    StartCallback, StartMarkerFails, CallbackSucceeds, CallbackFails, Acknowledge,
    AcknowledgeFails, NotifyDone, ReadFails, Commit, CommitRefused, Crash, Observe,
    ChangeConfig, ChangeInput, Elect, Expect, Join, Depart
<1> QED BY <1>1 DEF Finished, AllCompleted, Completed, Participants

LEMMA InformedStep ==
  ASSUME NEW u \in Units, InformedLeader(u), [Next /\ ~ElectedMidLook(u)]_vars
  PROVE  InformedLeader(u)'
<1>1. TypeOK' /\ Phases'
  BY TypeStep DEF InformedLeader
<1> USE DEF InformedLeader
<1>2. CASE UNCHANGED vars
  BY <1>1, <1>2 DEF vars, markVars, envVars, relationVars, hookVars, Finished,
     AllCompleted, Completed, Participants
<1>3. ASSUME Next, ~ElectedMidLook(u),
             rollout' = rollout, view'[u] = view[u], minted'[u] => minted[u],
             pc'[u] = "look" => pc[u] = "look", leader' = u /\ minted[u] => leader = u
      PROVE  InformedLeader(u)'
  BY <1>1, <1>3, FinishedStays DEF ElectedMidLook
<1>4. ASSUME Next, leader' # u PROVE InformedLeader(u)'
  BY <1>1, <1>4
<1>5. ASSUME NEW v \in Units, HookStep(v) \/ Fault(v) \/ Observe(v), Next, ~ElectedMidLook(u)
      PROVE  InformedLeader(u)'
  <2> USE DEF TypeOK, markVars, envVars, relationVars, localVars, hookVars
  <2>1. CASE v = u /\ BeginHook(u)
    BY <1>1, <2>1 DEF BeginHook, Phases
  <2>2. CASE v = u /\ Mint(u)
    <3>1. Finished(rollout) /\ rollout' = rollout /\ pc'[u] = "turn"
      BY <2>2 DEF Mint
    <3> QED BY <1>1, <1>5, <3>1, FinishedStays
  <2>3. CASE v # u /\ Commit(v) /\ minted[v]
    BY <1>4, <1>5, <2>3 DEF Commit
  <2>4. CASE v = u /\ Commit(u)
    BY <1>1, <2>4 DEF Commit, EndHook
  <2>5. CASE v = u /\ (CommitRefused(u) \/ Crash(u))
    BY <1>1, <2>5 DEF CommitRefused, Crash, EndHook
  <2>6. CASE v # u /\ ~(Commit(v) /\ minted[v]) /\ HookStep(v)
    BY <1>3, <1>5, <2>6 DEF HookStep, BeginHook, LookUnmanaged, LookUnfinished,
      LookFinished, ReconcileUnmanaged, Leave, Mint, TurnDeclined, StartCallback,
      CallbackSucceeds, Acknowledge, NotifyDone, Commit, CommitRefused, EndHook
  <2>7. CASE v # u /\ (Fault(v) \/ Observe(v))
    BY <1>3, <1>5, <2>7 DEF Fault, Leave, StartMarkerFails, CallbackFails,
      AcknowledgeFails, TurnTimesOut, ReadFails, Crash, EndHook, Observe
  <2>8. CASE v = u /\ (LookUnmanaged(u) \/ LookUnfinished(u) \/ LookFinished(u)
                         \/ TurnDeclined(u) \/ StartCallback(u) \/ CallbackSucceeds(u)
                         \/ Acknowledge(u) \/ NotifyDone(u))
    BY <1>3, <1>5, <2>8 DEF LookUnmanaged, LookUnfinished, LookFinished,
      ReconcileUnmanaged, Leave, TurnDeclined, StartCallback, CallbackSucceeds,
      Acknowledge, NotifyDone
  <2>9. CASE v = u /\ (StartMarkerFails(u) \/ CallbackFails(u) \/ AcknowledgeFails(u)
                         \/ TurnTimesOut(u) \/ ReadFails(u) \/ Observe(u))
    BY <1>3, <1>5, <2>9 DEF Leave, StartMarkerFails, CallbackFails,
      AcknowledgeFails, TurnTimesOut, ReadFails, Observe
  <2> QED BY <1>5, <2>1, <2>2, <2>3, <2>4, <2>5, <2>6, <2>7, <2>8, <2>9
             DEF HookStep, Fault
<1>6. ASSUME Environment, Next, ~ElectedMidLook(u) PROVE InformedLeader(u)'
  BY <1>3, <1>4, <1>6 DEF Environment, ChangeConfig, ChangeInput, Elect, Expect, Join,
     Depart, markVars, envVars, relationVars, hookVars
<1> QED BY <1>2, <1>5, <1>6 DEF Next

(* A unit to which leadership never comes between its reading the rollout   *)
(* and its asking who leads publishes its generations over finished ones    *)
(* only, whatever the other units do, the leaders among them included.      *)
THEOREM InformedLeadersSupersedeNothing ==
  ASSUME NEW u \in Units
  PROVE  Spec /\ [][~ElectedMidLook(u)]_vars
           => [][Publishes(u) => Finished(rollout)]_vars
<1>1. Init => InformedLeader(u)
  BY TypeInit DEF Init, InformedLeader
<1>2. InformedLeader(u) /\ [Next]_vars /\ [~ElectedMidLook(u)]_vars => InformedLeader(u)'
  BY InformedStep
<1>3. InformedLeader(u) => [Publishes(u) => Finished(rollout)]_vars
  BY DEF InformedLeader, Publishes, Commit
<1> QED BY <1>1, <1>2, <1>3, PTL DEF Spec

(* So a new request never supersedes an unfinished generation where that    *)
(* happens to no unit.                                                      *)
THEOREM GenerationsKept ==
  Spec /\ [][\A u \in Units : ~ElectedMidLook(u)]_vars => NeverSuperseded
<1> DEFINE Informed == \A u \in Units : InformedLeader(u)
<1>1. Init => Informed
  BY TypeInit DEF Init, InformedLeader
<1>2. Informed /\ [Next]_vars /\ [\A u \in Units : ~ElectedMidLook(u)]_vars => Informed'
  BY InformedStep
<1>3. Informed /\ [Next]_vars
        => [rollout' # rollout /\ rollout # Nil
              => AllCompleted(rollout.id, Participants(rollout))]_vars
  <2> SUFFICES ASSUME Informed, Next, rollout' # rollout, rollout # Nil
               PROVE  AllCompleted(rollout.id, Participants(rollout))
    OBVIOUS
  <2>1. PICK u \in Units : Commit(u) /\ minted[u]
    BY DEF Next, HookStep, Fault, Environment, relationVars,
      BeginHook, LookUnmanaged, LookUnfinished, LookFinished, ReconcileUnmanaged, Mint, TurnDeclined, TurnTimesOut,
      StartCallback, StartMarkerFails, CallbackSucceeds, CallbackFails, Acknowledge,
      AcknowledgeFails, NotifyDone, ReadFails, Commit, CommitRefused, Crash, Observe,
      ChangeConfig, ChangeInput, Elect, Expect, Join, Depart
  <2> QED BY <2>1 DEF Commit, InformedLeader, Finished
<1> QED BY <1>1, <1>2, <1>3, PTL DEF Spec, NeverSuperseded

--------------------------------------------------------------------------------
(* Exclusive turns, for a fixed cohort *)

TurnParts == Cohorts /\ Token

LEMMA TurnInit == FixedCohort /\ Init => TurnInv
<1> SUFFICES ASSUME FixedCohort, Init PROVE TurnInv
  OBVIOUS
<1>1. Cohorts
  BY DEF FixedCohort, Init, Cohorts
<1>2. Token
  BY DEF Init, Token, Working
<1> QED BY <1>1, <1>2, GenerationInit DEF TurnInv

(* The token is unique.                                                     *)
LEMMA OneToken ==
  ASSUME TurnInv, NEW u \in Units, NEW v \in Units, Working(u), Working(v)
  PROVE  u = v
<1>1. HasToken(u) /\ HasToken(v) /\ u \in Joined /\ v \in Joined
  BY DEF TurnInv, Token, Working, Joined
<1>2. Rank[u] \in Int /\ Rank[v] \in Int
  BY RankAssumption
<1>3. CASE Finished(rollout)
  BY <1>1, <1>2, <1>3, RankAssumption DEF HasToken, Firstmost
<1>4. CASE ~Finished(rollout)
  <2>1. u \in Participants(rollout) /\ v \in Participants(rollout)
    BY <1>1, <1>4 DEF TurnInv, Cohorts, Finished
  <2>2. ~(Rank[u] < Rank[v]) /\ ~(Rank[v] < Rank[u])
    BY <1>1, <1>4, <2>1 DEF HasToken, Admitted, AllCompleted, Predecessors
  <2> QED BY <1>2, <2>2, RankAssumption
<1> QED BY <1>3, <1>4

(* A unit that is admitted holds the token, in the published generation or  *)
(* in one it has minted itself.                                             *)
LEMMA AdmittedHoldsToken ==
  ASSUME TurnInv, NEW u \in Units, HasTurn(u)
  PROVE  /\ HasToken(u)
         /\ \A w \in Units : minted[w] /\ leader = w => Firstmost(u, Participants(view[w]))
<1> USE DEF HasTurn, TurnInv
<1>1. CASE ~minted[u]
  <2>1. view[u] = rollout /\ ~Finished(rollout)
    BY <1>1 DEF GenerationInv, Phases, Currency, Finished, AllCompleted
  <2> QED BY <2>1 DEF HasToken, GenerationInv, Currency
<1>2. CASE minted[u]
  <2>1. \A v \in Units : ~Completed(view[u].id, v)
    BY <1>2 DEF GenerationInv, MintedMarks
  <2>2. Participants(view[u]) \subseteq Units
    BY DEF GenerationInv, TypeOK, Phases, Participants, Rollouts
  <2>3. \A v \in Participants(view[u]) : ~(Rank[v] < Rank[u])
    BY <2>1, <2>2 DEF Admitted, AllCompleted, Predecessors
  <2>4. Firstmost(u, Participants(view[u]))
    BY <2>2, <2>3, RankAssumption DEF Firstmost
  <2>5. Joined \subseteq Participants(view[u])
    BY <1>2 DEF Cohorts, GenerationInv, Phases
  <2>6. HasToken(u)
    BY <1>2, <2>3, <2>4, <2>5 DEF HasToken, Firstmost, Cohorts, Admitted, AllCompleted, Predecessors
  <2> QED BY <1>2, <2>4, <2>6 DEF Cohorts, Firstmost
<1> QED BY <1>1, <1>2

(* A step that leaves generations, marks and leader alone, and after which  *)
(* nobody works who had no right to.                                        *)
LEMMA QuietTurn ==
  ASSUME TurnInv, UNCHANGED <<rollout, view, minted, doneMarks, leader>>,
         \A v \in Units : life'[v] = life[v] \/ life'[v] = "gone",
         \A v \in Units : Working(v)' =>
           /\ life[v] = "joined"
           /\ \/ Working(v)
              \/ /\ HasToken(v)
                 /\ \A w \in Units : minted[w] /\ leader = w =>
                      Firstmost(v, Participants(view[w]))
  PROVE  TurnParts'
<1>0. Joined' \subseteq Joined
  BY DEF TurnInv, Cohorts, Joined
<1> USE DEF TurnInv, Participants, Completed, AllCompleted, Finished
<1>1. Cohorts'
  BY <1>0 DEF Cohorts
<1>2. \A v \in Units : HasToken(v) => HasToken(v)'
  BY <1>0 DEF HasToken, Firstmost, Admitted, Predecessors
<1>3. Token'
  BY <1>2 DEF Token, Firstmost
<1> QED BY <1>1, <1>3 DEF TurnParts

LEMMA TurnStep ==
  ASSUME LeadershipSettled, TurnInv, [Next]_vars
  PROVE  TurnInv'
<1> USE DEF markVars, localVars, relationVars, hostVars, envVars, hookVars
<1>0. GenerationInv /\ GenerationInv'
  BY GenerationStep DEF TurnInv
<1> SUFFICES TurnParts'
  BY <1>0 DEF TurnInv, TurnParts
<1>1. ASSUME NEW u \in Units,
             \/ LookUnmanaged(u) \/ LookUnfinished(u) \/ LookFinished(u)
             \/ TurnDeclined(u) \/ TurnTimesOut(u) \/ StartMarkerFails(u)
             \/ CallbackSucceeds(u) \/ CallbackFails(u) \/ NotifyDone(u) \/ ReadFails(u)
             \/ Observe(u) \/ ChangeInput(u)
      PROVE  TurnParts'
  <2>1. UNCHANGED <<rollout, view, minted, doneMarks, leader, life>>
    BY <1>1 DEF LookUnmanaged, LookUnfinished, LookFinished, ReconcileUnmanaged, TurnDeclined, TurnTimesOut,
                StartMarkerFails, CallbackSucceeds, CallbackFails, NotifyDone, ReadFails,
                Observe, ChangeInput
  <2>2. CASE LookUnfinished(u) \/ CallbackSucceeds(u) \/ CallbackFails(u)
    BY <2>1, <2>2, QuietTurn, InterruptedType
    DEF LookUnfinished, CallbackSucceeds, CallbackFails, Leave, Working, TurnInv, GenerationInv, TypeOK
  <2>3. CASE \/ LookUnmanaged(u) \/ LookFinished(u) \/ TurnDeclined(u) \/ TurnTimesOut(u)
             \/ StartMarkerFails(u) \/ NotifyDone(u) \/ ReadFails(u)
    <3>1. pc' = [pc EXCEPT ![u] = "commit"] /\ dirty' = dirty
      BY <2>3 DEF LookUnmanaged, LookFinished, ReconcileUnmanaged, TurnDeclined, TurnTimesOut, StartMarkerFails,
                  NotifyDone, ReadFails, Leave
    <3> QED BY <2>1, <3>1, QuietTurn DEF Working, TurnInv, GenerationInv, TypeOK
  <2>4. CASE Observe(u) \/ ChangeInput(u)
    BY <2>1, <2>4, QuietTurn DEF Observe, ChangeInput, Working
  <2> QED BY <1>1, <2>2, <2>3, <2>4
<1>2. ASSUME NEW u \in Units, StartCallback(u) PROVE TurnParts'
  <2>1. /\ UNCHANGED <<rollout, view, minted, doneMarks, leader, life, dirty>>
        /\ pc' = [pc EXCEPT ![u] = "running"] /\ HasTurn(u)
    BY <1>2 DEF StartCallback
  <2> QED BY <2>1, QuietTurn, AdmittedHoldsToken DEF Working, TurnInv, GenerationInv, TypeOK
<1>3. ASSUME NEW u \in Units, Expect(u) \/ Join(u) \/ Depart(u) PROVE TurnParts'
  BY <1>3, QuietTurn DEF Expect, Join, Depart, Working, TurnInv, Cohorts, GenerationInv, TypeOK
<1>4. ASSUME NEW c \in Configs, ChangeConfig(c) PROVE TurnParts'
  BY <1>4, QuietTurn DEF ChangeConfig, Working
<1>5. CASE UNCHANGED vars
  BY <1>5, QuietTurn DEF vars, Working
<1>6. ASSUME NEW u \in Units, BeginHook(u) PROVE TurnParts'
  <2> USE <1>6 DEF BeginHook, TurnInv, GenerationInv, TypeOK, Phases, Participants, Joined
  <2>1. Cohorts'
    BY DEF Cohorts, Finished, AllCompleted, Completed
  <2>2. Token'
    BY DEF Token, Working, HasToken, Firstmost, Admitted, AllCompleted, Completed, Finished, Predecessors
  <2> QED BY <2>1, <2>2 DEF TurnParts
<1>7. ASSUME NEW u \in Units, Mint(u) PROVE TurnParts'
  <2> DEFINE g == [id |-> lastGen + 1, requests |-> RequestsSeenBy(u)]
  <2>1. /\ view' = [view EXCEPT ![u] = g] /\ minted' = [minted EXCEPT ![u] = TRUE]
        /\ Participants(g) = Joined /\ ~minted[u] /\ leader = u /\ Finished(rollout)
    BY <1>7 DEF Mint, RequestsSeenBy, Participants, TurnInv, GenerationInv, Phases, Currency
  <2>2. UNCHANGED <<rollout, doneMarks, leader, life, dirty>> /\ pc' = [pc EXCEPT ![u] = "turn"] /\ pc[u] = "look"
    BY <1>7 DEF Mint
  <2> HIDE DEF g
  <2> USE <2>1, <2>2 DEF TurnInv, GenerationInv, TypeOK, Phases
  <2>3. Joined' = Joined /\ Finished(rollout)'
    BY DEF Joined, Finished, AllCompleted, Completed
  <2>4. Cohorts'
    BY <2>3 DEF Cohorts, Participants
  <2>5. \A v \in Units : Working(v)' => Working(v) /\ Firstmost(v, Joined)
    BY DEF Working, Token, HasToken
  <2>6. Token'
    BY <2>3, <2>5 DEF Token, HasToken, Firstmost, Participants
  <2> QED BY <2>4, <2>6 DEF TurnParts
<1>8. ASSUME NEW u \in Units, Commit(u), minted[u] PROVE TurnParts'
  <2>1. /\ rollout' = view[u] /\ leader = u /\ pc[u] = "commit" /\ EndHook(u)
        /\ UNCHANGED <<doneMarks, leader, life, dirty>>
    BY <1>8 DEF Commit
  <2> USE <1>8, <2>1 DEF EndHook, TurnInv, GenerationInv, TypeOK, Phases
  <2>2. Joined' = Joined
    BY DEF Joined
  <2>3. Cohorts'
    BY <2>2 DEF Cohorts, Participants, MintedMarks, Completed
  <2>4. ASSUME NEW v \in Units, Working(v)' PROVE HasToken(v)'
    <3>1. Working(v) /\ Firstmost(v, Participants(view[u]))
      BY <2>4 DEF Working, Token
    <3>2. ~Completed(view[u].id, v)
      BY <3>1 DEF MintedMarks, Working
    <3>3. Participants(view[u]) \subseteq Units /\ Joined \subseteq Participants(view[u])
      BY DEF Cohorts, Participants, Rollouts
    <3>4. Predecessors(Participants(view[u]), v) = {}
      <4>1. \A x \in Participants(view[u]) : Rank[x] \in Int /\ Rank[v] \in Int /\ Rank[v] <= Rank[x]
        BY <3>1, <3>3, RankAssumption DEF Firstmost
      <4>2. \A x \in Participants(view[u]) : ~(Rank[x] < Rank[v])
        BY ONLY <4>1, SMT
      <4> QED BY <4>2 DEF Predecessors
    <3> QED BY <2>2, <3>1, <3>2, <3>3, <3>4 DEF HasToken, Firstmost, Admitted, AllCompleted, Completed, Predecessors, Participants
  <2>5. Token'
    BY <2>4 DEF Token
  <2> QED BY <2>3, <2>5 DEF TurnParts
<1>9. ASSUME NEW u \in Units, CommitRefused(u) \/ Crash(u) \/ (Commit(u) /\ ~minted[u]) PROVE TurnParts'
  <2>1. /\ UNCHANGED <<rollout, doneMarks, leader, life>> /\ EndHook(u)
        /\ \A v \in Units : Working(v)' => Working(v)
    BY <1>9, InterruptedType DEF CommitRefused, Crash, Commit, EndHook, Working, TurnInv, GenerationInv, TypeOK
  <2> USE <2>1 DEF EndHook, TurnInv, GenerationInv, TypeOK, Phases
  <2>2. Joined' = Joined
    BY DEF Joined
  <2>3. Cohorts'
    BY <2>2 DEF Cohorts, Participants, Finished, AllCompleted, Completed
  <2>4. Token'
    BY <2>2 DEF Token, HasToken, Firstmost, Admitted, AllCompleted, Completed, Predecessors, Participants, Finished
  <2> QED BY <2>3, <2>4 DEF TurnParts
<1>10. ASSUME NEW u \in Units, Elect(u) PROVE TurnParts'
  <2> USE <1>10 DEF Elect, TurnInv, GenerationInv, TypeOK, Phases
  <2>1. Joined' = Joined
    BY DEF Joined
  <2>2. Cohorts'
    BY <2>1 DEF Cohorts, Participants, Finished, AllCompleted, Completed
  <2>3. Token'
    BY <2>1 DEF Token, Working, HasToken, Firstmost, Admitted, AllCompleted, Completed, Predecessors, Participants, Finished
  <2> QED BY <2>2, <2>3 DEF TurnParts
<1>11. ASSUME NEW u \in Units, Acknowledge(u) \/ AcknowledgeFails(u) PROVE TurnParts'
  <2>1. /\ UNCHANGED <<rollout, view, minted, leader, dirty, life>>
        /\ pc[u] = "ack" /\ ~dirty[u] /\ view[u] # Nil
        /\ pc' = [pc EXCEPT ![u] = "notify"] \/ pc' = [pc EXCEPT ![u] = "commit"]
        /\ doneMarks' = doneMarks \/ doneMarks' = doneMarks \cup {<<view[u].id, u>>}
    BY <1>11 DEF Acknowledge, AcknowledgeFails, MarkDone, Leave, TurnInv, GenerationInv, Phases
  <2> USE <2>1 DEF TurnInv, GenerationInv, TypeOK
  <2>2. Joined' = Joined
    BY DEF Joined
  <2>3. \A g, v : v \in Units \ {u} => (Completed(g, v)' <=> Completed(g, v))
    BY DEF Completed
  <2>4. Finished(rollout) => Finished(rollout)'
    BY DEF Finished, AllCompleted, Completed, Participants
  <2>5. Cohorts'
    <3>1. ASSUME NEW v \in Units, minted[v], ~Finished(rollout)'
          PROVE  /\ ~Finished(rollout)
                 /\ ~Completed(rollout.id, v)'
      <4>1. ~Finished(rollout) /\ rollout # Nil /\ ~Completed(rollout.id, v)
        BY <2>4, <3>1 DEF Cohorts, Finished
      <4>2. CASE v = u
        BY <3>1, <4>1, <4>2 DEF Identifiers, Completed
      <4>3. CASE v # u
        BY <2>3, <4>1, <4>3
      <4> QED BY <4>1, <4>2, <4>3
    <3> QED BY <2>2, <3>1 DEF Cohorts, Participants
  <2>6. ASSUME NEW v \in Units, Working(v)' PROVE Working(v) /\ v # u /\ HasToken(v)'
    <3>1. Working(v) /\ v # u /\ HasToken(v)
      BY <2>6 DEF Working, Token
    <3>2. CASE Finished(rollout)
      BY <2>2, <2>4, <3>1, <3>2 DEF HasToken, Firstmost
    <3>3. CASE ~Finished(rollout)
      <4>1. v \in Participants(rollout) /\ ~Completed(rollout.id, v)
        BY <3>1, <3>3 DEF HasToken, Cohorts, Working, Joined, Finished
      <4>2. ~Finished(rollout)'
        BY <2>3, <3>1, <3>3, <4>1 DEF Finished, AllCompleted, Participants
      <4>3. Admitted(rollout.id, Participants(rollout), v)'
        BY <3>1, <3>3 DEF HasToken, Admitted, AllCompleted, Predecessors, Completed, Participants
      <4> QED BY <2>3, <3>1, <4>1, <4>2, <4>3 DEF HasToken
    <3> QED BY <3>1, <3>2, <3>3
  <2>7. Token'
    BY <2>6 DEF Token, Firstmost, Participants
  <2> QED BY <2>5, <2>7 DEF TurnParts
<1> QED
  BY <1>1, <1>2, <1>3, <1>4, <1>5, <1>6, <1>7, <1>8, <1>9, <1>10, <1>11
  DEF Next, HookStep, Fault, Environment

(* The inductive invariant behind the turns: whoever works, or may, holds   *)
(* the one token, also in a generation that nobody else can see yet.        *)
THEOREM TurnInvariant == LeadershipSettled /\ FixedCohort => (Spec => []TurnInv)
<1> SUFFICES ASSUME LeadershipSettled, FixedCohort PROVE Spec => []TurnInv
  OBVIOUS
<1>1. Init => TurnInv
  BY TurnInit
<1>2. TurnInv /\ [Next]_vars => TurnInv'
  BY TurnStep
<1> QED BY <1>1, <1>2, PTL DEF Spec

(* "Only one participant in the application proceeds at a time": over the   *)
(* steps of any number of hosts, hooks that die, leaders that change and    *)
(* units that leave, if nobody joins and leadership does not move to a unit *)
(* while its hook decides.                                                  *)
THEOREM TurnsExclusive == LeadershipSettled /\ FixedCohort => (Spec => []Serialized)
<1> SUFFICES ASSUME LeadershipSettled, FixedCohort PROVE Spec => []Serialized
  OBVIOUS
<1>1. TurnInv => Serialized
  BY OneToken DEF Serialized
<1> QED BY <1>1, TurnInvariant, PTL

--------------------------------------------------------------------------------
(* What was carried out *)

LEMMA RequestInit == Init => RequestInv
<1> SUFFICES ASSUME Init PROVE RequestInv
  OBVIOUS
<1>1. TypeOK /\ Phases
  BY TypeInit
<1>2. InUse = {}
  BY DEF Init, InUse
<1>3. Bounded /\ Nonces /\ MarksMean
  BY <1>2 DEF Init, Bounded, Nonces, MarksMean
<1>4. PlaceMeans /\ StatusMeans
  BY DEF Init, PlaceMeans, StatusMeans
<1> QED BY <1>1, <1>3, <1>4 DEF RequestInv, CarriedOut

LEMMA InUseType ==
  ASSUME TypeOK, NEW g \in InUse
  PROVE  /\ g.id \in Nat /\ Participants(g) \subseteq Units
         /\ \A u \in Participants(g) : g.requests[u] \in Request
<1>1. \E S \in SUBSET Units : g \in Rollouts(S)
  BY DEF InUse, TypeOK
<1> QED BY <1>1 DEF Rollouts, Participants

(* A step that makes no generation, request or mark keeps what they mean,   *)
(* if what was carried out stays so and nothing else is said to be.         *)
LEMMA MeaningKept ==
  ASSUME RequestInv, UNCHANGED <<rollout, lastGen, req, pubReq, doneMarks>>,
         \A v \in Units : view'[v] \in {view[v], rollout, Nil},
         \A v \in Units : applied[v] = req[v].id => applied'[v] = req[v].id,
         PlaceMeans', StatusMeans'
  PROVE  (Bounded /\ Nonces /\ CarriedOut)'
<1>1. InUse' \subseteq InUse
  BY DEF InUse
<1>2. Bounded'
  BY <1>1 DEF RequestInv, Bounded
<1>3. Nonces'
  <2>1. \A r, v : Older(r, v) => Older(r, v)'
    BY DEF Older
  <2>2. \A g \in InUse' : \A v \in Participants(g) : Older(g.requests[v], v)'
    BY <1>1, <2>1 DEF RequestInv, Nonces
  <2>3. (\A v \in Units : pubReq[v] # Nil => Older(pubReq[v], v))'
    BY DEF RequestInv, Nonces, Older
  <2> QED BY <2>2, <2>3 DEF Nonces, Participants
<1>4. MarksMean'
  <2> SUFFICES ASSUME NEW g \in InUse', NEW v \in Participants(g),
                      Completed(g.id, v)', g.requests[v] = req[v]
               PROVE  applied'[v] = req[v].id
    BY DEF MarksMean, Participants
  <2>1. g \in InUse /\ Completed(g.id, v)
    BY <1>1 DEF Completed
  <2>2. v \in Units
    BY <2>1, InUseType DEF RequestInv
  <2> QED BY <2>1, <2>2 DEF RequestInv, CarriedOut, MarksMean
<1> QED BY <1>2, <1>3, <1>4 DEF CarriedOut

(* A unit's hook goes on, or stops, within the generation it works on.      *)
LEMMA HookMeans ==
  ASSUME RequestInv, NEW u \in Units, UNCHANGED <<rollout, lastGen, req, pubReq, view, doneMarks, life, wake>>,
         \A v \in Units \ {u} : pc'[v] = pc[v] /\ status'[v] = status[v] /\ applied'[v] = applied[v],
         life[u] = "joined", applied[u] = req[u].id => applied'[u] = req[u].id,
         pc'[u] \in {"ack", "notify"} => applied'[u] = req[u].id,
         status'[u] = "complete" /\ pc'[u] \in {"commit", "idle"} => applied'[u] = req[u].id
  PROVE  (Bounded /\ Nonces /\ CarriedOut)'
<1>1. PlaceMeans'
  BY DEF RequestInv, CarriedOut, PlaceMeans
<1>2. StatusMeans'
  BY DEF RequestInv, CarriedOut, StatusMeans
<1> QED BY <1>1, <1>2, MeaningKept

(* A hook that finds its own request done in a generation has carried it out.*)
LEMMA FoundDone ==
  ASSUME RequestInv, NEW u \in Units, view[u] # Nil, u \in Participants(view[u]),
         Completed(view[u].id, u), view[u].requests[u] = req[u]
  PROVE  applied[u] = req[u].id
  BY DEF RequestInv, CarriedOut, MarksMean, InUse

LEMMA HookStepMeans ==
  ASSUME RequestInv, NEW u \in Units,
         \/ LookUnmanaged(u) \/ LookUnfinished(u) \/ LookFinished(u)
         \/ TurnDeclined(u) \/ TurnTimesOut(u) \/ StartCallback(u) \/ StartMarkerFails(u)
         \/ CallbackSucceeds(u) \/ CallbackFails(u) \/ NotifyDone(u)
         \/ ReadFails(u) \/ Observe(u)
  PROVE  (Bounded /\ Nonces /\ CarriedOut)'
<1> USE DEF markVars, localVars, relationVars, hostVars, envVars, hookVars
<1>1. UNCHANGED <<rollout, lastGen, req, pubReq, view, doneMarks, life, wake>>
  BY DEF LookUnmanaged, LookUnfinished, LookFinished, ReconcileUnmanaged, TurnDeclined, TurnTimesOut,
         StartCallback, StartMarkerFails, CallbackSucceeds, CallbackFails, NotifyDone, ReadFails, Observe
<1>2. \A v \in Units \ {u} : pc'[v] = pc[v] /\ status'[v] = status[v] /\ applied'[v] = applied[v]
  BY DEF LookUnmanaged, LookUnfinished, LookFinished, ReconcileUnmanaged, TurnDeclined, TurnTimesOut,
         StartCallback, StartMarkerFails, CallbackSucceeds, CallbackFails, NotifyDone, ReadFails, Observe,
         Leave, RequestInv, TypeOK
<1>3. life[u] = "joined"
  BY DEF LookUnmanaged, LookUnfinished, LookFinished, TurnDeclined, TurnTimesOut, HasTurn,
         StartCallback, StartMarkerFails, CallbackSucceeds, CallbackFails, NotifyDone, ReadFails, Observe,
         RequestInv, Phases
<1>4. applied' = applied \/ applied' = [applied EXCEPT ![u] = req[u].id]
  BY DEF LookUnmanaged, LookUnfinished, LookFinished, ReconcileUnmanaged, TurnDeclined, TurnTimesOut,
         StartCallback, StartMarkerFails, CallbackSucceeds, CallbackFails, NotifyDone, ReadFails, Observe
<1>5. applied[u] = req[u].id => applied'[u] = req[u].id
  BY <1>4 DEF RequestInv, TypeOK
<1>6. pc'[u] \in {"ack", "notify"} => applied'[u] = req[u].id
  <2>1. pc'[u] \in {"ack", "notify"} => CallbackSucceeds(u)
    BY DEF LookUnmanaged, LookUnfinished, LookFinished, ReconcileUnmanaged, TurnDeclined, TurnTimesOut,
         StartCallback, StartMarkerFails, CallbackFails, NotifyDone, ReadFails, Observe,
         Leave, RequestInv, TypeOK
  <2> QED BY <2>1 DEF CallbackSucceeds, RequestInv, TypeOK
<1>7. ASSUME status'[u] = "complete", pc'[u] \in {"commit", "idle"} PROVE applied'[u] = req[u].id
  <2>1. CASE LookUnmanaged(u)
    BY <1>7, <2>1 DEF LookUnmanaged, ReconcileUnmanaged, Leave, RequestInv, TypeOK
  <2>2. CASE LookFinished(u)
    <3>1. CASE AllPeersReady(u) /\ NothingNew(u)
      <4>1. u \in Joined
        BY <1>3 DEF Joined
      <4>2. view[u] # Nil /\ RequestsSeenBy(u) = view[u].requests
        BY <3>1 DEF NothingNew
      <4>3. u \in Participants(view[u]) /\ view[u].requests[u] = req[u]
        BY <4>1, <4>2 DEF RequestsSeenBy, Participants
      <4>4. Completed(view[u].id, u)
        BY <2>2, <4>2, <4>3 DEF LookFinished, Finished, AllCompleted
      <4> QED BY <1>5, <4>2, <4>3, <4>4, FoundDone
    <3>2. CASE ReconcileUnmanaged(u)
      BY <1>7, <3>2 DEF ReconcileUnmanaged, Leave, RequestInv, TypeOK
    <3>3. CASE Leave(u, "waiting")
      BY <1>7, <3>3 DEF Leave, RequestInv, TypeOK
    <3> QED BY <2>2, <3>1, <3>2, <3>3 DEF LookFinished
  <2>3. CASE TurnDeclined(u)
    <3>1. view[u] # Nil
      BY <2>3 DEF TurnDeclined, RequestInv, Phases
    <3>2. CASE u \in Participants(view[u]) /\ Completed(view[u].id, u) /\ Leave(u, CompletedStatus(u))
      <4>1. view[u].requests[u] = req[u]
        BY <1>7, <3>2 DEF CompletedStatus, Leave, RequestInv, TypeOK
      <4> QED BY <1>5, <3>1, <3>2, <4>1, FoundDone
    <3>3. CASE ~(u \in Participants(view[u]) /\ Completed(view[u].id, u))
      BY <1>7, <2>3, <3>3 DEF TurnDeclined, Leave, BlockedStatus, RequestInv, TypeOK
    <3> QED BY <2>3, <3>2, <3>3 DEF TurnDeclined
  <2>4. CASE NotifyDone(u)
    BY <1>5, <2>4 DEF NotifyDone, RequestInv, CarriedOut, PlaceMeans
  <2>5. CASE LookUnfinished(u) \/ StartCallback(u) \/ CallbackSucceeds(u)
    BY <1>7, <2>5 DEF LookUnfinished, StartCallback, CallbackSucceeds, RequestInv, TypeOK
  <2>6. CASE TurnTimesOut(u) \/ StartMarkerFails(u) \/ CallbackFails(u) \/ ReadFails(u)
    BY <1>7, <2>6 DEF TurnTimesOut, StartMarkerFails, CallbackFails, ReadFails, Leave, RequestInv, TypeOK
  <2>7. CASE Observe(u)
    BY <1>7, <2>7 DEF Observe, BlockedStatus, RequestInv, TypeOK
  <2> QED BY <2>1, <2>2, <2>3, <2>4, <2>5, <2>6, <2>7
<1> QED BY <1>1, <1>2, <1>3, <1>5, <1>6, <1>7, HookMeans

(* What other units, operators and Juju do makes no request look done.      *)
LEMMA EnvironmentMeans ==
  ASSUME RequestInv, Environment PROVE (Bounded /\ Nonces /\ CarriedOut)'
<1>1. UNCHANGED <<rollout, lastGen, req, pubReq, view, doneMarks, pc, status, applied>>
  BY DEF Environment, ChangeConfig, ChangeInput, Elect, Expect, Join, Depart, markVars,
         localVars, relationVars, hookVars, hostVars
<1>2. \A v \in Units :
        /\ life'[v] = "joined" => life[v] \in {"joined", "expected"}
        /\ life'[v] \in {"absent", "expected"} => life[v] \in {"absent", "expected"}
        /\ life'[v] = "joined" /\ life[v] = "joined" /\ "retry" \in wake[v] => "retry" \in wake'[v]
  <2> USE DEF RequestInv, TypeOK
  <2>1. CASE \E c \in Configs : ChangeConfig(c)
    BY <2>1 DEF ChangeConfig
  <2>2. CASE \E u \in Units : ChangeInput(u)
    BY <2>2 DEF ChangeInput
  <2>3. CASE \E u \in Units : Elect(u)
    BY <2>3 DEF Elect
  <2>4. CASE \E u \in Units : Expect(u)
    BY <2>4 DEF Expect
  <2>5. CASE \E u \in Units : Join(u)
    BY <2>5 DEF Join
  <2>6. CASE \E u \in Units : Depart(u)
    BY <2>6 DEF Depart
  <2> QED BY <2>1, <2>2, <2>3, <2>4, <2>5, <2>6 DEF Environment
<1>3. PlaceMeans'
  BY <1>1 DEF RequestInv, CarriedOut, PlaceMeans
<1>4. StatusMeans'
  BY <1>1, <1>2 DEF RequestInv, CarriedOut, StatusMeans
<1> QED BY <1>1, <1>3, <1>4, MeaningKept

(* A hook that dies or is refused will be run again.                        *)
LEMMA StoppedMeans ==
  ASSUME RequestInv, NEW u \in Units, CommitRefused(u) \/ Crash(u)
  PROVE  (Bounded /\ Nonces /\ CarriedOut)'
<1>1. /\ UNCHANGED <<rollout, lastGen, req, pubReq, doneMarks, life, status, applied>>
      /\ wake' = [wake EXCEPT ![u] = @ \cup {"retry"}]
      /\ pc' = [pc EXCEPT ![u] = "idle"] /\ view' = [view EXCEPT ![u] = Nil]
  BY DEF CommitRefused, Crash, EndHook, markVars, envVars, localVars, relationVars, hostVars
<1>2. \A v \in Units : view'[v] \in {view[v], Nil}
  BY <1>1 DEF RequestInv, TypeOK
<1>3. PlaceMeans'
  BY <1>1 DEF RequestInv, TypeOK, CarriedOut, PlaceMeans
<1>4. StatusMeans'
  BY <1>1 DEF RequestInv, TypeOK, CarriedOut, StatusMeans
<1> QED BY <1>1, <1>2, <1>3, <1>4, MeaningKept

(* The mark is written by a unit that has just carried its request out.     *)
LEMMA AcknowledgeMeans ==
  ASSUME RequestInv, NEW u \in Units, Acknowledge(u) \/ AcknowledgeFails(u)
  PROVE  (Bounded /\ Nonces /\ CarriedOut)'
<1>1. /\ UNCHANGED <<rollout, lastGen, req, pubReq, view, life, wake, applied>>
      /\ pc[u] = "ack" /\ doneMarks' \subseteq doneMarks \cup {<<view[u].id, u>>}
      /\ \A v \in Units \ {u} : pc'[v] = pc[v] /\ status'[v] = status[v]
      /\ pc'[u] \in {"notify", "commit"}
  BY DEF Acknowledge, AcknowledgeFails, MarkDone, Leave, RequestInv, TypeOK,
         envVars, localVars, relationVars, hookVars, hostVars
<1>2. applied[u] = req[u].id /\ life[u] = "joined" /\ view[u] \in InUse
  BY <1>1 DEF RequestInv, CarriedOut, PlaceMeans, Phases, InUse
<1>3. InUse' = InUse
  BY <1>1 DEF InUse
<1>4. Bounded'
  BY <1>1, <1>2, <1>3 DEF RequestInv, Bounded
<1>5. Nonces'
  BY <1>1, <1>3 DEF RequestInv, Nonces, Older, Participants
<1>6. MarksMean'
  <2> SUFFICES ASSUME NEW g \in InUse, NEW v \in Participants(g),
                      Completed(g.id, v)', g.requests[v] = req[v]
               PROVE  applied[v] = req[v].id
    BY <1>1, <1>3 DEF MarksMean, Participants
  <2>1. Completed(g.id, v) \/ v = u
    BY <1>1 DEF Completed
  <2> QED BY <1>2, <2>1 DEF RequestInv, CarriedOut, MarksMean
<1>7. PlaceMeans'
  BY <1>1, <1>2 DEF RequestInv, CarriedOut, PlaceMeans
<1>8. StatusMeans'
  BY <1>1, <1>2 DEF RequestInv, CarriedOut, StatusMeans
<1> QED BY <1>4, <1>5, <1>6, <1>7, <1>8 DEF CarriedOut

(* A new request has an id that no generation has for the unit.             *)
LEMMA BeginMeans ==
  ASSUME RequestInv, NEW u \in Units, BeginHook(u)
  PROVE  (Bounded /\ Nonces /\ CarriedOut)'
<1>1. /\ UNCHANGED <<rollout, lastGen, pubReq, doneMarks, life, status, applied>>
      /\ req' = [req EXCEPT ![u] = RequestOf(u)]
      /\ view' = [view EXCEPT ![u] = rollout] /\ pc' = [pc EXCEPT ![u] = "look"]
      /\ life[u] = "joined" /\ \A v \in Units \ {u} : wake'[v] = wake[v]
  BY DEF BeginHook, markVars, envVars, localVars, relationVars, hookVars, hostVars, RequestInv, TypeOK
<1>2. /\ RequestOf(u) \in Request
      /\ RequestOf(u) = req[u] \/ req[u] = Nil \/ RequestOf(u).id = req[u].id + 1
  BY RequestOfType DEF RequestInv, RequestOf
<1>3. InUse' \subseteq InUse
  BY <1>1 DEF InUse, RequestInv, TypeOK
<1>4. /\ req'[u] = RequestOf(u) /\ \A v \in Units \ {u} : req'[v] = req[v]
  BY <1>1 DEF RequestInv, TypeOK
<1>5. ASSUME NEW r \in Request, NEW v \in Units, Older(r, v)
      PROVE  /\ Older(r, v)'
             /\ r = req'[v] => r = req[v]
  <2>1. req[v] \in Request /\ r.id \in Nat /\ req[v].id \in Nat /\ r.id <= req[v].id
    BY <1>5 DEF Older, Request
  <2>2. req[v] # Nil
    BY <1>5, NilAssumption DEF Older
  <2>3. CASE v # u
    BY <1>4, <1>5, <2>3 DEF Older
  <2>4. CASE v = u /\ RequestOf(u) = req[u]
    BY <1>4, <1>5, <2>4 DEF Older
  <2>5. CASE v = u /\ RequestOf(u).id = req[u].id + 1
    <3>1. r.id < req'[v].id /\ req'[v] \in Request
      BY <1>2, <1>4, <2>1, <2>5
    <3>2. r.id <= req'[v].id /\ r.id # req'[v].id
      BY <2>1, <3>1 DEF Request
    <3> QED BY <3>1, <3>2 DEF Older
  <2> QED BY <1>2, <2>2, <2>3, <2>4, <2>5
<1>6. Bounded'
  BY <1>1, <1>3 DEF RequestInv, Bounded
<1>7. \A g \in InUse : \A v \in Participants(g) :
        v \in Units /\ g.requests[v] \in Request /\ Older(g.requests[v], v)
  BY InUseType DEF RequestInv, Nonces
<1>8. Nonces'
  <2>1. (\A v \in Units : pubReq[v] # Nil => Older(pubReq[v], v))'
    BY <1>1, <1>5 DEF RequestInv, TypeOK, Nonces
  <2>2. \A g \in InUse' : \A v \in Participants(g) : Older(g.requests[v], v)'
    BY <1>3, <1>5, <1>7
  <2> QED BY <2>1, <2>2 DEF Nonces, Participants
<1>9. MarksMean'
  <2> SUFFICES ASSUME NEW g \in InUse, NEW v \in Participants(g),
                      Completed(g.id, v), g.requests[v] = req'[v]
               PROVE  applied[v] = req'[v].id
    BY <1>1, <1>3 DEF MarksMean, Participants, Completed
  <2>1. g.requests[v] = req[v]
    BY <1>5, <1>7
  <2> QED BY <2>1 DEF RequestInv, CarriedOut, MarksMean
<1>10. PlaceMeans'
  BY <1>1, <1>4 DEF RequestInv, TypeOK, CarriedOut, PlaceMeans
<1>11. StatusMeans'
  BY <1>1, <1>4 DEF RequestInv, TypeOK, CarriedOut, StatusMeans
<1> QED BY <1>6, <1>8, <1>9, <1>10, <1>11 DEF CarriedOut

(* A generation that is minted is of requests that units have, or had; it   *)
(* has no marks.                                                            *)
LEMMA MintMeans ==
  ASSUME RequestInv, NEW u \in Units, Mint(u)
  PROVE  (Bounded /\ Nonces /\ CarriedOut)'
<1> DEFINE new == [id |-> lastGen + 1, requests |-> RequestsSeenBy(u)]
<1>1. /\ UNCHANGED <<rollout, req, pubReq, doneMarks, life, status, applied, wake>>
      /\ lastGen' = lastGen + 1 /\ view' = [view EXCEPT ![u] = new]
      /\ pc[u] = "look" /\ pc' = [pc EXCEPT ![u] = "turn"] /\ AllPeersReady(u)
  BY DEF Mint, markVars, envVars, localVars, relationVars, hookVars, hostVars
<1>2. new.id = lastGen + 1 /\ Participants(new) = Joined /\ new.requests = RequestsSeenBy(u)
  BY DEF Participants, RequestsSeenBy
<1> HIDE DEF new
<1>3. InUse' \subseteq InUse \cup {new} /\ lastGen \in Nat
  BY <1>1 DEF InUse, RequestInv, TypeOK
<1>4. \A g \in InUse : g.id \in Nat /\ g.id <= lastGen
  BY InUseType DEF RequestInv, Bounded
<1>5. \A v \in Units : <<lastGen + 1, v>> \notin doneMarks
  BY <1>3 DEF RequestInv, Bounded
<1>6. Bounded'
  <2>1. \A g \in InUse' : g.id <= lastGen'
    BY <1>1, <1>2, <1>3, <1>4
  <2>2. \A m \in doneMarks : m[1] <= lastGen + 1
    BY <1>3 DEF RequestInv, Bounded, TypeOK
  <2> QED BY <1>1, <2>1, <2>2 DEF Bounded
<1>7. \A v \in Joined : Older(RequestsSeenBy(u)[v], v)
  <2> SUFFICES ASSUME NEW v \in Joined PROVE Older(RequestsSeenBy(u)[v], v)
    OBVIOUS
  <2>1. CASE v = u
    BY <1>1, <2>1 DEF RequestsSeenBy, Older, RequestInv, Phases, Request
  <2>2. CASE v # u
    BY <1>1, <2>2 DEF RequestsSeenBy, AllPeersReady, RequestInv, Nonces, Joined
  <2> QED BY <2>1, <2>2
<1>8. Nonces'
  <2>1. \A r, v : Older(r, v) => Older(r, v)'
    BY <1>1 DEF Older
  <2>2. \A g \in InUse' : \A v \in Participants(g) : Older(g.requests[v], v)'
    BY <1>2, <1>3, <1>7, <2>1 DEF RequestInv, Nonces
  <2>3. (\A v \in Units : pubReq[v] # Nil => Older(pubReq[v], v))'
    BY <1>1 DEF RequestInv, Nonces, Older
  <2> QED BY <2>2, <2>3 DEF Nonces, Participants
<1>9. MarksMean'
  <2> SUFFICES ASSUME NEW g \in InUse', NEW v \in Participants(g),
                      Completed(g.id, v), g.requests[v] = req[v]
               PROVE  applied[v] = req[v].id
    BY <1>1 DEF MarksMean, Participants, Completed
  <2>1. g # new
    BY <1>2, <1>5 DEF Completed, Joined
  <2> QED BY <1>3, <2>1 DEF RequestInv, CarriedOut, MarksMean
<1>10. PlaceMeans'
  BY <1>1 DEF RequestInv, TypeOK, CarriedOut, PlaceMeans
<1>11. StatusMeans'
  BY <1>1 DEF RequestInv, TypeOK, CarriedOut, StatusMeans
<1> QED BY <1>6, <1>8, <1>9, <1>10, <1>11 DEF CarriedOut

LEMMA CommitMeans ==
  ASSUME RequestInv, NEW u \in Units, Commit(u)
  PROVE  (Bounded /\ Nonces /\ CarriedOut)'
<1>1. /\ UNCHANGED <<lastGen, req, doneMarks, life, status, applied>>
      /\ pubReq' = [pubReq EXCEPT ![u] = req[u]]
      /\ rollout' \in {rollout, view[u]} /\ view' = [view EXCEPT ![u] = Nil]
      /\ pc[u] = "commit" /\ pc' = [pc EXCEPT ![u] = "idle"]
      /\ \A v \in Units : wake[v] \subseteq wake'[v]
  BY DEF Commit, EndHook, markVars, envVars, localVars, hostVars
<1>2. InUse' \subseteq InUse
  BY <1>1 DEF InUse, RequestInv, TypeOK
<1>3. Bounded'
  BY <1>1, <1>2 DEF RequestInv, Bounded
<1>4. Nonces'
  <2>1. \A r, v : Older(r, v) => Older(r, v)'
    BY <1>1 DEF Older
  <2>2. \A g \in InUse' : \A v \in Participants(g) : Older(g.requests[v], v)'
    BY <1>2, <2>1 DEF RequestInv, Nonces
  <2>3. ASSUME NEW v \in Units, pubReq'[v] # Nil PROVE Older(pubReq[v], v)'
    <3>1. CASE v = u
      <4>1. req[u] \in Request /\ pubReq'[u] = req[u]
        BY <1>1 DEF RequestInv, Phases, TypeOK
      <4> QED BY <1>1, <3>1, <4>1 DEF Older, Request
    <3>2. CASE v # u
      <4>1. pubReq'[v] = pubReq[v]
        BY <1>1, <3>2 DEF RequestInv, TypeOK
      <4> QED BY <1>1, <2>3, <4>1 DEF RequestInv, Nonces, Older
    <3> QED BY <3>1, <3>2
  <2> QED BY <2>2, <2>3 DEF Nonces, Participants
<1>5. MarksMean'
  BY <1>1, <1>2 DEF RequestInv, CarriedOut, MarksMean, Participants, Completed
<1>6. PlaceMeans'
  BY <1>1 DEF RequestInv, TypeOK, CarriedOut, PlaceMeans
<1>7. StatusMeans'
  BY <1>1 DEF RequestInv, TypeOK, CarriedOut, StatusMeans
<1> QED BY <1>3, <1>4, <1>5, <1>6, <1>7 DEF CarriedOut

LEMMA RequestStep == RequestInv /\ [Next]_vars => RequestInv'
<1> SUFFICES ASSUME RequestInv, [Next]_vars PROVE RequestInv'
  OBVIOUS
<1>1. TypeOK' /\ Phases'
  BY TypeStep DEF RequestInv
<1>2. CASE UNCHANGED vars
  <2>1. UNCHANGED <<rollout, lastGen, req, pubReq, view, doneMarks, pc, status, applied, life, wake>>
    BY <1>2 DEF vars, markVars, localVars, relationVars, hostVars, envVars, hookVars
  <2>2. PlaceMeans' /\ StatusMeans'
    BY <2>1 DEF RequestInv, CarriedOut, PlaceMeans, StatusMeans
  <2> QED BY <1>1, <2>1, <2>2, MeaningKept DEF RequestInv
<1>3. CASE Next
  <2>1. (Bounded /\ Nonces /\ CarriedOut)'
    BY <1>3, HookStepMeans, EnvironmentMeans, StoppedMeans, AcknowledgeMeans, BeginMeans,
       MintMeans, CommitMeans DEF Next, HookStep, Fault
  <2> QED BY <1>1, <2>1 DEF RequestInv
<1> QED BY <1>2, <1>3

(* Identifiers of requests tell them apart, and marks, places in a hook and *)
(* statuses stand for requests that were carried out.                       *)
THEOREM RequestInvariant == Spec => []RequestInv
  BY RequestInit, RequestStep, PTL DEF Spec

(* A "done" marker of the published generation whose frozen request is still *)
(* the unit's own vouches for what the unit has carried out, also after the *)
(* configuration has changed and changed back.                              *)
THEOREM MarkersTruthful == Spec => []MarkerTruthful
<1>1. RequestInv => MarkerTruthful
  BY DEF RequestInv, CarriedOut, MarksMean, InUse, MarkerTruthful
<1> QED BY <1>1, RequestInvariant, PTL

(* A unit that is there and whose last hook ended with "complete" and left  *)
(* no errors in its state has carried out its latest request.               *)
THEOREM CompleteIsApplied == Spec => []CompleteMeansApplied
<1>1. RequestInv => CompleteMeansApplied
  BY DEF RequestInv, CarriedOut, StatusMeans, CompleteMeansApplied
<1> QED BY <1>1, RequestInvariant, PTL

--------------------------------------------------------------------------------
(* The handoff *)

LEMMA HandoffInit == Init => HandoffInv
<1> SUFFICES ASSUME Init PROVE HandoffInv
  OBVIOUS
<1>1. TypeOK /\ Phases
  BY TypeInit
<1>2. Identifiers
  BY DEF Init, Identifiers
<1>3. HandoffParts
  BY DEF Init, HandoffParts, ProgressTrue, Reporting, Outdated, Told, Sleepers, MintersWait
<1> QED BY <1>1, <1>2, <1>3 DEF HandoffInv

(* Identifiers stay fresh, wherever leadership moves.                       *)
LEMMA IdentifiersKept ==
  ASSUME TypeOK, Phases, Identifiers, [Next]_vars PROVE Identifiers'
<1> USE DEF markVars, localVars, relationVars, hostVars, envVars, hookVars
<1>1. CASE UNCHANGED <<rollout, lastGen, view, minted, doneMarks>>
  BY <1>1 DEF Identifiers
<1>2. ASSUME NEW u \in Units, BeginHook(u) PROVE Identifiers'
  BY <1>2 DEF BeginHook, TypeOK, Phases, Identifiers
<1>3. ASSUME NEW u \in Units, Mint(u) PROVE Identifiers'
  BY <1>3 DEF Mint, TypeOK, Phases, Identifiers, Rollouts
<1>4. ASSUME NEW u \in Units, Acknowledge(u) \/ AcknowledgeFails(u) PROVE Identifiers'
  <2>1. /\ UNCHANGED <<rollout, lastGen, view, minted>> /\ view[u] # Nil
        /\ doneMarks' \subseteq doneMarks \cup {<<view[u].id, u>>}
    BY <1>4 DEF Acknowledge, AcknowledgeFails, MarkDone, Phases
  <2> QED BY <2>1 DEF Identifiers
<1>5. ASSUME NEW u \in Units, Commit(u) PROVE Identifiers'
  BY <1>5 DEF Commit, EndHook, TypeOK, Phases, Identifiers
<1>6. ASSUME NEW u \in Units, CommitRefused(u) \/ Crash(u) PROVE Identifiers'
  <2>1. UNCHANGED <<rollout, lastGen, doneMarks>> /\ EndHook(u)
    BY <1>6 DEF CommitRefused, Crash
  <2> QED BY <2>1 DEF EndHook, TypeOK, Identifiers
<1>7. ASSUME NEW u \in Units,
             \/ LookUnmanaged(u) \/ LookUnfinished(u) \/ LookFinished(u)
             \/ TurnDeclined(u) \/ StartCallback(u) \/ CallbackSucceeds(u) \/ NotifyDone(u)
             \/ StartMarkerFails(u) \/ CallbackFails(u) \/ TurnTimesOut(u) \/ ReadFails(u)
             \/ Observe(u)
      PROVE UNCHANGED <<rollout, lastGen, view, minted, doneMarks>>
  BY <1>7 DEF LookUnmanaged, LookUnfinished, LookFinished, ReconcileUnmanaged, TurnDeclined,
              TurnTimesOut, StartCallback, StartMarkerFails, CallbackSucceeds, CallbackFails,
              NotifyDone, ReadFails, Observe
<1>8. Environment => UNCHANGED <<rollout, lastGen, view, minted, doneMarks>>
  BY DEF Environment, ChangeConfig, ChangeInput, Elect, Expect, Join, Depart
<1>9. CASE UNCHANGED vars
  BY <1>1, <1>9 DEF vars
<1> QED BY <1>1, <1>2, <1>3, <1>4, <1>5, <1>6, <1>7, <1>8, <1>9 DEF Next, HookStep, Fault

LEMMA RolloutType ==
  ASSUME TypeOK, rollout # Nil
  PROVE  rollout.id \in Nat /\ Participants(rollout) \subseteq Units
  BY DEF TypeOK, Rollouts, Participants

LEMMA ViewType ==
  ASSUME TypeOK, NEW u \in Units, view[u] # Nil
  PROVE  /\ view[u].id \in Nat /\ Participants(view[u]) \subseteq Units
         /\ u \in Participants(view[u]) => view[u].requests[u].id \in Nat
  BY DEF TypeOK, Rollouts, Participants, Request

(* What _progress leaves behind.                                            *)
LEMMA Recorded ==
  ASSUME TypeOK, NEW u \in Units, view[u] # Nil, NEW r, r.id \in Nat,
         NEW s \in {"running", "failed", "done"}, RecordProgress(u, view[u], r, s)
  PROVE  /\ localProg'[u] # Nil /\ localProg'[u].gen = view[u].id /\ localProg'[u].status = s
         /\ notify'[u] /\ \A v \in Units \ {u} : localProg'[v] = localProg[v] /\ notify'[v] = notify[v]
<1> DEFINE p == [gen |-> view[u].id, req |-> r.id, status |-> s]
<1>1. p \in Progress
  BY ViewType DEF Progress
<1>2. p # Nil /\ p.gen = view[u].id /\ p.status = s
  BY <1>1, NilAssumption
<1>3. localProg' = [localProg EXCEPT ![u] = p] /\ notify' = [notify EXCEPT ![u] = TRUE]
  BY DEF RecordProgress
<1> HIDE DEF p
<1> QED BY <1>2, <1>3 DEF TypeOK

LEMMA Repaired ==
  ASSUME TypeOK, NEW u \in Units, RepairNotification(u)
  PROVE  /\ view[u] # Nil /\ u \in Participants(view[u]) /\ Completed(view[u].id, u)
              => notify'[u] /\ Says(localProg'[u], view[u].id)
         /\ \/ localProg'[u] = localProg[u]
            \/ view[u] # Nil /\ Completed(view[u].id, u) /\ localProg'[u].gen = view[u].id
         /\ \A v \in Units \ {u} : localProg'[v] = localProg[v] /\ notify'[v] = notify[v]
<1>1. CASE view[u] # Nil /\ u \in Participants(view[u]) /\ Completed(view[u].id, u)
  <2>1. RecordProgress(u, view[u], view[u].requests[u], "done")
    BY <1>1 DEF RepairNotification
  <2>2. view[u].requests[u].id \in Nat
    BY <1>1, ViewType
  <2> QED BY <1>1, <2>1, <2>2, Recorded DEF Says
<1>2. CASE ~(view[u] # Nil /\ u \in Participants(view[u]) /\ Completed(view[u].id, u))
  <2>1. UNCHANGED <<localProg, notify>>
    BY <1>2 DEF RepairNotification
  <2> QED BY <1>2, <2>1
<1> QED BY <1>1, <1>2

(* One unit's hook moves on without making a mark.                          *)
LEMMA HookHandsOff ==
  ASSUME HandoffInv, NEW u \in Units, pc[u] # "idle", pc'[u] # "idle",
         UNCHANGED <<rollout, view, minted, doneMarks, pubProg, life, wake>>,
         \A v \in Units \ {u} : /\ pc'[v] = pc[v] /\ status'[v] = status[v]
                                /\ localProg'[v] = localProg[v] /\ notify'[v] = notify[v],
         localProg'[u] # Nil /\ localProg'[u].status = "done" => Completed(localProg'[u].gen, u),
         pc'[u] = "notify" => Completed(view[u].id, u),
         /\ pc'[u] \in {"turn", "commit"} /\ view[u] # Nil /\ u \in Participants(view[u])
         /\ Completed(view[u].id, u)
         => \/ pc'[u] = "commit" /\ status'[u] = "failed"
            \/ notify'[u] /\ Says(localProg'[u], view[u].id),
         pc'[u] = "commit" =>
           \/ status'[u] = "failed" \/ view[u] = Nil \/ u \notin Participants(view[u])
           \/ Completed(view[u].id, u)
           \/ ~Admitted(view[u].id, Participants(view[u]), u)
  PROVE  HandoffParts'
<1> USE DEF HandoffInv, HandoffParts
<1>1. ProgressTrue'
  BY DEF ProgressTrue, Completed
<1>2. Reporting'
  BY DEF Reporting, Completed, Says, Participants
<1>3. Outdated'
  BY DEF Outdated
<1>4. Told'
  BY RolloutType DEF Told, Completed, Says, Participants
<1>5. Sleepers'
  <2> SUFFICES ASSUME rollout # Nil, NEW v \in Participants(rollout), life[v] = "joined",
                      wake[v] = {}, ~Completed(rollout.id, v),
                      pc'[v] = "idle" \/ (pc'[v] = "commit" /\ ~minted[v])
               PROVE  Awaits(v)'
    BY DEF Sleepers, Completed, Participants
  <2>1. v \in Units
    BY RolloutType
  <2>2. CASE v # u
    BY <2>1, <2>2 DEF Sleepers, Awaits, Completed, Predecessors, Participants, Says
  <2>3. CASE v = u
    <3>1. view[u] = rollout
      BY <2>3 DEF Outdated
    <3>2. status'[u] = "failed" \/ ~Admitted(rollout.id, Participants(rollout), u)
      BY <2>3, <3>1
    <3> QED BY <2>3, <3>2 DEF Awaits, Admitted, AllCompleted, Completed, Predecessors, Participants
  <2> QED BY <2>2, <2>3
<1>6. MintersWait'
  BY DEF MintersWait, Phases, Admitted, AllCompleted, Completed, Predecessors, Participants
<1> QED BY <1>1, <1>2, <1>3, <1>4, <1>5, <1>6

LEMMA HookStepHandsOff ==
  ASSUME HandoffInv, NEW u \in Units,
         \/ LookUnmanaged(u) \/ LookUnfinished(u) \/ LookFinished(u)
         \/ TurnDeclined(u) \/ TurnTimesOut(u) \/ StartCallback(u) \/ StartMarkerFails(u)
         \/ CallbackSucceeds(u) \/ CallbackFails(u) \/ NotifyDone(u) \/ ReadFails(u)
  PROVE  HandoffParts'
<1> USE DEF markVars, localVars, relationVars, hostVars, envVars, hookVars
<1>0. TypeOK /\ Phases /\ ProgressTrue /\ Reporting
  BY DEF HandoffInv, HandoffParts
<1>1. UNCHANGED <<rollout, view, minted, doneMarks, pubProg, life, wake>> /\ pc[u] # "idle"
  BY DEF LookUnmanaged, LookUnfinished, LookFinished, ReconcileUnmanaged, TurnDeclined, TurnTimesOut, HasTurn,
         StartCallback, StartMarkerFails, CallbackSucceeds, CallbackFails, NotifyDone, ReadFails
<1>2. \A v \in Units \ {u} : pc'[v] = pc[v] /\ status'[v] = status[v]
  BY <1>0 DEF LookUnmanaged, LookUnfinished, LookFinished, ReconcileUnmanaged, TurnDeclined, TurnTimesOut,
         StartCallback, StartMarkerFails, CallbackSucceeds, CallbackFails, NotifyDone, ReadFails,
         Leave, TypeOK
<1>3. CASE LookUnmanaged(u)
  <2>1. pc'[u] = "commit" /\ view[u] = Nil /\ UNCHANGED <<localProg, notify>>
    BY <1>0, <1>3 DEF LookUnmanaged, ReconcileUnmanaged, Leave, TypeOK
  <2> QED BY <1>0, <1>1, <1>2, <2>1, HookHandsOff DEF ProgressTrue
<1>4. CASE LookUnfinished(u)
  <2>1. pc'[u] = "turn" /\ RepairNotification(u)
    BY <1>0, <1>4 DEF LookUnfinished, TypeOK
  <2> QED BY <1>0, <1>1, <1>2, <2>1, Repaired, HookHandsOff DEF ProgressTrue
<1>5. CASE LookFinished(u)
  <2>1. pc'[u] = "commit" /\ RepairNotification(u) /\ Finished(view[u])
    BY <1>0, <1>5 DEF LookFinished, ReconcileUnmanaged, Leave, TypeOK
  <2>2. view[u] = Nil \/ u \notin Participants(view[u]) \/ Completed(view[u].id, u)
    BY <2>1 DEF Finished, AllCompleted
  <2> QED BY <1>0, <1>1, <1>2, <2>1, <2>2, Repaired, HookHandsOff DEF ProgressTrue
<1>6. CASE TurnDeclined(u)
  <2>1. pc[u] = "turn" /\ pc'[u] = "commit" /\ UNCHANGED <<localProg, notify>>
    BY <1>0, <1>6 DEF TurnDeclined, Leave, TypeOK
  <2>2. \/ status'[u] = "failed" \/ u \notin Participants(view[u])
        \/ Completed(view[u].id, u) \/ ~Admitted(view[u].id, Participants(view[u]), u)
    BY <1>0, <1>6 DEF TurnDeclined, Leave, TypeOK
  <2> QED BY <1>0, <1>1, <1>2, <2>1, <2>2, HookHandsOff DEF ProgressTrue, Reporting
<1>7. CASE TurnTimesOut(u) \/ ReadFails(u)
  <2>1. pc'[u] = "commit" /\ status'[u] = "failed" /\ UNCHANGED <<localProg, notify>>
    BY <1>0, <1>7 DEF TurnTimesOut, ReadFails, Leave, TypeOK
  <2> QED BY <1>0, <1>1, <1>2, <2>1, HookHandsOff DEF ProgressTrue
<1>8. CASE StartCallback(u) \/ StartMarkerFails(u) \/ CallbackFails(u)
  <2>1. view[u] # Nil /\ req[u].id \in Nat
    BY <1>0, <1>8 DEF StartCallback, StartMarkerFails, CallbackFails, HasTurn, Phases, TypeOK, Request
  <2>2. \E s \in {"running", "failed"} : RecordProgress(u, view[u], req[u], s)
    BY <1>8 DEF StartCallback, StartMarkerFails, CallbackFails
  <2>3. localProg'[u].status # "done" /\
        \A v \in Units \ {u} : localProg'[v] = localProg[v] /\ notify'[v] = notify[v]
    BY <1>0, <2>1, <2>2, Recorded
  <2>4. pc'[u] = "running" \/ (pc'[u] = "commit" /\ status'[u] = "failed")
    BY <1>0, <1>8 DEF StartCallback, StartMarkerFails, CallbackFails, Leave, TypeOK
  <2> QED BY <1>1, <1>2, <2>3, <2>4, HookHandsOff
<1>9. CASE CallbackSucceeds(u)
  <2>1. pc'[u] = "ack" /\ UNCHANGED <<localProg, notify>>
    BY <1>0, <1>9 DEF CallbackSucceeds, TypeOK
  <2> QED BY <1>0, <1>1, <1>2, <2>1, HookHandsOff DEF ProgressTrue
<1>10. CASE NotifyDone(u)
  <2>1. view[u] # Nil /\ req[u].id \in Nat /\ Completed(view[u].id, u)
    BY <1>0, <1>10 DEF NotifyDone, Phases, TypeOK, Request, ProgressTrue
  <2>2. RecordProgress(u, view[u], req[u], "done") /\ pc'[u] = "commit"
    BY <1>0, <1>10 DEF NotifyDone, Leave, TypeOK
  <2>3. /\ notify'[u] /\ Says(localProg'[u], view[u].id)
        /\ \A v \in Units \ {u} : localProg'[v] = localProg[v] /\ notify'[v] = notify[v]
    BY <1>0, <2>1, <2>2, Recorded DEF Says
  <2> QED BY <1>1, <1>2, <2>1, <2>2, <2>3, HookHandsOff DEF Says
<1> QED BY <1>3, <1>4, <1>5, <1>6, <1>7, <1>8, <1>9, <1>10

LEMMA BeginHandsOff ==
  ASSUME HandoffInv, NEW u \in Units, BeginHook(u) PROVE HandoffParts'
<1> USE DEF markVars, localVars, relationVars, hostVars, envVars, hookVars
<1>0. TypeOK /\ Phases /\ HandoffParts
  BY DEF HandoffInv
<1>1. /\ UNCHANGED <<rollout, minted, doneMarks, localProg, pubProg, notify, life, status>>
      /\ pc[u] = "idle"
  BY DEF BeginHook
<1>2. pc'[u] = "look" /\ view'[u] = rollout
  BY <1>0 DEF BeginHook, TypeOK
<1>3. \A v \in Units \ {u} : pc'[v] = pc[v] /\ view'[v] = view[v] /\ wake'[v] = wake[v]
  BY <1>0 DEF BeginHook, TypeOK
<1>4. ProgressTrue'
  BY <1>0, <1>1, <1>2, <1>3 DEF HandoffParts, ProgressTrue, Completed
<1>5. Reporting'
  BY <1>0, <1>1, <1>2, <1>3 DEF HandoffParts, Reporting, Completed, Says, Participants
<1>6. Outdated'
  BY <1>0, <1>1, <1>2, <1>3 DEF HandoffParts, Outdated
<1>7. Told'
  BY <1>0, <1>1, <1>2, <1>3, RolloutType DEF HandoffParts, Told, Completed, Says, Participants
<1>8. Sleepers'
  <2> SUFFICES ASSUME rollout # Nil, NEW v \in Participants(rollout), life[v] = "joined",
                      wake'[v] = {}, ~Completed(rollout.id, v),
                      pc'[v] = "idle" \/ (pc'[v] = "commit" /\ ~minted[v])
               PROVE  Awaits(v)'
    BY <1>1 DEF Sleepers, Completed, Participants
  <2>1. v \in Units \ {u}
    BY <1>0, <1>2, RolloutType
  <2>2. Awaits(v)
    BY <1>0, <1>3, <2>1 DEF HandoffParts, Sleepers
  <2> QED BY <1>1, <2>2 DEF Awaits, Completed, Predecessors, Participants, Says
<1>9. MintersWait'
  BY <1>0, <1>1, <1>2, <1>3
     DEF HandoffParts, MintersWait, Admitted, AllCompleted, Completed, Predecessors, Participants
<1> QED BY <1>4, <1>5, <1>6, <1>7, <1>8, <1>9 DEF HandoffParts

(* A fresh generation has no mark, and its minter goes on to its turn.      *)
LEMMA MintHandsOff ==
  ASSUME HandoffInv, NEW u \in Units, Mint(u) PROVE HandoffParts'
<1> USE DEF markVars, localVars, relationVars, hostVars, envVars, hookVars
<1>0. TypeOK /\ Phases /\ Identifiers /\ HandoffParts
  BY DEF HandoffInv
<1>1. UNCHANGED <<rollout, doneMarks, pubProg, life, status, wake>> /\ RepairNotification(u)
  BY DEF Mint
<1>2. pc'[u] = "turn" /\ view'[u].id = lastGen + 1 /\ minted'[u]
  BY <1>0 DEF Mint, TypeOK
<1>3. \A v \in Units \ {u} : pc'[v] = pc[v] /\ view'[v] = view[v] /\ minted'[v] = minted[v]
  BY <1>0 DEF Mint, TypeOK
<1>4. \A v \in Units \ {u} : localProg'[v] = localProg[v] /\ notify'[v] = notify[v]
  BY <1>0, <1>1, Repaired
<1>5. ~Completed(lastGen + 1, u)
  BY <1>0 DEF Identifiers, Completed, TypeOK
<1>6. ProgressTrue'
  <2>1. \/ localProg'[u] = localProg[u]
        \/ view[u] # Nil /\ Completed(view[u].id, u) /\ localProg'[u].gen = view[u].id
    BY <1>0, <1>1, Repaired
  <2> QED BY <1>0, <1>1, <1>2, <1>3, <1>4, <2>1 DEF HandoffParts, ProgressTrue, Completed
<1>7. Reporting'
  BY <1>0, <1>1, <1>2, <1>3, <1>4, <1>5
     DEF HandoffParts, Reporting, Completed, Says, Participants
<1>8. Outdated'
  BY <1>0, <1>1, <1>2, <1>3 DEF HandoffParts, Outdated
<1>9. Told'
  BY <1>0, <1>1, <1>2, <1>3, RolloutType DEF HandoffParts, Told, Completed, Says, Participants
<1>10. Sleepers'
  <2> SUFFICES ASSUME rollout # Nil, NEW v \in Participants(rollout), life[v] = "joined",
                      wake[v] = {}, ~Completed(rollout.id, v),
                      pc'[v] = "idle" \/ (pc'[v] = "commit" /\ ~minted'[v])
               PROVE  Awaits(v)'
    BY <1>1 DEF Sleepers, Completed, Participants
  <2>1. v \in Units \ {u}
    BY <1>0, <1>2, RolloutType
  <2>2. Awaits(v)
    BY <1>0, <1>3, <2>1 DEF HandoffParts, Sleepers
  <2> QED BY <1>1, <2>2 DEF Awaits, Completed, Predecessors, Participants, Says
<1>11. MintersWait'
  BY <1>0, <1>1, <1>2, <1>3
     DEF HandoffParts, MintersWait, Admitted, AllCompleted, Completed, Predecessors, Participants
<1> QED BY <1>6, <1>7, <1>8, <1>9, <1>10, <1>11 DEF HandoffParts

(* A mark is made before it is told: whoever waited for the unit now waits  *)
(* for its word.                                                            *)
LEMMA AcknowledgeHandsOff ==
  ASSUME HandoffInv, NEW u \in Units, Acknowledge(u) \/ AcknowledgeFails(u)
  PROVE  HandoffParts'
<1> USE DEF markVars, localVars, relationVars, hostVars, envVars, hookVars
<1>0. TypeOK /\ Phases /\ Identifiers /\ HandoffParts
  BY DEF HandoffInv
<1>1. /\ UNCHANGED <<rollout, view, minted, pubProg, life, wake>> /\ pc[u] = "ack"
      /\ doneMarks' = doneMarks \cup {<<view[u].id, u>>} \/ UNCHANGED doneMarks
  BY DEF Acknowledge, AcknowledgeFails, MarkDone
<1>2. view[u] # Nil /\ life[u] = "joined" /\ req[u].id \in Nat
  BY <1>0, <1>1 DEF Phases, TypeOK, Request
<1>3. /\ \A v \in Units \ {u} : pc'[v] = pc[v] /\ status'[v] = status[v]
      /\ pc'[u] = "notify" \/ (pc'[u] = "commit" /\ status'[u] = "failed")
  BY <1>0 DEF Acknowledge, AcknowledgeFails, Leave, TypeOK
<1>4. /\ \A v \in Units \ {u} : localProg'[v] = localProg[v] /\ notify'[v] = notify[v]
      /\ localProg'[u] = localProg[u] \/ localProg'[u].status = "failed"
  <2>1. CASE Acknowledge(u)
    BY <2>1 DEF Acknowledge
  <2>2. CASE AcknowledgeFails(u)
    <3>1. RecordProgress(u, view[u], req[u], "failed")
      BY <2>2 DEF AcknowledgeFails
    <3> QED BY <1>0, <1>2, <3>1, Recorded
  <2> QED BY <2>1, <2>2
<1>5. /\ \A g : \A v \in Units \ {u} : Completed(g, v)' <=> Completed(g, v)
      /\ \A g : \A v \in Units : Completed(g, v) => Completed(g, v)'
      /\ \A g : g # view[u].id => (Completed(g, u)' <=> Completed(g, u))
  BY <1>1 DEF Completed
<1>6. ProgressTrue'
  <2>1. pc'[u] = "notify" => Completed(view[u].id, u)'
    <3>1. CASE Acknowledge(u)
      BY <3>1 DEF Acknowledge, MarkDone, Completed
    <3>2. CASE AcknowledgeFails(u)
      BY <1>0, <3>2 DEF AcknowledgeFails, Leave, TypeOK
    <3> QED BY <3>1, <3>2
  <2> QED BY <1>0, <1>1, <1>3, <1>4, <2>1 DEF HandoffParts, ProgressTrue, Completed
<1>7. Reporting'
  BY <1>0, <1>1, <1>3, <1>4 DEF HandoffParts, Reporting, Completed, Says, Participants
<1>8. Outdated'
  BY <1>0, <1>1, <1>3 DEF HandoffParts, Outdated
<1>9. Told'
  BY <1>0, <1>1, <1>3, RolloutType DEF HandoffParts, Told, Completed, Says, Participants
<1>10. Sleepers'
  <2> SUFFICES ASSUME rollout # Nil, NEW v \in Participants(rollout), life[v] = "joined",
                      wake[v] = {}, ~Completed(rollout.id, v)',
                      pc'[v] = "idle" \/ (pc'[v] = "commit" /\ ~minted[v])
               PROVE  Awaits(v)'
    BY <1>1 DEF Sleepers, Completed, Participants
  <2>1. v \in Units /\ ~Completed(rollout.id, v)
    BY <1>0, <1>1, <1>5, RolloutType
  <2>2. CASE v = u
    BY <1>3, <2>2 DEF Awaits
  <2>3. CASE v # u
    <3>1. Awaits(v)
      BY <1>0, <1>3, <2>1, <2>3 DEF HandoffParts, Sleepers
    <3>2. CASE status[v] = "failed"
      BY <1>3, <2>1, <2>3, <3>2 DEF Awaits
    <3>3. CASE status[v] # "failed"
      <4>1. PICK w \in Predecessors(Participants(rollout), v) :
              \/ ~Completed(rollout.id, w)
              \/ life[w] = "joined" /\ ~Says(pubProg[w], rollout.id)
        BY <3>1, <3>3 DEF Awaits
      <4>2. w \in Predecessors(Participants(rollout), v)' /\ w \in Units
        BY <1>0, <1>1, RolloutType DEF Predecessors, Participants
      <4>3. ~Completed(rollout.id, w) => ~Says(pubProg[w], rollout.id)
        BY <1>0, <4>2 DEF HandoffParts, ProgressTrue, Says
      <4>4. ~Completed(rollout.id, w)' \/ (life[w] = "joined" /\ ~Says(pubProg[w], rollout.id))
        BY <1>1, <1>2, <1>5, <4>1, <4>2, <4>3 DEF Completed
      <4> QED BY <1>1, <4>2, <4>4 DEF Awaits, Completed, Says
    <3> QED BY <3>2, <3>3
  <2> QED BY <2>2, <2>3
<1>11. MintersWait'
  <2> SUFFICES ASSUME NEW v \in Units, pc'[v] = "commit", minted[v],
                      v \in Participants(view[v]), ~Completed(view[v].id, v)'
               PROVE  \/ status'[v] = "failed"
                      \/ ~Admitted(view[v].id, Participants(view[v]), v)'
    BY <1>1 DEF MintersWait, Participants, Completed, Admitted, AllCompleted, Predecessors
  <2>1. CASE v = u
    BY <1>3, <2>1
  <2>2. CASE v # u
    <3>1. status[v] = "failed" \/ ~Admitted(view[v].id, Participants(view[v]), v)
      BY <1>0, <1>1, <1>3, <1>5, <2>2 DEF HandoffParts, MintersWait
    <3>2. view[v].id # view[u].id /\ view[v] # Nil
      BY <1>0, <1>2, <2>2 DEF Identifiers, Phases
    <3>3. \A w \in Units : Completed(view[v].id, w)' <=> Completed(view[v].id, w)
      BY <1>1, <3>2 DEF Completed
    <3>4. Participants(view[v]) \subseteq Units
      BY <1>0, <3>2, ViewType
    <3> QED BY <1>1, <1>3, <2>2, <3>1, <3>3, <3>4
            DEF Admitted, AllCompleted, Completed, Predecessors, Participants
  <2> QED BY <2>1, <2>2
<1> QED BY <1>6, <1>7, <1>8, <1>9, <1>10, <1>11 DEF HandoffParts

(* A hook that is lost leaves an event behind.                              *)
LEMMA LostHandsOff ==
  ASSUME HandoffInv, NEW u \in Units, CommitRefused(u) \/ Crash(u) PROVE HandoffParts'
<1> USE DEF markVars, localVars, relationVars, hostVars, envVars, hookVars
<1>0. TypeOK /\ Phases /\ HandoffParts
  BY DEF HandoffInv
<1>1. /\ UNCHANGED <<rollout, doneMarks, localProg, pubProg, life, status>>
      /\ EndHook(u) /\ wake' = [wake EXCEPT ![u] = @ \cup {"retry"}]
  BY DEF CommitRefused, Crash
<1>2. pc'[u] = "idle" /\ wake'[u] # {}
  BY <1>0, <1>1 DEF EndHook, TypeOK
<1>3. \A v \in Units \ {u} : /\ pc'[v] = pc[v] /\ view'[v] = view[v] /\ wake'[v] = wake[v]
                             /\ minted'[v] = minted[v] /\ notify'[v] = notify[v]
  BY <1>0, <1>1 DEF EndHook, TypeOK
<1>4. ProgressTrue'
  BY <1>0, <1>1, <1>2, <1>3 DEF HandoffParts, ProgressTrue, Completed
<1>5. Reporting'
  BY <1>0, <1>1, <1>2, <1>3 DEF HandoffParts, Reporting, Completed, Says, Participants
<1>6. Outdated'
  BY <1>0, <1>1, <1>2, <1>3 DEF HandoffParts, Outdated
<1>7. Told'
  BY <1>0, <1>1, <1>2, <1>3, RolloutType DEF HandoffParts, Told, Completed, Says, Participants
<1>8. Sleepers'
  <2> SUFFICES ASSUME rollout # Nil, NEW v \in Participants(rollout), life[v] = "joined",
                      wake'[v] = {}, ~Completed(rollout.id, v),
                      pc'[v] = "idle" \/ (pc'[v] = "commit" /\ ~minted'[v])
               PROVE  Awaits(v)'
    BY <1>1 DEF Sleepers, Completed, Participants
  <2>1. v \in Units \ {u}
    BY <1>0, <1>2, RolloutType
  <2>2. Awaits(v)
    BY <1>0, <1>3, <2>1 DEF HandoffParts, Sleepers
  <2> QED BY <1>1, <2>2 DEF Awaits, Completed, Predecessors, Participants, Says
<1>9. MintersWait'
  BY <1>0, <1>1, <1>2, <1>3
     DEF HandoffParts, MintersWait, Admitted, AllCompleted, Completed, Predecessors, Participants
<1> QED BY <1>4, <1>5, <1>6, <1>7, <1>8, <1>9 DEF HandoffParts

(* What a hook tells wakes its peers, and so does a generation.             *)
LEMMA CommitHandsOff ==
  ASSUME HandoffInv, NEW u \in Units, Commit(u) PROVE HandoffParts'
<1> USE DEF markVars, localVars, relationVars, hostVars, envVars, hookVars
<1>0. TypeOK /\ Phases /\ Identifiers /\ HandoffParts
  BY DEF HandoffInv
<1>1. UNCHANGED <<doneMarks, localProg, life, status>> /\ pc[u] = "commit" /\ life[u] = "joined"
  BY <1>0 DEF Commit, Phases
<1>2. pc'[u] = "idle" /\ wake'[u] = wake[u]
  BY <1>0 DEF Commit, EndHook, TypeOK, Joined
<1>3. \A v \in Units \ {u} : /\ pc'[v] = pc[v] /\ view'[v] = view[v] /\ minted'[v] = minted[v]
                             /\ notify'[v] = notify[v]
  BY <1>0 DEF Commit, EndHook, TypeOK
<1>4. /\ \A v \in Units \ {u} : pubProg'[v] = pubProg[v]
      /\ pubProg'[u] = IF notify[u] THEN localProg[u] ELSE pubProg[u]
  BY <1>0 DEF Commit, TypeOK
<1>5. /\ rollout' = IF minted[u] THEN view[u] ELSE rollout
      /\ \A v \in Units : wake[v] \subseteq wake'[v]
      /\ \A v \in Joined \ {u} :
           /\ pubProg'[u] # pubProg[u] => wake'[v] # {}
           /\ minted[u] => wake'[v] # {}
  BY <1>0, <1>4 DEF Commit, TypeOK, Joined
<1>6. ProgressTrue'
  BY <1>0, <1>1, <1>2, <1>3, <1>4 DEF HandoffParts, ProgressTrue, Completed
<1>7. Reporting'
  BY <1>0, <1>1, <1>2, <1>3 DEF HandoffParts, Reporting, Completed, Says, Participants
<1>8. MintersWait'
  BY <1>0, <1>1, <1>2, <1>3
     DEF HandoffParts, MintersWait, Admitted, AllCompleted, Completed, Predecessors, Participants
<1>9. \A v \in Units : pc[v] # "idle" => v \in Joined
  BY <1>0 DEF Phases, Joined
<1>10. CASE minted[u]
  <2>1. view[u] # Nil /\ Participants(view[u]) \subseteq Units /\ rollout' = view[u]
    BY <1>0, <1>5, <1>10, ViewType DEF Phases
  <2>2. Outdated'
    BY <1>2, <1>3, <1>5, <1>9, <1>10 DEF Outdated
  <2>3. Told'
    BY <1>0, <1>1, <1>3, <1>4, <1>5, <1>10, <2>1
       DEF HandoffParts, Told, Reporting, Completed, Says, Participants, Joined
  <2>4. Sleepers'
    <3> SUFFICES ASSUME NEW v \in Participants(view[u]), life[v] = "joined",
                        wake'[v] = {}, ~Completed(view[u].id, v)
                 PROVE  Awaits(v)'
      BY <1>1, <2>1 DEF Sleepers, Completed, Participants
    <3>1. v = u
      BY <1>5, <1>10, <2>1 DEF Joined
    <3>2. status[u] = "failed" \/ ~Admitted(view[u].id, Participants(view[u]), u)
      BY <1>0, <1>1, <1>10, <3>1 DEF HandoffParts, MintersWait
    <3> QED BY <1>1, <2>1, <3>1, <3>2
            DEF Awaits, Admitted, AllCompleted, Completed, Predecessors, Participants
  <2> QED BY <1>6, <1>7, <1>8, <2>2, <2>3, <2>4 DEF HandoffParts
<1>11. CASE ~minted[u]
  <2>1. UNCHANGED rollout
    BY <1>5, <1>11
  <2>2. Outdated'
    BY <1>0, <1>2, <1>3, <1>5, <2>1 DEF HandoffParts, Outdated
  <2>3. Told'
    <3> SUFFICES ASSUME rollout # Nil, NEW v \in Participants(rollout), life[v] = "joined",
                        pc'[v] = "idle", wake'[v] = {}, Completed(rollout.id, v)
                 PROVE  Says(pubProg'[v], rollout.id) \/ status[v] = "failed"
      BY <1>1, <2>1 DEF Told, Completed, Says, Participants
    <3>1. v \in Units /\ wake[v] = {}
      BY <1>0, <1>5, RolloutType
    <3>2. CASE v # u
      BY <1>0, <1>3, <1>4, <3>1, <3>2 DEF HandoffParts, Told
    <3>3. CASE v = u
      <4>1. view[u] = rollout
        BY <1>0, <1>1, <1>11, <3>1, <3>3 DEF HandoffParts, Outdated
      <4> QED BY <1>0, <1>1, <1>4, <3>3, <4>1 DEF HandoffParts, Reporting
    <3> QED BY <3>2, <3>3
  <2>4. Sleepers'
    <3> SUFFICES ASSUME rollout # Nil, NEW v \in Participants(rollout), life[v] = "joined",
                        wake'[v] = {}, ~Completed(rollout.id, v),
                        pc'[v] = "idle" \/ (pc'[v] = "commit" /\ ~minted'[v])
                 PROVE  Awaits(v)'
      BY <1>1, <2>1 DEF Sleepers, Completed, Participants
    <3>1. v \in Units /\ wake[v] = {}
      BY <1>0, <1>5, RolloutType
    <3>2. Awaits(v)
      BY <1>0, <1>1, <1>3, <1>11, <3>1 DEF HandoffParts, Sleepers
    <3>3. CASE v = u
      <4>1. u \notin Predecessors(Participants(rollout), u)
        BY RankAssumption DEF Predecessors
      <4>2. \A w \in Predecessors(Participants(rollout), u) : pubProg'[w] = pubProg[w]
        BY <1>0, <1>4, <4>1, RolloutType DEF Predecessors
      <4> QED BY <1>1, <2>1, <3>2, <3>3, <4>2 DEF Awaits, Completed, Predecessors, Participants, Says
    <3>4. CASE v # u
      <4>1. pubProg'[u] = pubProg[u]
        BY <1>5, <3>1, <3>4 DEF Joined
      <4>2. \A w \in Participants(rollout) : pubProg'[w] = pubProg[w]
        BY <1>0, <1>4, <4>1, RolloutType
      <4> QED BY <1>1, <2>1, <3>2, <4>2 DEF Awaits, Completed, Predecessors, Participants, Says
    <3> QED BY <3>3, <3>4
  <2> QED BY <1>6, <1>7, <1>8, <2>2, <2>3, <2>4 DEF HandoffParts
<1> QED BY <1>10, <1>11

LEMMA ObserveHandsOff ==
  ASSUME HandoffInv, NEW u \in Units, Observe(u) PROVE HandoffParts'
<1> USE DEF markVars, localVars, relationVars, hostVars, envVars, hookVars
<1>0. TypeOK /\ Phases /\ HandoffParts
  BY DEF HandoffInv
<1>1. /\ UNCHANGED <<rollout, view, minted, doneMarks, localProg, pubProg, notify, life, pc, wake>>
      /\ pc[u] = "idle" /\ rollout # Nil
  BY DEF Observe
<1>2. \A v \in Units \ {u} : status'[v] = status[v]
  BY <1>0 DEF Observe, TypeOK
<1>3. \/ status'[u] = "failed"
      \/ /\ ~Completed(rollout.id, u)
         /\ ~Admitted(rollout.id, Participants(rollout), u)
  BY <1>0 DEF Observe, TypeOK
<1>4. ProgressTrue' /\ Outdated'
  BY <1>0, <1>1 DEF HandoffParts, ProgressTrue, Outdated, Completed
<1>5. Reporting'
  BY <1>0, <1>1, <1>2 DEF HandoffParts, Reporting, Completed, Says, Participants
<1>6. Told'
  BY <1>0, <1>1, <1>2, <1>3, RolloutType DEF HandoffParts, Told, Completed, Says, Participants
<1>7. Sleepers'
  <2> SUFFICES ASSUME rollout # Nil, NEW v \in Participants(rollout), life[v] = "joined",
                      wake[v] = {}, ~Completed(rollout.id, v),
                      pc[v] = "idle" \/ (pc[v] = "commit" /\ ~minted[v])
               PROVE  Awaits(v)'
    BY <1>1 DEF Sleepers, Completed, Participants
  <2>1. CASE v = u
    BY <1>1, <1>3, <2>1 DEF Awaits, Admitted, AllCompleted, Completed, Predecessors, Participants
  <2>2. CASE v # u
    <3>1. status'[v] = status[v] /\ Awaits(v)
      BY <1>0, <1>2, <2>2, RolloutType DEF HandoffParts, Sleepers
    <3> QED BY <1>1, <3>1 DEF Awaits, Completed, Predecessors, Participants, Says
  <2> QED BY <2>1, <2>2
<1>8. MintersWait'
  BY <1>0, <1>1, <1>2
     DEF HandoffParts, MintersWait, Admitted, AllCompleted, Completed, Predecessors, Participants
<1> QED BY <1>4, <1>5, <1>6, <1>7, <1>8 DEF HandoffParts

(* The environment only adds events, and whoever leaves wakes the others.   *)
LEMMA EnvironmentHandsOff ==
  ASSUME HandoffInv, Environment PROVE HandoffParts'
<1> USE DEF markVars, localVars, relationVars, hostVars, envVars, hookVars
<1>0. TypeOK /\ Phases /\ HandoffParts
  BY DEF HandoffInv
<1>1. UNCHANGED <<rollout, view, minted, doneMarks, localProg, pubProg, notify, pc, status>>
  BY DEF Environment, ChangeConfig, ChangeInput, Elect, Expect, Join, Depart
<1>2. \A v \in Units : /\ life[v] = "joined" => wake[v] \subseteq wake'[v] \/ life'[v] # "joined"
                       /\ pc[v] # "idle" => life'[v] = "joined"
                       /\ life'[v] = "joined" => life[v] = "joined" \/ wake'[v] # {}
  <2>1. ASSUME NEW c \in Configs, ChangeConfig(c) PROVE UNCHANGED life
    BY <2>1 DEF ChangeConfig
  <2>2. ASSUME NEW c \in Configs, ChangeConfig(c) PROVE \A v \in Units : wake[v] \subseteq wake'[v]
    BY <2>2 DEF ChangeConfig
  <2>3. ASSUME NEW u \in Units, ChangeInput(u) \/ Elect(u) \/ Expect(u)
        PROVE  \A v \in Units : wake[v] \subseteq wake'[v]
    BY <1>0, <2>3 DEF ChangeInput, Elect, Expect, TypeOK
  <2>4. ASSUME NEW u \in Units, ChangeInput(u) \/ Elect(u) \/ Expect(u)
        PROVE  \A v \in Units : life[v] = "joined" <=> life'[v] = "joined"
    BY <1>0, <2>4 DEF ChangeInput, Elect, Expect, TypeOK
  <2>5. ASSUME NEW u \in Units, Join(u)
        PROVE  /\ \A v \in Units \ {u} : life'[v] = life[v] /\ wake[v] \subseteq wake'[v]
               /\ life[u] # "joined" /\ wake'[u] # {} /\ life'[u] = "joined"
    BY <1>0, <2>5 DEF Join, Joined, TypeOK
  <2>6. ASSUME NEW u \in Units, Depart(u)
        PROVE  /\ \A v \in Units \ {u} : life'[v] = life[v] /\ wake[v] \subseteq wake'[v]
               /\ pc[u] = "idle" /\ life'[u] = "gone"
    BY <1>0, <2>6 DEF Depart, TypeOK
  <2>7. \A v \in Units : pc[v] # "idle" => life[v] = "joined"
    BY <1>0 DEF Phases
  <2>8. CASE \E c \in Configs : ChangeConfig(c)
    BY <2>1, <2>2, <2>7, <2>8
  <2>9. CASE \E u \in Units : ChangeInput(u) \/ Elect(u) \/ Expect(u)
    BY <2>3, <2>4, <2>7, <2>9
  <2>10. CASE \E u \in Units : Join(u)
    BY <2>5, <2>7, <2>10
  <2>11. CASE \E u \in Units : Depart(u)
    BY <2>6, <2>7, <2>11
  <2> QED BY <2>8, <2>9, <2>10, <2>11 DEF Environment
<1>3. \A v, w \in Units : /\ life[v] = "joined" /\ life'[v] # "joined"
                          /\ life'[w] = "joined"
                          => wake'[w] # {}
  <2>1. (\E u \in Units : Depart(u)) \/ \A v \in Units : life[v] = "joined" => life'[v] = "joined"
    BY <1>0 DEF Environment, ChangeConfig, ChangeInput, Elect, Expect, Join, TypeOK
  <2>2. ASSUME NEW u \in Units, Depart(u)
        PROVE  \A v \in Units \ {u} : life'[v] = life[v] /\ (life[v] = "joined" => u \in wake'[v])
    BY <1>0, <2>2 DEF Depart, Joined, TypeOK
  <2>3. ASSUME NEW u \in Units, Depart(u) PROVE life'[u] # "joined"
    BY <1>0, <2>3 DEF Depart, TypeOK
  <2> QED BY <2>1, <2>2, <2>3
<1>4. ProgressTrue' /\ MintersWait'
  BY <1>0, <1>1 DEF HandoffParts, ProgressTrue, MintersWait, Admitted, AllCompleted, Completed,
                    Predecessors, Participants
<1>5. Reporting'
  BY <1>0, <1>1 DEF HandoffParts, Reporting, Completed, Says, Participants
<1>6. Outdated'
  <2>1. \A v \in Units : pc[v] # "idle" => wake[v] \subseteq wake'[v]
    BY <1>0, <1>2 DEF Phases
  <2> QED BY <1>0, <1>1, <2>1 DEF HandoffParts, Outdated
<1>7. \A v \in Units : life'[v] = "joined" /\ wake'[v] = {} => life[v] = "joined" /\ wake[v] = {}
  BY <1>2
<1>8. Told'
  BY <1>0, <1>1, <1>7, RolloutType DEF HandoffParts, Told, Completed, Says, Participants
<1>9. Sleepers'
  <2> SUFFICES ASSUME rollout # Nil, NEW v \in Participants(rollout), life'[v] = "joined",
                      wake'[v] = {}, ~Completed(rollout.id, v),
                      pc[v] = "idle" \/ (pc[v] = "commit" /\ ~minted[v])
               PROVE  Awaits(v)'
    BY <1>1 DEF Sleepers, Completed, Participants
  <2>1. v \in Units
    BY <1>0, RolloutType
  <2>2. Awaits(v)
    BY <1>0, <1>7, <2>1 DEF HandoffParts, Sleepers
  <2>3. \A w \in Units : life[w] = "joined" => life'[w] = "joined"
    BY <1>3, <2>1
  <2>4. Predecessors(Participants(rollout), v) \subseteq Units
    BY <1>0, RolloutType DEF Predecessors
  <2> QED BY <1>1, <2>2, <2>3, <2>4 DEF Awaits, Completed, Predecessors, Participants, Says
<1> QED BY <1>4, <1>5, <1>6, <1>8, <1>9 DEF HandoffParts

LEMMA HandoffStep == HandoffInv /\ [Next]_vars => HandoffInv'
<1> SUFFICES ASSUME HandoffInv, [Next]_vars PROVE HandoffInv'
  OBVIOUS
<1>1. TypeOK' /\ Phases'
  BY TypeStep DEF HandoffInv
<1>2. Identifiers'
  BY IdentifiersKept DEF HandoffInv
<1>3. HandoffParts'
  <2>1. CASE UNCHANGED vars
    BY <2>1 DEF vars, markVars, localVars, relationVars, envVars, hookVars, HandoffInv, HandoffParts,
                ProgressTrue, Reporting, Outdated, Told, Sleepers, MintersWait, Awaits, Says,
                Admitted, AllCompleted, Completed, Predecessors, Participants
  <2>2. ASSUME NEW u \in Units, HookStep(u) PROVE HandoffParts'
    BY <2>2, BeginHandsOff, MintHandsOff, HookStepHandsOff, AcknowledgeHandsOff, CommitHandsOff,
       LostHandsOff DEF HookStep
  <2>3. ASSUME NEW u \in Units, Fault(u) PROVE HandoffParts'
    BY <2>3, HookStepHandsOff, AcknowledgeHandsOff, LostHandsOff DEF Fault
  <2> QED BY <2>1, <2>2, <2>3, ObserveHandsOff, EnvironmentHandsOff DEF Next
<1> QED BY <1>1, <1>2, <1>3 DEF HandoffInv

(* What is told was done, and who sleeps has told it or waits for another.  *)
THEOREM HandoffInvariant == Spec => []HandoffInv
  BY HandoffInit, HandoffStep, PTL DEF Spec

(* The unit whose turn it is has an event pending, or is owed one by a      *)
(* predecessor that will run again and tells it then, unless a participant  *)
(* shows a failure: whatever hooks die, commits are refused, units leave,   *)
(* and leadership moves.                                                    *)
THEOREM HandoffNotLost == Spec => []NoLostHandoff
<1>1. HandoffInv => NoLostHandoff
  <2> SUFFICES ASSUME HandoffInv, rollout # Nil, NEW u \in Participants(rollout),
                      life[u] = "joined", pc[u] = "idle", wake[u] = {},
                      ~Completed(rollout.id, u),
                      Admitted(rollout.id, Participants(rollout), u),
                      \A v \in Participants(rollout) : status[v] # "failed"
               PROVE  \E v \in Predecessors(Participants(rollout), u) :
                        /\ pc[v] # "idle" \/ wake[v] # {}
                        /\ \/ pubProg[v] = Nil
                           \/ pubProg[v].gen # rollout.id
                           \/ pubProg[v].status # "done"
    BY DEF NoLostHandoff
  <2>1. PICK v \in Predecessors(Participants(rollout), u) :
          life[v] = "joined" /\ ~Says(pubProg[v], rollout.id)
    BY DEF HandoffInv, HandoffParts, Sleepers, Awaits, Admitted, AllCompleted
  <2>2. Completed(rollout.id, v) /\ v \in Participants(rollout)
    BY DEF Admitted, AllCompleted, Predecessors
  <2>3. pc[v] # "idle" \/ wake[v] # {}
    BY <2>1, <2>2 DEF HandoffInv, HandoffParts, Told
  <2> QED BY <2>1, <2>3 DEF Says
<1> QED BY <1>1, HandoffInvariant, PTL
================================================================================
