--------------------------- MODULE NfsSharesProof ---------------------------
(***************************************************************************)
(* What NfsShares keeps, proved for any number of units, shares, clients,  *)
(* actions and mishaps, if a new leader acts only once the old one's hook  *)
(* has ended: an action then runs alone, and where it stands says how far  *)
(* the three kinds of objects and the Ganeshas have come apart.            *)
(***************************************************************************)
EXTENDS NfsShares, TLAPS

InSetup == {"setup", "setup-counter", "setup-done"}

OneAtATime == \A u, v \in Units : ~At(u, "idle") /\ ~At(v, "idle") => u = v

\* The counter has not been raised more often than actions were started, and
\* once less when one that runs has yet to raise it.
Counting ==
  /\ counter <= FirstId + spent.actions
  /\ \A u \in Units :
       /\ action[u].pc \in {"list", "take", "count"} =>
            counter < FirstId + spent.actions
       /\ At(u, "count") => action[u].id = counter

\* Before the pool is initialised there is nothing but the first two objects.
Beginning ==
  /\ ~ready => index = {}
  /\ \A u \in Units :
       /\ action[u].pc \in InSetup => ~ready
       /\ action[u].pc \notin InSetup \cup {"idle"} =>
            ready /\ action[u].share \in Shares

\* How far the action that runs has come with the objects.
Progress ==
  \A u \in Units :
    /\ At(u, "remove") => action[u].op # "create"
    /\ At(u, "add") => Exists(action[u].id)
    /\ action[u].pc \in {"read-index", "write-index"}
         /\ action[u].op = "create" => Exists(action[u].id)
    /\ At(u, "write-index") => action[u].read = index
    /\ At(u, "erase") => action[u].id \notin index
    /\ At(u, "commit") /\ u \in up => served[u] = Loaded

SharesInv == /\ TypeOK /\ OneAtATime /\ Counting /\ Beginning /\ Progress
             /\ Loadable /\ AnnouncedIsServed

-----------------------------------------------------------------------------
(* Types                                                                   *)

LEMMA IdsAreNumbers == Ids \subseteq Nat /\ FirstId \in Ids
  BY SharesAssumption DEF Ids

LEMMA ExportTypes == /\ NoExport \in ExportType
                     /\ TypeOK => Loaded \in [Ids -> ExportType]
  BY DEF NoExport, ExportType, Loaded, TypeOK

LEMMA IdleType == Idle \in ActionType
  BY IdsAreNumbers DEF Idle, ActionType, Ops, Places

LEMMA GotoType ==
  ASSUME TypeOK, NEW u \in Units, NEW pc \in Places, Goto(u, pc)
  PROVE  action' \in [Units -> ActionType]
  BY DEF TypeOK, Goto, ActionType

LEMMA FieldTypes ==
  ASSUME NEW a \in ActionType, NEW pc \in Places, NEW id \in Ids,
         NEW read \in SUBSET Ids
  PROVE  /\ [a EXCEPT !.pc = pc, !.id = id] \in ActionType
         /\ [a EXCEPT !.pc = pc, !.read = read] \in ActionType
  BY DEF ActionType

LEMMA MishapType ==
  ASSUME TypeOK, Mishap
  PROVE  /\ spent' \in [actions : 0 .. MaxActions, mishaps : 0 .. MaxMishaps]
         /\ spent'.actions = spent.actions
  BY SharesAssumption DEF TypeOK, Mishap

-----------------------------------------------------------------------------
(* Each step keeps the types                                             *)

LEMMA SetupType ==
  ASSUME SharesInv, NEW u \in Units, Setup(u) PROVE TypeOK'
<1> USE DEF SharesInv, Setup, Free, Quiet, At, OnlyAction, pool, daemons, peers
<1>1. action' \in [Units -> ActionType]
  <2>1. [[Idle EXCEPT !.op = "setup"] EXCEPT !.pc = "setup"] \in ActionType
    BY IdsAreNumbers DEF Idle, ActionType, Ops, Places
  <2>2. QED
    BY <2>1 DEF TypeOK
<1>2. QED
  BY <1>1 DEF TypeOK

LEMMA SetupIndexType ==
  ASSUME SharesInv, NEW u \in Units, SetupIndex(u) PROVE TypeOK'
<1> USE DEF SharesInv, SetupIndex, At, OnlyAction, pool, daemons, peers
<1>1. action' \in [Units -> ActionType]
  BY GotoType DEF Places
<1>2. QED
  BY <1>1, SharesAssumption, IdsAreNumbers, ExportTypes, MishapType
     DEF TypeOK, Counting, Beginning, InSetup, Ids

LEMMA SetupCounterType ==
  ASSUME SharesInv, NEW u \in Units, SetupCounter(u) PROVE TypeOK'
<1> USE DEF SharesInv, SetupCounter, At, OnlyAction, pool, daemons, peers
<1>1. action' \in [Units -> ActionType]
  BY GotoType DEF Places
<1>2. QED
  BY <1>1, SharesAssumption, IdsAreNumbers, ExportTypes, MishapType
     DEF TypeOK, Counting, Beginning, InSetup, Ids

LEMMA SetupDoneType ==
  ASSUME SharesInv, NEW u \in Units, SetupDone(u) PROVE TypeOK'
<1> USE DEF SharesInv, SetupDone, At, OnlyAction, pool, daemons, peers
<1>1. action' \in [Units -> ActionType]
  BY IdleType DEF TypeOK
<1>2. QED
  BY <1>1, SharesAssumption, IdsAreNumbers, ExportTypes, MishapType
     DEF TypeOK, Counting, Beginning, InSetup, Ids

LEMMA TakeIdType ==
  ASSUME SharesInv, NEW u \in Units, TakeId(u) PROVE TypeOK'
<1> USE DEF SharesInv, TakeId, At, OnlyAction, pool, daemons, peers
<1>1. action' \in [Units -> ActionType]
  BY FieldTypes DEF TypeOK, Places
<1>2. QED
  BY <1>1, SharesAssumption, IdsAreNumbers, ExportTypes, MishapType
     DEF TypeOK, Counting, Beginning, InSetup, Ids

LEMMA CountIdType ==
  ASSUME SharesInv, NEW u \in Units, CountId(u) PROVE TypeOK'
<1> USE DEF SharesInv, CountId, At, OnlyAction, pool, daemons, peers
<1>1. action' \in [Units -> ActionType]
  BY GotoType DEF Places
<1>2. QED
  BY <1>1, SharesAssumption, IdsAreNumbers, ExportTypes, MishapType
     DEF TypeOK, Counting, Beginning, InSetup, Ids

LEMMA PutExportType ==
  ASSUME SharesInv, NEW u \in Units, PutExport(u) PROVE TypeOK'
<1> USE DEF SharesInv, PutExport, At, OnlyAction, pool, daemons, peers
<1>1. action' \in [Units -> ActionType]
  BY GotoType DEF Places
<1>2. [name |-> action[u].share, clients |-> action[u].clients] \in ExportType
  BY DEF TypeOK, ActionType, ExportType
<1>3. exports' \in [Ids -> ExportType]
  BY <1>2 DEF TypeOK
<1>4. QED
  BY <1>1, <1>3 DEF TypeOK

LEMMA ReadIndexType ==
  ASSUME SharesInv, NEW u \in Units, ReadIndex(u) PROVE TypeOK'
<1> USE DEF SharesInv, ReadIndex, At, OnlyAction, pool, daemons, peers
<1>1. action' \in [Units -> ActionType]
  BY FieldTypes DEF TypeOK, Places
<1>2. QED
  BY <1>1, SharesAssumption, IdsAreNumbers, ExportTypes, MishapType
     DEF TypeOK, Counting, Beginning, InSetup, Ids

LEMMA WriteIndexType ==
  ASSUME SharesInv, NEW u \in Units, WriteIndex(u) PROVE TypeOK'
<1> USE DEF SharesInv, WriteIndex, At, OnlyAction, pool, daemons, peers
<1>1. action' \in [Units -> ActionType]
  BY GotoType DEF Places
<1>2. action[u].id \in Ids /\ action[u].read \subseteq Ids
  BY DEF TypeOK, ActionType
<1>3. QED
  BY <1>1, <1>2 DEF TypeOK

LEMMA EraseExportType ==
  ASSUME SharesInv, NEW u \in Units, EraseExport(u) PROVE TypeOK'
<1> USE DEF SharesInv, EraseExport, At, OnlyAction, pool, daemons, peers
<1>1. action' \in [Units -> ActionType]
  BY GotoType DEF Places
<1>2. QED
  BY <1>1, SharesAssumption, IdsAreNumbers, ExportTypes, MishapType
     DEF TypeOK, Counting, Beginning, InSetup, Ids

LEMMA TriggerReloadType ==
  ASSUME SharesInv, NEW u \in Units, TriggerReload(u) PROVE TypeOK'
<1> USE DEF SharesInv, TriggerReload, Reload, At, OnlyAction, pool, daemons,
            peers
<1>1. action' \in [Units -> ActionType]
  BY GotoType DEF Places
<1>2. QED
  BY <1>1, SharesAssumption, IdsAreNumbers, ExportTypes, MishapType
     DEF TypeOK, Counting, Beginning, InSetup, Ids

LEMMA SucceedType ==
  ASSUME SharesInv, NEW u \in Units, Succeed(u) PROVE TypeOK'
<1> USE DEF SharesInv, Succeed, At, OnlyAction, pool, daemons, peers
<1>1. action' \in [Units -> ActionType]
  BY IdleType DEF TypeOK
<1>2. QED
  BY <1>1, SharesAssumption, IdsAreNumbers, ExportTypes, MishapType
     DEF TypeOK, Counting, Beginning, InSetup, Ids

LEMMA FailType ==
  ASSUME SharesInv, NEW u \in Units, Fail(u) PROVE TypeOK'
<1> USE DEF SharesInv, Fail, At, OnlyAction, pool, daemons, peers
<1>1. action' \in [Units -> ActionType]
  BY IdleType DEF TypeOK
<1>2. QED
  BY <1>1, SharesAssumption, IdsAreNumbers, ExportTypes, MishapType
     DEF TypeOK, Counting, Beginning, InSetup, Ids

LEMMA AbortType ==
  ASSUME SharesInv, NEW u \in Units, Abort(u) PROVE TypeOK'
<1> USE DEF SharesInv, Abort, At, OnlyAction, pool, daemons, peers
<1>1. action' \in [Units -> ActionType]
  BY IdleType DEF TypeOK
<1>2. QED
  BY <1>1, SharesAssumption, IdsAreNumbers, ExportTypes, MishapType
     DEF TypeOK, Counting, Beginning, InSetup, Ids

LEMMA RelationChangedType ==
  ASSUME SharesInv, NEW u \in Units, RelationChanged(u) PROVE TypeOK'
<1> USE DEF SharesInv, RelationChanged, Reload, At, OnlyAction, pool, daemons,
            peers
<1>1. served' \in [Units -> [Ids -> ExportType]]
  BY ExportTypes DEF TypeOK
<1>2. up' \subseteq Units
  BY DEF TypeOK
<1>3. QED
  BY <1>1, <1>2 DEF TypeOK

LEMMA GaneshaDiesType ==
  ASSUME SharesInv, NEW u \in Units, GaneshaDies(u) PROVE TypeOK'
<1> USE DEF SharesInv, GaneshaDies, At, OnlyAction, pool, daemons, peers
<1>1. action' \in [Units -> ActionType]
  BY DEF TypeOK
<1>2. QED
  BY <1>1, SharesAssumption, IdsAreNumbers, ExportTypes, MishapType
     DEF TypeOK, Counting, Beginning, InSetup, Ids

LEMMA GaneshaStartsType ==
  ASSUME SharesInv, NEW u \in Units, GaneshaStarts(u) PROVE TypeOK'
<1> USE DEF SharesInv, GaneshaStarts, At, OnlyAction, pool, daemons, peers
<1>1. action' \in [Units -> ActionType]
  BY DEF TypeOK
<1>2. QED
  BY <1>1, SharesAssumption, IdsAreNumbers, ExportTypes, MishapType
     DEF TypeOK, Counting, Beginning, InSetup, Ids

-----------------------------------------------------------------------------
(* Each step keeps the rest of the invariant                             *)

LEMMA SetupKeeps ==
  ASSUME SharesInv, HandoverWaits, NEW u \in Units, Setup(u) PROVE SharesInv'
<1> USE DEF SharesInv, Setup, Free, Quiet, Idle, At, Goto, OnlyAction, pool,
            daemons, peers
<1>1. TypeOK'
  BY SetupType
<1>2. OneAtATime'
  BY DEF OneAtATime, TypeOK
<1>3. Counting'
  BY SharesAssumption, IdsAreNumbers, MishapType
     DEF Counting, TypeOK, OneAtATime
<1>4. Beginning'
  BY DEF Beginning, InSetup, TypeOK, OneAtATime
<1>5. Progress'
  BY DEF Progress, TypeOK, OneAtATime, Exists, Loaded
<1>6. Loadable'
  BY DEF Loadable, Exists, Progress, TypeOK, Beginning, InSetup
<1>7. AnnouncedIsServed'
  BY DEF AnnouncedIsServed, Loaded, Progress, TypeOK, Beginning,
        InSetup
<1>8. QED
  BY <1>1, <1>2, <1>3, <1>4, <1>5, <1>6, <1>7

LEMMA SetupIndexKeeps ==
  ASSUME SharesInv, NEW u \in Units, SetupIndex(u) PROVE SharesInv'
<1> USE DEF SharesInv, SetupIndex, At, Goto, OnlyAction, pool, daemons, peers
<1>1. TypeOK'
  BY SetupIndexType
<1>2. OneAtATime'
  BY DEF OneAtATime, TypeOK
<1>3. Counting'
  BY SharesAssumption, IdsAreNumbers, MishapType
     DEF Counting, TypeOK, OneAtATime
<1>4. Beginning'
  BY DEF Beginning, InSetup, TypeOK, OneAtATime
<1>5. Progress'
  BY DEF Progress, TypeOK, OneAtATime, Exists, Loaded
<1>6. Loadable'
  BY DEF Loadable, Exists, Progress, TypeOK, Beginning, InSetup
<1>7. AnnouncedIsServed'
  BY DEF AnnouncedIsServed, Loaded, Progress, TypeOK, Beginning,
        InSetup
<1>8. QED
  BY <1>1, <1>2, <1>3, <1>4, <1>5, <1>6, <1>7

LEMMA SetupCounterKeeps ==
  ASSUME SharesInv, NEW u \in Units, SetupCounter(u) PROVE SharesInv'
<1> USE DEF SharesInv, SetupCounter, At, Goto, OnlyAction, pool, daemons, peers
<1>1. TypeOK'
  BY SetupCounterType
<1>2. OneAtATime'
  BY DEF OneAtATime, TypeOK
<1>3. Counting'
  BY SharesAssumption, IdsAreNumbers, MishapType
     DEF Counting, TypeOK, OneAtATime
<1>4. Beginning'
  BY DEF Beginning, InSetup, TypeOK, OneAtATime
<1>5. Progress'
  BY DEF Progress, TypeOK, OneAtATime, Exists, Loaded
<1>6. Loadable'
  BY DEF Loadable, Exists, Progress, TypeOK, Beginning, InSetup
<1>7. AnnouncedIsServed'
  BY DEF AnnouncedIsServed, Loaded, Progress, TypeOK, Beginning,
        InSetup
<1>8. QED
  BY <1>1, <1>2, <1>3, <1>4, <1>5, <1>6, <1>7

LEMMA SetupDoneKeeps ==
  ASSUME SharesInv, NEW u \in Units, SetupDone(u) PROVE SharesInv'
<1> USE DEF SharesInv, SetupDone, Idle, At, Goto, OnlyAction, pool, daemons,
            peers
<1>1. TypeOK'
  BY SetupDoneType
<1>2. OneAtATime'
  BY DEF OneAtATime, TypeOK
<1>3. Counting'
  BY SharesAssumption, IdsAreNumbers, MishapType
     DEF Counting, TypeOK, OneAtATime
<1>4. Beginning'
  BY DEF Beginning, InSetup, TypeOK, OneAtATime
<1>5. Progress'
  BY DEF Progress, TypeOK, OneAtATime, Exists, Loaded
<1>6. Loadable'
  BY DEF Loadable, Exists, Progress, TypeOK, Beginning, InSetup
<1>7. AnnouncedIsServed'
  BY DEF AnnouncedIsServed, Loaded, Progress, TypeOK, Beginning,
        InSetup
<1>8. QED
  BY <1>1, <1>2, <1>3, <1>4, <1>5, <1>6, <1>7

LEMMA TakeIdKeeps ==
  ASSUME SharesInv, NEW u \in Units, TakeId(u) PROVE SharesInv'
<1> USE DEF SharesInv, TakeId, At, Goto, OnlyAction, pool, daemons, peers
<1>1. TypeOK'
  BY TakeIdType
<1>2. OneAtATime'
  BY DEF OneAtATime, TypeOK
<1>3. Counting'
  BY SharesAssumption, IdsAreNumbers, MishapType
     DEF Counting, TypeOK, OneAtATime
<1>4. Beginning'
  BY DEF Beginning, InSetup, TypeOK, OneAtATime
<1>5. Progress'
  BY DEF Progress, TypeOK, OneAtATime, Exists, Loaded
<1>6. Loadable'
  BY DEF Loadable, Exists, Progress, TypeOK, Beginning, InSetup
<1>7. AnnouncedIsServed'
  BY DEF AnnouncedIsServed, Loaded, Progress, TypeOK, Beginning,
        InSetup
<1>8. QED
  BY <1>1, <1>2, <1>3, <1>4, <1>5, <1>6, <1>7

LEMMA CountIdKeeps ==
  ASSUME SharesInv, NEW u \in Units, CountId(u) PROVE SharesInv'
<1> USE DEF SharesInv, CountId, At, Goto, OnlyAction, pool, daemons, peers
<1>1. TypeOK'
  BY CountIdType
<1>2. OneAtATime'
  BY DEF OneAtATime, TypeOK
<1>3. Counting'
  BY SharesAssumption, IdsAreNumbers, MishapType
     DEF Counting, TypeOK, OneAtATime
<1>4. Beginning'
  BY DEF Beginning, InSetup, TypeOK, OneAtATime
<1>5. Progress'
  BY DEF Progress, TypeOK, OneAtATime, Exists, Loaded
<1>6. Loadable'
  BY DEF Loadable, Exists, Progress, TypeOK, Beginning, InSetup
<1>7. AnnouncedIsServed'
  BY DEF AnnouncedIsServed, Loaded, Progress, TypeOK, Beginning,
        InSetup
<1>8. QED
  BY <1>1, <1>2, <1>3, <1>4, <1>5, <1>6, <1>7

LEMMA PutExportKeeps ==
  ASSUME SharesInv, NEW u \in Units, PutExport(u) PROVE SharesInv'
<1> USE DEF SharesInv, PutExport, At, Goto, OnlyAction, pool, daemons, peers
<1>1. TypeOK'
  BY PutExportType
<1>2. OneAtATime'
  BY DEF OneAtATime, TypeOK
<1>3. Counting'
  BY SharesAssumption, IdsAreNumbers, MishapType
     DEF Counting, TypeOK, OneAtATime
<1>4. Beginning'
  BY DEF Beginning, InSetup, TypeOK, OneAtATime
<1>5. Progress'
  <2>1. action[u].id \in Ids /\ action[u].share \in Shares
    BY DEF TypeOK, ActionType, Beginning, InSetup
  <2>2. Exists(action[u].id)'
    BY <2>1, SharesAssumption DEF TypeOK, Exists, NoExport
  <2>3. QED
    BY <2>2 DEF Progress, TypeOK, OneAtATime
<1>6. Loadable'
  <2>1. action[u].id \in Ids /\ action[u].share \in Shares
    BY DEF TypeOK, ActionType, Beginning, InSetup
  <2>2. QED
    BY <2>1, SharesAssumption DEF Loadable, TypeOK, Exists, NoExport
<1>7. AnnouncedIsServed'
  BY DEF AnnouncedIsServed, Loaded, Progress, TypeOK, Beginning,
        InSetup
<1>8. QED
  BY <1>1, <1>2, <1>3, <1>4, <1>5, <1>6, <1>7

LEMMA ReadIndexKeeps ==
  ASSUME SharesInv, NEW u \in Units, ReadIndex(u) PROVE SharesInv'
<1> USE DEF SharesInv, ReadIndex, At, Goto, OnlyAction, pool, daemons, peers
<1>1. TypeOK'
  BY ReadIndexType
<1>2. OneAtATime'
  BY DEF OneAtATime, TypeOK
<1>3. Counting'
  BY SharesAssumption, IdsAreNumbers, MishapType
     DEF Counting, TypeOK, OneAtATime
<1>4. Beginning'
  BY DEF Beginning, InSetup, TypeOK, OneAtATime
<1>5. Progress'
  BY DEF Progress, TypeOK, OneAtATime, Exists, Loaded
<1>6. Loadable'
  BY DEF Loadable, Exists, Progress, TypeOK, Beginning, InSetup
<1>7. AnnouncedIsServed'
  BY DEF AnnouncedIsServed, Loaded, Progress, TypeOK, Beginning,
        InSetup
<1>8. QED
  BY <1>1, <1>2, <1>3, <1>4, <1>5, <1>6, <1>7

LEMMA WriteIndexKeeps ==
  ASSUME SharesInv, NEW u \in Units, WriteIndex(u) PROVE SharesInv'
<1> USE DEF SharesInv, WriteIndex, At, Goto, OnlyAction, pool, daemons, peers
<1>1. TypeOK'
  BY WriteIndexType
<1>2. OneAtATime'
  BY DEF OneAtATime, TypeOK
<1>3. Counting'
  BY SharesAssumption, IdsAreNumbers, MishapType
     DEF Counting, TypeOK, OneAtATime
<1>4. Beginning'
  BY DEF Beginning, InSetup, TypeOK, OneAtATime
<1>5. Progress'
  BY DEF Progress, TypeOK, OneAtATime, Exists, Loaded
<1>6. Loadable'
  BY DEF Loadable, Exists, Progress, TypeOK, Beginning, InSetup
<1>7. AnnouncedIsServed'
  BY DEF AnnouncedIsServed, Loaded, Progress, TypeOK, Beginning,
        InSetup
<1>8. QED
  BY <1>1, <1>2, <1>3, <1>4, <1>5, <1>6, <1>7

LEMMA EraseExportKeeps ==
  ASSUME SharesInv, NEW u \in Units, EraseExport(u) PROVE SharesInv'
<1> USE DEF SharesInv, EraseExport, At, Goto, OnlyAction, pool, daemons, peers
<1>1. TypeOK'
  BY EraseExportType
<1>2. OneAtATime'
  BY DEF OneAtATime, TypeOK
<1>3. Counting'
  BY SharesAssumption, IdsAreNumbers, MishapType
     DEF Counting, TypeOK, OneAtATime
<1>4. Beginning'
  BY DEF Beginning, InSetup, TypeOK, OneAtATime
<1>5. Progress'
  BY DEF Progress, TypeOK, OneAtATime, Exists, Loaded
<1>6. Loadable'
  BY DEF Loadable, Exists, Progress, TypeOK, Beginning, InSetup
<1>7. AnnouncedIsServed'
  BY DEF AnnouncedIsServed, Loaded, Progress, TypeOK, Beginning,
        InSetup
<1>8. QED
  BY <1>1, <1>2, <1>3, <1>4, <1>5, <1>6, <1>7

LEMMA TriggerReloadKeeps ==
  ASSUME SharesInv, NEW u \in Units, TriggerReload(u) PROVE SharesInv'
<1> USE DEF SharesInv, TriggerReload, Reload, At, Goto, OnlyAction, pool,
            daemons, peers
<1>1. TypeOK'
  BY TriggerReloadType
<1>2. OneAtATime'
  BY DEF OneAtATime, TypeOK
<1>3. Counting'
  BY SharesAssumption, IdsAreNumbers, MishapType
     DEF Counting, TypeOK, OneAtATime
<1>4. Beginning'
  BY DEF Beginning, InSetup, TypeOK, OneAtATime
<1>5. Progress'
  BY DEF Progress, TypeOK, OneAtATime, Exists, Loaded
<1>6. Loadable'
  BY DEF Loadable, Exists, Progress, TypeOK, Beginning, InSetup
<1>7. AnnouncedIsServed'
  BY DEF AnnouncedIsServed, Loaded, Progress, TypeOK, Beginning,
        InSetup
<1>8. QED
  BY <1>1, <1>2, <1>3, <1>4, <1>5, <1>6, <1>7

LEMMA SucceedKeeps ==
  ASSUME SharesInv, NEW u \in Units, Succeed(u) PROVE SharesInv'
<1> USE DEF SharesInv, Succeed, Idle, At, Goto, OnlyAction, pool, daemons, peers
<1>1. TypeOK'
  BY SucceedType
<1>2. OneAtATime'
  BY DEF OneAtATime, TypeOK
<1>3. Counting'
  BY SharesAssumption, IdsAreNumbers, MishapType
     DEF Counting, TypeOK, OneAtATime
<1>4. Beginning'
  BY DEF Beginning, InSetup, TypeOK, OneAtATime
<1>5. Progress'
  BY DEF Progress, TypeOK, OneAtATime, Exists, Loaded
<1>6. Loadable'
  BY DEF Loadable, Exists, Progress, TypeOK, Beginning, InSetup
<1>7. AnnouncedIsServed'
  BY DEF AnnouncedIsServed, Loaded, Progress, TypeOK, Beginning,
        InSetup
<1>8. QED
  BY <1>1, <1>2, <1>3, <1>4, <1>5, <1>6, <1>7

LEMMA FailKeeps ==
  ASSUME SharesInv, NEW u \in Units, Fail(u) PROVE SharesInv'
<1> USE DEF SharesInv, Fail, Idle, At, Goto, OnlyAction, pool, daemons, peers
<1>1. TypeOK'
  BY FailType
<1>2. OneAtATime'
  BY DEF OneAtATime, TypeOK
<1>3. Counting'
  BY SharesAssumption, IdsAreNumbers, MishapType
     DEF Counting, TypeOK, OneAtATime
<1>4. Beginning'
  BY DEF Beginning, InSetup, TypeOK, OneAtATime
<1>5. Progress'
  BY DEF Progress, TypeOK, OneAtATime, Exists, Loaded
<1>6. Loadable'
  BY DEF Loadable, Exists, Progress, TypeOK, Beginning, InSetup
<1>7. AnnouncedIsServed'
  BY DEF AnnouncedIsServed, Loaded, Progress, TypeOK, Beginning,
        InSetup
<1>8. QED
  BY <1>1, <1>2, <1>3, <1>4, <1>5, <1>6, <1>7

LEMMA AbortKeeps ==
  ASSUME SharesInv, NEW u \in Units, Abort(u) PROVE SharesInv'
<1> USE DEF SharesInv, Abort, Idle, At, Goto, OnlyAction, pool, daemons, peers
<1>1. TypeOK'
  BY AbortType
<1>2. OneAtATime'
  BY DEF OneAtATime, TypeOK
<1>3. Counting'
  BY SharesAssumption, IdsAreNumbers, MishapType
     DEF Counting, TypeOK, OneAtATime
<1>4. Beginning'
  BY DEF Beginning, InSetup, TypeOK, OneAtATime
<1>5. Progress'
  BY DEF Progress, TypeOK, OneAtATime, Exists, Loaded
<1>6. Loadable'
  BY DEF Loadable, Exists, Progress, TypeOK, Beginning, InSetup
<1>7. AnnouncedIsServed'
  BY DEF AnnouncedIsServed, Loaded, Progress, TypeOK, Beginning,
        InSetup
<1>8. QED
  BY <1>1, <1>2, <1>3, <1>4, <1>5, <1>6, <1>7

LEMMA RelationChangedKeeps ==
  ASSUME SharesInv, NEW u \in Units, RelationChanged(u) PROVE SharesInv'
<1> USE DEF SharesInv, RelationChanged, Reload, At, Goto, OnlyAction, pool,
            daemons, peers
<1>1. TypeOK'
  BY RelationChangedType
<1>2. OneAtATime'
  BY DEF OneAtATime, TypeOK
<1>3. Counting'
  BY SharesAssumption, IdsAreNumbers, MishapType
     DEF Counting, TypeOK, OneAtATime
<1>4. Beginning'
  BY DEF Beginning, InSetup, TypeOK, OneAtATime
<1>5. Progress'
  <2>1. ASSUME NEW v \in Units, At(v, "commit"), v \in up'
        PROVE  v \in up /\ served'[v] = served[v]
    BY <2>1 DEF TypeOK
  <2>2. QED
    BY <2>1 DEF Progress, Exists, Loaded
<1>6. Loadable'
  BY DEF Loadable, Exists, Progress, TypeOK, Beginning, InSetup
<1>7. AnnouncedIsServed'
  BY DEF AnnouncedIsServed, Loaded, Progress, TypeOK, Beginning,
        InSetup
<1>8. QED
  BY <1>1, <1>2, <1>3, <1>4, <1>5, <1>6, <1>7

LEMMA GaneshaDiesKeeps ==
  ASSUME SharesInv, NEW u \in Units, GaneshaDies(u) PROVE SharesInv'
<1> USE DEF SharesInv, GaneshaDies, At, Goto, OnlyAction, pool, daemons, peers
<1>1. TypeOK'
  BY GaneshaDiesType
<1>2. OneAtATime'
  BY DEF OneAtATime, TypeOK
<1>3. Counting'
  BY SharesAssumption, IdsAreNumbers, MishapType
     DEF Counting, TypeOK, OneAtATime
<1>4. Beginning'
  BY DEF Beginning, InSetup, TypeOK, OneAtATime
<1>5. Progress'
  BY DEF Progress, TypeOK, OneAtATime, Exists, Loaded
<1>6. Loadable'
  BY DEF Loadable, Exists, Progress, TypeOK, Beginning, InSetup
<1>7. AnnouncedIsServed'
  BY DEF AnnouncedIsServed, Loaded, Progress, TypeOK, Beginning,
        InSetup
<1>8. QED
  BY <1>1, <1>2, <1>3, <1>4, <1>5, <1>6, <1>7

LEMMA GaneshaStartsKeeps ==
  ASSUME SharesInv, NEW u \in Units, GaneshaStarts(u) PROVE SharesInv'
<1> USE DEF SharesInv, GaneshaStarts, At, Goto, OnlyAction, pool, daemons, peers
<1>1. TypeOK'
  BY GaneshaStartsType
<1>2. OneAtATime'
  BY DEF OneAtATime, TypeOK
<1>3. Counting'
  BY SharesAssumption, IdsAreNumbers, MishapType
     DEF Counting, TypeOK, OneAtATime
<1>4. Beginning'
  BY DEF Beginning, InSetup, TypeOK, OneAtATime
<1>5. Progress'
  BY DEF Progress, TypeOK, OneAtATime, Exists, Loaded
<1>6. Loadable'
  BY DEF Loadable, Exists, Progress, TypeOK, Beginning, InSetup
<1>7. AnnouncedIsServed'
  BY DEF AnnouncedIsServed, Loaded, Progress, TypeOK, Beginning,
        InSetup
<1>8. QED
  BY <1>1, <1>2, <1>3, <1>4, <1>5, <1>6, <1>7

-----------------------------------------------------------------------------
(* The steps over D-Bus                                                  *)

LEMMA DbusKeeps ==
  ASSUME SharesInv, NEW u \in Units, NEW accepted, NEW export \in ExportType,
         NEW next \in {"read-index", "reload"}, Dbus(u, accepted, export, next),
         action[u].pc \in {"add", "update", "remove"},
         next = "read-index" /\ action[u].op = "create" => Exists(action[u].id)
  PROVE  SharesInv'
<1> DEFINE pc == action'[u].pc
<1> USE DEF SharesInv, At, pool, peers
<1>1. \/ Goto(u, next) /\ announced' = FALSE
         /\ served' = [served EXCEPT ![u][action[u].id] = export]
      \/ Goto(u, "failed") /\ UNCHANGED <<served, announced>>
  BY DEF Dbus
<1>2. /\ action' \in [Units -> ActionType]
      /\ action'[u] = [action[u] EXCEPT !.pc = pc] /\ pc \in {next, "failed"}
      /\ \A v \in Units \ {u} : action'[v] = action[v]
  <2>1. PICK p \in {next, "failed"} : Goto(u, p)
    BY <1>1
  <2>2. p \in Places
    BY <2>1 DEF Places
  <2>3. action' \in [Units -> ActionType]
    BY <2>1, <2>2, GotoType
  <2>4. /\ action'[u] = [action[u] EXCEPT !.pc = p]
        /\ \A v \in Units \ {u} : action'[v] = action[v]
    BY <2>1 DEF Goto, TypeOK
  <2>5. pc = p
    BY <2>4 DEF TypeOK, ActionType
  <2>6. QED
    BY <2>1, <2>3, <2>4, <2>5
<1>3. /\ served' \in [Units -> [Ids -> ExportType]]
      /\ announced' = FALSE \/ UNCHANGED <<announced, served>>
  <2>1. served \in [Units -> [Ids -> ExportType]]
    BY DEF TypeOK
  <2>2. [served[u] EXCEPT ![action[u].id] = export] \in [Ids -> ExportType]
    BY <2>1
  <2>3. [served EXCEPT ![u][action[u].id] = export]
          \in [Units -> [Ids -> ExportType]]
    BY <2>1, <2>2
  <2>4. announced' \in BOOLEAN
    BY <1>1 DEF TypeOK
  <2>5. QED
    BY <1>1, <2>1, <2>3
<1>4. UNCHANGED <<leader, exports, index, counter, up, ready, told, restart,
                 spent>>
  BY DEF Dbus
<1>5. /\ action'[u].op = action[u].op /\ action'[u].share = action[u].share
      /\ action'[u].id = action[u].id /\ action'[u].read = action[u].read
  BY <1>2 DEF TypeOK, ActionType
<1>6. \A v \in Units \ {u} : action[v].pc = "idle"
  BY DEF OneAtATime
<1> HIDE DEF pc
<1>7. TypeOK'
  BY <1>2, <1>3, <1>4 DEF TypeOK, Ids
<1>8. OneAtATime'
  BY <1>2, <1>6 DEF OneAtATime
<1>9. Counting'
  BY <1>2, <1>4, <1>5, <1>6 DEF Counting, pc
<1>10. Beginning'
  BY <1>2, <1>4, <1>5, <1>6 DEF Beginning, InSetup, pc
<1>11. Progress'
  BY <1>2, <1>4, <1>5, <1>6 DEF Progress, Exists, pc
<1>12. Loadable' /\ AnnouncedIsServed'
  BY <1>3, <1>4 DEF Loadable, AnnouncedIsServed, Loaded, Exists
<1>13. QED
  BY <1>7, <1>8, <1>9, <1>10, <1>11, <1>12

LEMMA DbusStepKeeps ==
  ASSUME SharesInv, NEW u \in Units,
         AddExport(u) \/ UpdateExport(u) \/ RemoveExport(u)
  PROVE  SharesInv'
<1>1. action[u].id \in Ids /\ exports[action[u].id] \in ExportType
  BY DEF SharesInv, TypeOK, ActionType
<1>2. CASE AddExport(u)
  BY <1>1, <1>2, DbusKeeps DEF AddExport, At, SharesInv, Progress
<1>3. CASE UpdateExport(u)
  BY <1>1, <1>3, DbusKeeps DEF UpdateExport, At, SharesInv, Progress
<1>4. CASE RemoveExport(u)
  BY <1>1, <1>4, ExportTypes, DbusKeeps
     DEF RemoveExport, At, SharesInv, Progress
<1>5. QED
  BY <1>2, <1>3, <1>4

-----------------------------------------------------------------------------
(* List: where it leads, with what                                         *)

Found == {"unreadable", "take", "reload", "failed", "remove", "put"}

LEMMA ListLeads ==
  ASSUME SharesInv, NEW u \in Units, List(u)
  PROVE  \E a \in ActionType :
           /\ action' = [action EXCEPT ![u] = a]
           /\ a.pc \in Found /\ a.share = action[u].share
           /\ a.pc = "remove" => a.op # "create"
<1> DEFINE me == action[u]
           found == Named(me.share)
           id == CHOOSE i \in found : TRUE
<1>1. me \in ActionType /\ me.pc = "list"
  BY DEF SharesInv, TypeOK, List, At
<1>2. CASE ~Readable
  <2>1. action' = [action EXCEPT ![u] = [me EXCEPT !.pc = "unreadable"]]
    BY <1>2 DEF List
  <2>2. [me EXCEPT !.pc = "unreadable"] \in ActionType
    BY <1>1 DEF ActionType, Places
  <2>3. QED
    BY <1>1, <2>1, <2>2 DEF ActionType, Found
<1>3. CASE Readable /\ found = {}
  <2>1. PICK p \in {"take", "reload", "failed"} :
          action' = [action EXCEPT ![u] = [me EXCEPT !.pc = p]]
    BY <1>3 DEF List
  <2>2. [me EXCEPT !.pc = p] \in ActionType
    BY <1>1 DEF ActionType, Places
  <2>3. QED
    BY <1>1, <2>1, <2>2 DEF ActionType, Found
<1>4. CASE Readable /\ found # {}
  <2>1. id \in Ids /\ exports[id].clients \subseteq Clients
    <3>1. id \in found
      BY <1>4
    <3>2. QED
      BY <3>1 DEF Named, SharesInv, TypeOK, ExportType
  <2> DEFINE p == CASE me.op = "create" -> "reload"
                    [] me.op = "delete" -> "remove"
                    [] OTHER -> "put"
             C == CASE me.op = "grant" -> exports[id].clients \cup me.clients
                    [] me.op = "revoke" -> exports[id].clients \ me.clients
                    [] OTHER -> me.clients
  <2>2. action' = [action EXCEPT ![u] =
                    [me EXCEPT !.id = id, !.pc = p, !.clients = C]]
    BY <1>4 DEF List
  <2>3. p \in {"reload", "remove", "put"} /\ (p = "remove" => me.op # "create")
    OBVIOUS
  <2>4. C \subseteq Clients
    BY <1>1, <2>1 DEF ActionType
  <2> HIDE DEF p, C
  <2>5. p \in Places
    BY <2>3 DEF Places
  <2>6. [me EXCEPT !.id = id, !.pc = p, !.clients = C] \in ActionType
    BY <1>1, <2>1, <2>5, <2>4 DEF ActionType
  <2>7. QED
    BY <1>1, <2>2, <2>3, <2>6 DEF ActionType, Found
<1>5. QED
  BY <1>2, <1>3, <1>4

LEMMA ListKeeps ==
  ASSUME SharesInv, NEW u \in Units, List(u) PROVE SharesInv'
<1> SUFFICES ASSUME NEW a \in ActionType, action' = [action EXCEPT ![u] = a],
                    a.pc \in Found, a.share = action[u].share,
                    a.pc = "remove" => a.op # "create"
             PROVE  SharesInv'
  BY ListLeads
<1>1. action \in [Units -> ActionType]
  BY DEF SharesInv, TypeOK
<1>2. /\ action' \in [Units -> ActionType] /\ action'[u] = a
      /\ \A v \in Units \ {u} : action'[v] = action[v]
  BY <1>1
<1>3. /\ UNCHANGED <<leader, ready, exports, index, counter, served, up, told,
                     restart, announced, spent>>
      /\ At(u, "list")
  BY DEF List, OnlyAction, pool, daemons, peers
<1>4. \A v \in Units \ {u} : At(v, "idle")
  BY <1>3 DEF SharesInv, OneAtATime, At
<1> USE DEF SharesInv, At
<1>5. TypeOK'
  BY <1>2, <1>3 DEF TypeOK, Ids
<1>6. OneAtATime'
  BY <1>2, <1>4 DEF OneAtATime
<1>7. Counting'
  BY <1>2, <1>3, <1>4 DEF Counting, Found
<1>8. Beginning'
  BY <1>2, <1>3, <1>4 DEF Beginning, InSetup, Found
<1>9. Progress'
  BY <1>2, <1>3, <1>4 DEF Progress, Found
<1>10. Loadable' /\ AnnouncedIsServed'
  BY <1>3 DEF Loadable, AnnouncedIsServed, Loaded, Exists
<1>11. QED
  BY <1>5, <1>6, <1>7, <1>8, <1>9, <1>10

-----------------------------------------------------------------------------
(* An action begins                                                      *)

LEMMA StartKeeps ==
  ASSUME SharesInv, HandoverWaits, NEW u \in Units,
         NEW op \in {"create", "delete", "grant", "revoke"},
         NEW s \in Shares, NEW C \in SUBSET Clients, Start(u, op, s, C)
  PROVE  SharesInv'
<1> DEFINE a == [Idle EXCEPT !.op = op, !.pc = "list",
                      !.share = s, !.clients = C]
<1>1. a \in ActionType /\ a.pc = "list" /\ a.share = s
  BY IdsAreNumbers DEF Idle, ActionType, Ops, Places
<1>2. action' = [action EXCEPT ![u] = a]
  BY DEF Start
<1> HIDE DEF a
<1> USE DEF SharesInv, At
<1>3. /\ action' \in [Units -> ActionType] /\ action'[u] = a
      /\ \A v \in Units \ {u} : action'[v] = action[v]
  BY <1>1, <1>2 DEF TypeOK
<1>4. /\ UNCHANGED <<leader, ready, exports, index, counter, served, up, told,
                     restart, announced>>
      /\ ready
      /\ spent' \in [actions : 0 .. MaxActions, mishaps : 0 .. MaxMishaps]
      /\ spent'.actions = spent.actions + 1 /\ spent.actions \in Nat
  BY SharesAssumption DEF Start, pool, daemons, peers, TypeOK
<1>5. \A v \in Units : At(v, "idle")
  BY DEF Start, Free, Quiet
<1>6. TypeOK'
  BY <1>3, <1>4 DEF TypeOK, Ids
<1>7. OneAtATime'
  BY <1>3, <1>5 DEF OneAtATime
<1>8. Counting'
  <2>1. counter <= FirstId + spent.actions /\ counter \in Nat /\ FirstId \in Nat
    BY IdsAreNumbers, SharesAssumption DEF Counting, TypeOK
  <2>2. counter < FirstId + spent'.actions
    BY <1>4, <2>1
  <2>3. QED
    BY <1>1, <1>3, <1>4, <1>5, <2>1, <2>2 DEF Counting
<1>9. Beginning'
  BY <1>1, <1>3, <1>4, <1>5 DEF Beginning, InSetup
<1>10. Progress'
  BY <1>1, <1>3, <1>4, <1>5 DEF Progress
<1>11. Loadable' /\ AnnouncedIsServed'
  BY <1>4 DEF Loadable, AnnouncedIsServed, Loaded, Exists
<1>12. QED
  BY <1>6, <1>7, <1>8, <1>9, <1>10, <1>11

-----------------------------------------------------------------------------
(* The invariant and the theorems                                          *)

LEMMA SharesInvInit == Init => SharesInv
<1> SUFFICES ASSUME Init PROVE SharesInv
  OBVIOUS
<1>1. TypeOK
  <2>1. [u \in Units |-> Idle] \in [Units -> ActionType]
    BY IdleType
  <2>2. [u \in Units |-> [id \in Ids |-> NoExport]]
          \in [Units -> [Ids -> ExportType]]
    BY ExportTypes
  <2>3. [id \in Ids |-> NoExport] \in [Ids -> ExportType]
    BY ExportTypes
  <2>4. spent \in [actions : 0 .. MaxActions, mishaps : 0 .. MaxMishaps]
    BY SharesAssumption DEF Init
  <2>5. QED
    BY <2>1, <2>2, <2>3, <2>4, IdsAreNumbers DEF Init, TypeOK
<1>2. OneAtATime /\ Counting /\ Beginning /\ Progress
  BY SharesAssumption
     DEF Init, OneAtATime, Counting, Beginning, Progress, At, Idle, InSetup
<1>3. Loadable /\ AnnouncedIsServed
  BY DEF Init, Loadable, AnnouncedIsServed, Loaded
<1>4. QED
  BY <1>1, <1>2, <1>3 DEF SharesInv

LEMMA LeaderChangesKeeps ==
  ASSUME SharesInv, LeaderChanges PROVE SharesInv'
<1> USE DEF SharesInv, LeaderChanges, pool, daemons, peers
<1>1. TypeOK'
  BY MishapType DEF TypeOK, Ids
<1>2. OneAtATime' /\ Counting' /\ Beginning' /\ Progress'
  BY MishapType
     DEF OneAtATime, Counting, Beginning, Progress, At, Exists, Loaded
<1>3. Loadable' /\ AnnouncedIsServed'
  BY DEF Loadable, AnnouncedIsServed, Loaded, Exists
<1>4. QED
  BY <1>1, <1>2, <1>3

LEMMA SharesInvStep ==
  ASSUME HandoverWaits, SharesInv, [Next]_vars PROVE SharesInv'
<1>1. CASE UNCHANGED vars
  BY <1>1 DEF vars, pool, daemons, peers, SharesInv, TypeOK, OneAtATime,
       Counting, Beginning, Progress, Loadable, AnnouncedIsServed, Loaded, At, Exists, Ids
<1>2. CASE LeaderChanges
  BY <1>2, LeaderChangesKeeps
<1>3. ASSUME NEW u \in Units, Step(u) PROVE SharesInv'
  BY <1>3, SetupIndexKeeps, SetupCounterKeeps, SetupDoneKeeps, ListKeeps,
     TakeIdKeeps, CountIdKeeps, PutExportKeeps, DbusStepKeeps, ReadIndexKeeps,
     WriteIndexKeeps, EraseExportKeeps, TriggerReloadKeeps, SucceedKeeps,
     FailKeeps
     DEF Step, SetupStep, ActionStep
<1>4. ASSUME NEW u \in Units, Request(u) PROVE SharesInv'
  <2>1. CASE Setup(u)
    BY <2>1, SetupKeeps
  <2>2. ASSUME NEW s \in Shares,
               Create(u, s) \/ Delete(u, s) \/ Grant(u, s) \/ Revoke(u, s)
        PROVE  SharesInv'
    <3>1. \E op \in {"create", "delete", "grant", "revoke"},
                C \in SUBSET Clients :
            Start(u, op, s, C)
      BY <2>2 DEF Create, Delete, Grant, Revoke
    <3>2. QED
      BY <3>1, StartKeeps
  <2>3. QED
    BY <1>4, <2>1, <2>2 DEF Request
<1>5. ASSUME NEW u \in Units, Environment(u) PROVE SharesInv'
  BY <1>5, AbortKeeps, RelationChangedKeeps, GaneshaDiesKeeps,
     GaneshaStartsKeeps
     DEF Environment
<1>6. QED
  BY <1>1, <1>2, <1>3, <1>4, <1>5 DEF Next

THEOREM SharesInvariant == ASSUME HandoverWaits PROVE Spec => []SharesInv
<1>1. SharesInv /\ [Next]_vars => SharesInv'
  BY SharesInvStep
<1>2. QED
  BY <1>1, SharesInvInit, PTL DEF Spec

\* The objects and what runs keep their types; the counter stays within the
\* number of actions started.
THEOREM SharesTyped == ASSUME HandoverWaits PROVE Spec => []TypeOK
BY SharesInvariant, PTL DEF SharesInv

\* At whatever step an action died, the index names only exports that are
\* there: Ganesha starts from it on every unit.
THEOREM IndexLoads == ASSUME HandoverWaits PROVE Spec => []Loadable
BY SharesInvariant, PTL DEF SharesInv

\* A unit that owes no reload serves what the pool holds, and lets in exactly
\* the clients of each share, whenever the last change was announced.
THEOREM UnitsServeAnnounced ==
  ASSUME HandoverWaits PROVE Spec => []AnnouncedIsServed
BY SharesInvariant, PTL DEF SharesInv

-----------------------------------------------------------------------------
(* The shares as a catalogue                                               *)

\* Each share has one export in the index, with an id already counted.
OneExportEach ==
  /\ \A i \in index : exports[i].name \in Shares /\ i < counter
  /\ \A i, j \in index : exports[i].name = exports[j].name => i = j

\* What an action has found out about its share stays true while it runs.
Creating(a) ==
  /\ a.pc \in {"take", "count", "put", "add", "read-index", "write-index"} =>
       Named(a.share) = {}
  /\ a.pc \in {"put", "add", "read-index", "write-index"} =>
       a.id \notin index /\ a.id < counter
  /\ a.pc \in {"add", "read-index", "write-index"} => exports[a.id].name = a.share

Deleting(a) ==
  a.pc \in {"remove", "read-index", "write-index"} => a.id \in Named(a.share)

Changing(a) ==
  /\ a.pc = "list" => \E c \in Clients : a.clients = {c}
  /\ a.pc = "put" =>
       /\ a.id \in Named(a.share)
       /\ \E c \in Clients :
            a.clients = IF a.op = "grant" THEN exports[a.id].clients \cup {c}
                                          ELSE exports[a.id].clients \ {c}

ActionKnows(a) ==
  /\ a.pc = "list" => a.op \in {"create", "delete", "grant", "revoke"}
  /\ a.pc \in {"take", "count", "add"} => a.op = "create"
  /\ a.pc = "put" => a.op \in {"create", "grant", "revoke"}
  /\ a.pc = "remove" => a.op = "delete"
  /\ a.pc \in {"read-index", "write-index"} => a.op \in {"create", "delete"}
  /\ a.op = "create" => Creating(a)
  /\ a.op = "delete" => Deleting(a)
  /\ a.op \in {"grant", "revoke"} => Changing(a)

CatalogueInv == SharesInv /\ OneExportEach /\ \A u \in Units : ActionKnows(action[u])

\* The steps of an action at which it relies on what it found.
Knowing == {"list", "take", "count", "put", "add", "remove", "read-index",
            "write-index"}

LEMMA NothingToKnow ==
  ASSUME NEW a, a.pc \notin Knowing PROVE ActionKnows(a)'
  BY DEF Knowing, ActionKnows, Creating, Deleting, Changing

LEMMA IdleKnows == ActionKnows(Idle)'
<1>1. Idle.pc \notin Knowing
  BY DEF Idle, Knowing
<1>2. QED
  BY <1>1, NothingToKnow

LEMMA KnowsKept ==
  ASSUME NEW a, ActionKnows(a), UNCHANGED pool PROVE ActionKnows(a)'
  BY DEF ActionKnows, Creating, Deleting, Changing, Named, pool

\* One action takes a step and the others, if any, are idle.
LEMMA OthersKnow ==
  ASSUME CatalogueInv, NEW u \in Units, Quiet \/ ~At(u, "idle"),
         NEW a, action' = [action EXCEPT ![u] = a], ActionKnows(a)'
  PROVE  \A v \in Units : ActionKnows(action[v])'
<1> SUFFICES ASSUME NEW v \in Units PROVE ActionKnows(action[v])'
  OBVIOUS
<1>1. CASE v = u
  <2>1. action'[v] = a
    BY <1>1 DEF CatalogueInv, SharesInv, TypeOK
  <2>2. QED
    BY <2>1 DEF ActionKnows, Creating, Deleting, Changing, Named
<1>2. CASE v # u
  <2>1. action'[v] = action[v] /\ action[v].pc = "idle"
    BY <1>2 DEF CatalogueInv, SharesInv, TypeOK, OneAtATime, At, Quiet
  <2>2. action'[v].pc \notin Knowing
    BY <2>1 DEF Knowing
  <2>3. QED
    BY <2>2 DEF Knowing, ActionKnows, Creating, Deleting, Changing
<1>3. QED
  BY <1>1, <1>2

LEMMA ExportsKept ==
  ASSUME OneExportEach, index' = index, counter' = counter,
         \A i \in index : exports'[i] = exports[i]
  PROVE  OneExportEach'
  BY DEF OneExportEach

\* A step that leaves the objects alone.
LEMMA ObjectsKept ==
  ASSUME CatalogueInv, NEW u \in Units, Quiet \/ ~At(u, "idle"), UNCHANGED pool,
         NEW a, action' = [action EXCEPT ![u] = a], ActionKnows(a)
  PROVE  OneExportEach' /\ \A v \in Units : ActionKnows(action[v])'
<1>1. ActionKnows(a)'
  BY KnowsKept
<1>2. QED
  BY <1>1, OthersKnow, ExportsKept DEF CatalogueInv, pool

LEMMA StepFacts ==
  ASSUME CatalogueInv, NEW u \in Units
  PROVE  /\ action[u] \in ActionType /\ action[u].id \in Ids
         /\ ActionKnows(action[u])
         /\ counter \in Nat /\ Ids \subseteq Nat /\ index \subseteq Ids
         /\ exports \in [Ids -> ExportType]
  BY IdsAreNumbers DEF CatalogueInv, SharesInv, TypeOK, ActionType

LEMMA OperationKnows ==
  ASSUME CatalogueInv, HandoverWaits, NEW u \in Units, NEW s \in Shares,
         NEW op \in {"create", "delete", "grant", "revoke"}, NEW C,
         Start(u, op, s, C),
         op \in {"grant", "revoke"} => \E c \in Clients : C = {c}
  PROVE  OneExportEach' /\ \A v \in Units : ActionKnows(action[v])'
<1> DEFINE a == [Idle EXCEPT !.op = op, !.pc = "list", !.share = s, !.clients = C]
<1>1. a.op = op /\ a.pc = "list" /\ a.clients = C
  BY DEF Idle
<1>2. action' = [action EXCEPT ![u] = a] /\ Quiet /\ UNCHANGED pool
  BY DEF Start, Free, pool
<1> HIDE DEF a
<1>3. ActionKnows(a)
  BY <1>1 DEF ActionKnows, Creating, Deleting, Changing
<1>4. QED
  BY <1>2, <1>3, ObjectsKept

LEMMA StartKnows ==
  ASSUME CatalogueInv, HandoverWaits, NEW u \in Units, NEW s \in Shares,
         Create(u, s) \/ Delete(u, s) \/ Grant(u, s) \/ Revoke(u, s)
  PROVE  OneExportEach' /\ \A v \in Units : ActionKnows(action[v])'
<1>1. CASE Create(u, s)
  BY <1>1, OperationKnows DEF Create
<1>2. CASE Delete(u, s)
  BY <1>2, OperationKnows DEF Delete
<1>3. CASE Grant(u, s)
  BY <1>3, OperationKnows DEF Grant
<1>4. CASE Revoke(u, s)
  BY <1>4, OperationKnows DEF Revoke
<1>5. QED
  BY <1>1, <1>2, <1>3, <1>4

\* What List finds is what the action then relies on.
LEMMA ListKnows ==
  ASSUME CatalogueInv, NEW u \in Units, List(u)
  PROVE  OneExportEach' /\ \A v \in Units : ActionKnows(action[v])'
<1> DEFINE me == action[u]
           found == Named(me.share)
           id == CHOOSE i \in found : TRUE
<1>1. /\ me \in ActionType /\ me.pc = "list" /\ ActionKnows(me)
      /\ ~At(u, "idle") /\ UNCHANGED pool
  BY StepFacts DEF List, At, OnlyAction
<1>2. me.op \in {"create", "delete", "grant", "revoke"}
  BY <1>1 DEF ActionKnows
<1>3. CASE ~Readable
  <2> DEFINE a == [me EXCEPT !.pc = "unreadable"]
  <2>1. action' = [action EXCEPT ![u] = a]
    BY <1>3 DEF List
  <2>2. a.pc = "unreadable"
    BY <1>1 DEF ActionType
  <2> HIDE DEF a
  <2>3. ActionKnows(a)
    BY <2>2 DEF ActionKnows, Creating, Deleting, Changing
  <2>4. QED
    BY <1>1, <2>1, <2>3, ObjectsKept
<1>4. CASE Readable /\ found = {}
  <2> DEFINE p == CASE me.op = "create" -> "take"
                    [] me.op = "delete" -> "reload"
                    [] OTHER -> "failed"
             a == [me EXCEPT !.pc = p]
  <2>1. action' = [action EXCEPT ![u] = a]
    BY <1>4 DEF List
  <2>2. \/ me.op = "create" /\ p = "take"
        \/ me.op # "create" /\ p \in {"reload", "failed"}
    OBVIOUS
  <2> HIDE DEF p
  <2>3. a.op = me.op /\ a.pc = p /\ a.share = me.share
    BY <1>1 DEF ActionType
  <2> HIDE DEF a
  <2>4. ActionKnows(a)
    BY <1>4, <2>2, <2>3 DEF ActionKnows, Creating, Deleting, Changing
  <2>5. QED
    BY <1>1, <2>1, <2>4, ObjectsKept
<1>5. CASE Readable /\ found # {}
  <2> DEFINE p == CASE me.op = "create" -> "reload"
                    [] me.op = "delete" -> "remove"
                    [] OTHER -> "put"
             C == CASE me.op = "grant" -> exports[id].clients \cup me.clients
                    [] me.op = "revoke" -> exports[id].clients \ me.clients
                    [] OTHER -> me.clients
             a == [me EXCEPT !.id = id, !.pc = p, !.clients = C]
  <2>1. action' = [action EXCEPT ![u] = a]
    BY <1>5 DEF List
  <2>2. id \in Named(me.share)
    BY <1>5
  <2>3. /\ me.op = "create" => p = "reload"
        /\ me.op = "delete" => p = "remove"
        /\ me.op \in {"grant", "revoke"} => p = "put"
    OBVIOUS
  <2>4. me.op \in {"grant", "revoke"} =>
          \E c \in Clients :
            C = IF me.op = "grant" THEN exports[id].clients \cup {c}
                                   ELSE exports[id].clients \ {c}
    <3>1. ASSUME me.op \in {"grant", "revoke"}
          PROVE  \E c \in Clients : me.clients = {c}
      BY <1>1, <3>1 DEF ActionKnows, Changing
    <3>2. me.op = "grant" => C = exports[id].clients \cup me.clients
      OBVIOUS
    <3>3. me.op = "revoke" => C = exports[id].clients \ me.clients
      OBVIOUS
    <3> HIDE DEF C, id
    <3>4. QED
      BY <3>1, <3>2, <3>3
  <2> HIDE DEF p, C, id, found
  <2>5. a.op = me.op /\ a.pc = p /\ a.share = me.share /\ a.id = id /\ a.clients = C
    BY <1>1 DEF ActionType
  <2> HIDE DEF a, me
  <2>6. ActionKnows(a)
    BY <1>2, <2>2, <2>3, <2>4, <2>5 DEF ActionKnows, Creating, Deleting, Changing
  <2>7. QED
    BY <1>1, <2>1, <2>6, ObjectsKept
<1>6. QED
  BY <1>3, <1>4, <1>5

\* Steps that touch neither objects nor actions.
LEMMA AroundKnows ==
  ASSUME CatalogueInv, UNCHANGED <<pool, action>>
  PROVE  OneExportEach' /\ \A v \in Units : ActionKnows(action[v])'
<1>1. OneExportEach'
  BY ExportsKept DEF CatalogueInv, pool
<1>2. \A v \in Units : ActionKnows(action[v])'
  BY DEF CatalogueInv, ActionKnows, Creating, Deleting, Changing, Named, pool
<1>3. QED
  BY <1>1, <1>2

\* Steps after which the action that took them knows nothing of its share.
LEMMA LeavesKnow ==
  ASSUME CatalogueInv, NEW u \in Units, Quiet \/ ~At(u, "idle"), OneExportEach',
         NEW a, a.pc \notin Knowing, action' = [action EXCEPT ![u] = a]
  PROVE  OneExportEach' /\ \A v \in Units : ActionKnows(action[v])'
BY NothingToKnow, OthersKnow

LEMMA SetupKnows ==
  ASSUME CatalogueInv, HandoverWaits, NEW u \in Units,
         Setup(u) \/ SetupIndex(u) \/ SetupCounter(u) \/ SetupDone(u)
  PROVE  OneExportEach' /\ \A v \in Units : ActionKnows(action[v])'
<1>1. index = {} /\ index' = {}
  BY DEF CatalogueInv, SharesInv, Beginning, InSetup, At, Setup, SetupIndex,
     SetupCounter, SetupDone, OnlyAction, pool
<1>2. OneExportEach'
  BY <1>1 DEF OneExportEach
<1>3. Quiet \/ ~At(u, "idle")
  BY DEF Setup, SetupIndex, SetupCounter, SetupDone, Free, At
<1>4. CASE Setup(u)
  <2> DEFINE a == [Idle EXCEPT !.op = "setup", !.pc = "setup"]
  <2>1. a.pc \notin Knowing
    BY DEF Idle, Knowing
  <2>2. action' = [action EXCEPT ![u] = a]
    BY <1>4 DEF Setup
  <2> HIDE DEF a
  <2>3. QED
    BY <1>2, <1>3, <2>1, <2>2, LeavesKnow
<1>5. ASSUME NEW p \in {"setup-counter", "setup-done"}, Goto(u, p)
      PROVE  \A v \in Units : ActionKnows(action[v])'
  <2> DEFINE a == [action[u] EXCEPT !.pc = p]
  <2>1. a.pc \notin Knowing
    BY <1>5, StepFacts DEF ActionType, Knowing
  <2>2. action' = [action EXCEPT ![u] = a]
    BY <1>5 DEF Goto
  <2> HIDE DEF a
  <2>3. QED
    BY <1>2, <1>3, <2>1, <2>2, LeavesKnow
<1>6. CASE SetupDone(u)
  <2>1. Idle.pc \notin Knowing /\ action' = [action EXCEPT ![u] = Idle]
    BY <1>6 DEF SetupDone, Idle, Knowing
  <2>2. QED
    BY <1>2, <1>3, <2>1, LeavesKnow
<1>7. QED
  BY <1>2, <1>4, <1>5, <1>6 DEF SetupIndex, SetupCounter

\* An action that ends, however it does, leaves the objects as they are.
LEMMA EndKnows ==
  ASSUME CatalogueInv, NEW u \in Units, Succeed(u) \/ Fail(u) \/ Abort(u)
  PROVE  OneExportEach' /\ \A v \in Units : ActionKnows(action[v])'
<1>1. /\ ~At(u, "idle") /\ UNCHANGED pool
      /\ action' = [action EXCEPT ![u] = Idle]
  BY DEF Succeed, Fail, Abort, At, OnlyAction, pool
<1>2. OneExportEach'
  BY <1>1, ExportsKept DEF CatalogueInv, pool
<1>3. Idle.pc \notin Knowing
  BY DEF Idle, Knowing
<1>4. QED
  BY <1>1, <1>2, <1>3, LeavesKnow

LEMMA TakeIdKnows ==
  ASSUME CatalogueInv, NEW u \in Units, TakeId(u)
  PROVE  OneExportEach' /\ \A v \in Units : ActionKnows(action[v])'
<1> DEFINE a == [action[u] EXCEPT !.pc = "count", !.id = counter]
<1>1. /\ ~At(u, "idle") /\ UNCHANGED pool
      /\ action' = [action EXCEPT ![u] = a]
  BY DEF TakeId, At, OnlyAction
<1>2. /\ a.pc = "count" /\ a.op = "create" /\ a.share = action[u].share
      /\ Named(action[u].share) = {}
  BY StepFacts DEF TakeId, At, ActionType, ActionKnows, Creating
<1> HIDE DEF a
<1>3. ActionKnows(a)
  BY <1>2 DEF ActionKnows, Creating, Deleting, Changing
<1>4. QED
  BY <1>1, <1>3, ObjectsKept

\* The id taken is the counter's, which no export in the index has reached.
LEMMA CountIdKnows ==
  ASSUME CatalogueInv, NEW u \in Units, CountId(u)
  PROVE  OneExportEach' /\ \A v \in Units : ActionKnows(action[v])'
<1> PICK a : a = [action[u] EXCEPT !.pc = "put"]
  OBVIOUS
<1>1. /\ ~At(u, "idle") /\ UNCHANGED <<exports, index>>
      /\ action' = [action EXCEPT ![u] = a]
  BY DEF CountId, Goto, At
<1>2. action[u].id = counter /\ counter' = counter + 1
  BY DEF CountId, At, CatalogueInv, SharesInv, Counting
<1>3. /\ a.pc = "put" /\ a.op = "create" /\ a.share = action[u].share
      /\ a.id = counter /\ Named(action[u].share) = {}
  BY <1>2, StepFacts DEF CountId, At, ActionType, ActionKnows, Creating
<1>4. counter \notin index /\ OneExportEach'
  BY <1>1, <1>2, StepFacts DEF CatalogueInv, OneExportEach
<1>5. counter < counter'
  BY <1>2, StepFacts
<1>6. Named(a.share)' = {}
  BY <1>1, <1>3 DEF Named
<1>7. ActionKnows(a)'
  BY <1>1, <1>3, <1>4, <1>5, <1>6 DEF ActionKnows, Creating, Deleting, Changing
<1>8. QED
  BY <1>1, <1>4, <1>7, OthersKnow

LEMMA ReadIndexKnows ==
  ASSUME CatalogueInv, NEW u \in Units, ReadIndex(u)
  PROVE  OneExportEach' /\ \A v \in Units : ActionKnows(action[v])'
<1> DEFINE a == [action[u] EXCEPT !.pc = "write-index", !.read = index]
<1>1. /\ ~At(u, "idle") /\ UNCHANGED pool
      /\ action' = [action EXCEPT ![u] = a]
  BY DEF ReadIndex, At, OnlyAction
<1>2. /\ a.pc = "write-index" /\ a.op = action[u].op
      /\ a.share = action[u].share /\ a.id = action[u].id
      /\ action[u].pc = "read-index" /\ ActionKnows(action[u])
  BY StepFacts DEF ReadIndex, At, ActionType
<1> HIDE DEF a
<1>3. ActionKnows(a)
  BY <1>2 DEF ActionKnows, Creating, Deleting, Changing
<1>4. QED
  BY <1>1, <1>3, ObjectsKept

LEMMA DbusKnows ==
  ASSUME CatalogueInv, NEW u \in Units,
         AddExport(u) \/ UpdateExport(u) \/ RemoveExport(u)
  PROVE  OneExportEach' /\ \A v \in Units : ActionKnows(action[v])'
<1>1. ASSUME NEW p \in {"failed", "reload", "read-index"}, Goto(u, p),
             UNCHANGED pool, ~At(u, "idle"),
             p = "read-index" => action[u].pc \in {"add", "remove"}
      PROVE  OneExportEach' /\ \A v \in Units : ActionKnows(action[v])'
  <2> DEFINE a == [action[u] EXCEPT !.pc = p]
  <2>1. /\ a.pc = p /\ a.op = action[u].op
        /\ a.share = action[u].share /\ a.id = action[u].id
        /\ ActionKnows(action[u])
    BY StepFacts DEF ActionType
  <2>2. action' = [action EXCEPT ![u] = a]
    BY <1>1 DEF Goto
  <2> HIDE DEF a
  <2>3. ActionKnows(a)
    BY <1>1, <2>1 DEF ActionKnows, Creating, Deleting, Changing
  <2>4. QED
    BY <1>1, <2>2, <2>3, ObjectsKept
<1>2. UNCHANGED pool /\ ~At(u, "idle")
  BY DEF AddExport, UpdateExport, RemoveExport, Dbus, At, pool
<1>3. \E p \in {"failed", "reload", "read-index"} :
        Goto(u, p) /\ (p = "read-index" => action[u].pc \in {"add", "remove"})
  BY DEF AddExport, UpdateExport, RemoveExport, Dbus, At
<1>4. QED
  BY <1>1, <1>2, <1>3

LEMMA ReloadKnows ==
  ASSUME CatalogueInv, NEW u \in Units, TriggerReload(u)
  PROVE  OneExportEach' /\ \A v \in Units : ActionKnows(action[v])'
<1> DEFINE a == [action[u] EXCEPT !.pc = "commit"]
<1>1. /\ ~At(u, "idle") /\ UNCHANGED pool
      /\ action' = [action EXCEPT ![u] = a]
  BY DEF TriggerReload, Goto, At, pool
<1>2. a.pc \notin Knowing
  BY StepFacts DEF ActionType, Knowing
<1> HIDE DEF a
<1>3. OneExportEach'
  BY <1>1, ExportsKept DEF CatalogueInv, pool
<1>4. QED
  BY <1>1, <1>2, <1>3, LeavesKnow

\* A new export is written under an id that the index does not have; a change
\* of access leaves the export its name.
LEMMA PutCreates ==
  ASSUME CatalogueInv, NEW u \in Units, PutExport(u), action[u].op = "create"
  PROVE  /\ OneExportEach' /\ \A v \in Units : ActionKnows(action[v])'
         /\ index' = index /\ \A i \in index : exports'[i] = exports[i]
<1> PICK a : a = [action[u] EXCEPT !.pc = "add"]
  OBVIOUS
<1>1. /\ ~At(u, "idle") /\ index' = index /\ counter' = counter
      /\ action' = [action EXCEPT ![u] = a]
  BY DEF PutExport, Goto, At
<1>2. /\ a.pc = "add" /\ a.op = "create" /\ a.share = action[u].share
      /\ a.id = action[u].id
  BY StepFacts DEF ActionType
<1>3. Named(a.share) = {} /\ a.id \notin index /\ a.id < counter /\ a.id \in Ids
  BY <1>2, StepFacts DEF PutExport, At, ActionKnows, Creating
<1>4. exports' = [exports EXCEPT ![a.id] =
                    [name |-> a.share, clients |-> action[u].clients]]
  BY <1>2 DEF PutExport
<1>5. \A i \in index : exports'[i] = exports[i]
  BY <1>3, <1>4, StepFacts
<1>6. exports'[a.id].name = a.share
  BY <1>3, <1>4, StepFacts
<1>7. OneExportEach'
  BY <1>1, <1>5, ExportsKept DEF CatalogueInv
<1>8. Named(a.share)' = {}
  BY <1>1, <1>3, <1>5 DEF Named
<1>9. ActionKnows(a)'
  BY <1>1, <1>2, <1>3, <1>6, <1>8 DEF ActionKnows, Creating, Deleting, Changing
<1>10. QED
  BY <1>1, <1>5, <1>7, <1>9, OthersKnow

LEMMA PutChanges ==
  ASSUME CatalogueInv, NEW u \in Units, PutExport(u), action[u].op # "create"
  PROVE  /\ OneExportEach' /\ \A v \in Units : ActionKnows(action[v])'
         /\ index' = index /\ action[u].id \in Named(action[u].share)
         /\ exports' = [exports EXCEPT ![action[u].id] =
                          [name |-> action[u].share,
                           clients |-> action[u].clients]]
         /\ \E c \in Clients :
              action[u].clients \in {exports[action[u].id].clients \cup {c},
                                     exports[action[u].id].clients \ {c}}
<1> DEFINE a == [action[u] EXCEPT !.pc = "update"]
           id == action[u].id
<1>1. /\ ~At(u, "idle") /\ index' = index /\ counter' = counter
      /\ action' = [action EXCEPT ![u] = a]
      /\ exports' = [exports EXCEPT ![id] = [name |-> action[u].share,
                                             clients |-> action[u].clients]]
  BY DEF PutExport, Goto, At
<1>2. a.pc \notin Knowing
  BY StepFacts DEF ActionType, Knowing
<1> HIDE DEF a
<1>3. Changing(action[u]) /\ action[u].pc = "put"
  BY StepFacts DEF ActionKnows, PutExport, At
<1>4. /\ id \in Named(action[u].share)
      /\ \E c \in Clients :
              action[u].clients \in {exports[id].clients \cup {c},
                                     exports[id].clients \ {c}}
  BY <1>3 DEF Changing
<1>5. \A i \in index : exports'[i].name = exports[i].name
  BY <1>1, <1>4, StepFacts DEF Named
<1>6. OneExportEach'
  BY <1>1, <1>5 DEF OneExportEach, CatalogueInv
<1>7. QED
  BY <1>1, <1>2, <1>4, <1>6, LeavesKnow

LEMMA WriteIndexKnows ==
  ASSUME CatalogueInv, NEW u \in Units, WriteIndex(u)
  PROVE  /\ OneExportEach' /\ \A v \in Units : ActionKnows(action[v])'
         /\ exports' = exports
         /\ \/ /\ index' = index \cup {action[u].id}
               /\ action[u].id \notin index
               /\ exports[action[u].id].name = action[u].share
               /\ Named(action[u].share) = {}
            \/ /\ index' = index \ {action[u].id}
               /\ action[u].id \in Named(action[u].share)
<1> DEFINE p == IF action[u].op = "create" THEN "reload" ELSE "erase"
           a == [action[u] EXCEPT !.pc = p]
<1>1. /\ ~At(u, "idle") /\ exports' = exports /\ counter' = counter
      /\ action' = [action EXCEPT ![u] = a]
  BY DEF WriteIndex, Goto, At
<1>2. a.pc \notin Knowing
  BY StepFacts DEF ActionType, Knowing
<1> HIDE DEF a
<1>3. /\ action[u].pc = "write-index" /\ action[u].read = index
      /\ action[u].share \in Shares
  BY DEF WriteIndex, At, CatalogueInv, SharesInv, Progress, Beginning, InSetup
<1>4. action[u].op \in {"create", "delete"}
  BY <1>3, StepFacts DEF ActionKnows
<1>5. CASE action[u].op = "create"
  <2>1. /\ Named(action[u].share) = {} /\ action[u].id \notin index
        /\ action[u].id < counter
        /\ exports[action[u].id].name = action[u].share
    BY <1>3, <1>5, StepFacts DEF ActionKnows, Creating
  <2>2. index' = index \cup {action[u].id}
    BY <1>3, <1>5 DEF WriteIndex
  <2>3. OneExportEach'
    BY <1>1, <1>3, <2>1, <2>2 DEF OneExportEach, CatalogueInv, Named
  <2>4. QED
    BY <1>1, <1>2, <2>1, <2>2, <2>3, LeavesKnow
<1>6. CASE action[u].op = "delete"
  <2>1. action[u].id \in Named(action[u].share)
    BY <1>3, <1>6, StepFacts DEF ActionKnows, Deleting
  <2>2. index' = index \ {action[u].id}
    BY <1>3, <1>6 DEF WriteIndex
  <2>3. OneExportEach'
    BY <1>1, <2>2 DEF OneExportEach, CatalogueInv
  <2>4. QED
    BY <1>1, <1>2, <2>1, <2>2, <2>3, LeavesKnow
<1>7. QED
  BY <1>4, <1>5, <1>6

LEMMA EraseKnows ==
  ASSUME CatalogueInv, NEW u \in Units, EraseExport(u)
  PROVE  /\ OneExportEach' /\ \A v \in Units : ActionKnows(action[v])'
         /\ index' = index /\ \A i \in index : exports'[i] = exports[i]
<1> DEFINE a == [action[u] EXCEPT !.pc = "reload"]
<1>1. /\ ~At(u, "idle") /\ index' = index /\ counter' = counter
      /\ action' = [action EXCEPT ![u] = a]
      /\ exports' = [exports EXCEPT ![action[u].id] = NoExport]
  BY DEF EraseExport, Goto, At
<1>2. a.pc \notin Knowing
  BY StepFacts DEF ActionType, Knowing
<1> HIDE DEF a
<1>3. action[u].id \notin index
  BY DEF EraseExport, CatalogueInv, SharesInv, Progress, At
<1>4. \A i \in index : exports'[i] = exports[i]
  BY <1>1, <1>3, StepFacts
<1>5. OneExportEach'
  BY <1>1, <1>4, ExportsKept DEF CatalogueInv
<1>6. QED
  BY <1>1, <1>2, <1>4, <1>5, LeavesKnow

-----------------------------------------------------------------------------
(* Which steps change the catalogue, and that they do it as promised       *)

LEMMA TheOne ==
  ASSUME NEW S, NEW i \in S, \A j \in S : j = i
  PROVE  (CHOOSE x \in S : TRUE) = i
OBVIOUS

\* What the catalogue says of a share: nothing, or the clients of its export.
LEMMA CatalogueEntries ==
  ASSUME OneExportEach, NEW s \in Shares
  PROVE  /\ Named(s) = {} => CatalogueOf[s] = Absent
         /\ \A i \in Named(s) : CatalogueOf[s] = exports[i].clients
<1>1. ASSUME NEW i \in Named(s) PROVE CatalogueOf[s] = exports[i].clients
  <2>1. \A j \in Named(s) : j = i
    BY DEF Named, OneExportEach
  <2>2. (CHOOSE id \in Named(s) : TRUE) = i
    BY <2>1, TheOne
  <2>3. QED
    BY <2>2 DEF CatalogueOf
<1>2. QED
  BY <1>1 DEF CatalogueOf

LEMMA CatalogueEntriesNext ==
  ASSUME OneExportEach', NEW s \in Shares
  PROVE  /\ Named(s)' = {} => CatalogueOf'[s] = Absent
         /\ \A i \in Named(s)' : CatalogueOf'[s] = exports'[i].clients
<1>1. ASSUME NEW i \in Named(s)' PROVE CatalogueOf'[s] = exports'[i].clients
  <2>1. \A j \in Named(s)' : j = i
    BY DEF Named, OneExportEach
  <2>2. (CHOOSE id \in Named(s)' : TRUE) = i
    BY <2>1, TheOne
  <2>3. QED
    BY <2>2 DEF CatalogueOf
<1>2. QED
  BY <1>1 DEF CatalogueOf

LEMMA ChangedAtOne ==
  ASSUME NEW S, NEW f, NEW g, f = [x \in S |-> f[x]], g = [x \in S |-> g[x]],
         NEW s \in S, NEW e, g[s] = e, \A t \in S \ {s} : g[t] = f[t]
  PROVE  g = [f EXCEPT ![s] = e]
OBVIOUS

LEMMA SameCatalogue ==
  ASSUME NEW s \in Shares, NEW e, CatalogueOf'[s] = e,
         \A t \in Shares \ {s} : CatalogueOf'[t] = CatalogueOf[t]
  PROVE  CatalogueOf' = [CatalogueOf EXCEPT ![s] = e]
<1>1. /\ CatalogueOf = [x \in Shares |-> CatalogueOf[x]]
      /\ CatalogueOf' = [x \in Shares |-> CatalogueOf'[x]]
  BY DEF CatalogueOf
<1>2. QED
  BY <1>1, ChangedAtOne

LEMMA CatalogueSame ==
  ASSUME CatalogueInv, OneExportEach', index' = index,
         \A i \in index : exports'[i] = exports[i]
  PROVE  CatalogueOf' = CatalogueOf
<1>1. ASSUME NEW s \in Shares PROVE CatalogueOf'[s] = CatalogueOf[s]
  <2>1. Named(s)' = Named(s) /\ \A i \in Named(s) : exports'[i] = exports[i]
    BY DEF Named
  <2>2. QED
    BY <2>1, CatalogueEntries, CatalogueEntriesNext DEF CatalogueInv
<1>2. QED
  BY <1>1 DEF CatalogueOf

CatalogueStep == CatalogueOf' = CatalogueOf \/ Catalogue!CatalogueNext

\* A change of access shows in the catalogue once the object is written.
LEMMA AccessChanges ==
  ASSUME CatalogueInv, NEW u \in Units, PutExport(u), action[u].op # "create"
  PROVE  Catalogue!CatalogueNext
<1> DEFINE s == action[u].share
           id == action[u].id
<1>1. /\ OneExportEach' /\ index' = index /\ id \in Named(s) /\ id \in Ids
      /\ exports' = [exports EXCEPT ![id] =
                       [name |-> s, clients |-> action[u].clients]]
      /\ exports \in [Ids -> ExportType] /\ index \subseteq Ids
  BY PutChanges, StepFacts
<1>2. s \in Shares
  BY DEF PutExport, At, CatalogueInv, SharesInv, Beginning, InSetup
<1>3. PICK c \in Clients :
        action[u].clients \in {exports[id].clients \cup {c},
                               exports[id].clients \ {c}}
  BY PutChanges
<1> HIDE DEF s, id
<1>4. \A t \in Shares : Named(t)' = Named(t)
  BY <1>1, <1>2 DEF Named
<1>5. CatalogueOf[s] = exports[id].clients
  BY <1>1, <1>2, CatalogueEntries DEF CatalogueInv
<1>6. CatalogueOf'[s] = action[u].clients
  BY <1>1, <1>2, <1>4, CatalogueEntriesNext
<1>7. ASSUME NEW t \in Shares \ {s} PROVE CatalogueOf'[t] = CatalogueOf[t]
  <2>1. \A i \in Named(t) : exports'[i] = exports[i]
    BY <1>1, <1>7 DEF Named
  <2>2. QED
    BY <1>1, <1>4, <2>1, CatalogueEntries, CatalogueEntriesNext DEF CatalogueInv
<1>8. CatalogueOf' = [CatalogueOf EXCEPT ![s] = action[u].clients]
  BY <1>2, <1>6, <1>7, SameCatalogue
<1>9. CatalogueOf[s] # Absent
  BY <1>1, <1>5, SharesAssumption DEF ExportType
<1>10. Catalogue!Opened(s, c) \/ Catalogue!Closed(s, c)
  BY <1>3, <1>5, <1>8, <1>9 DEF Catalogue!Opened, Catalogue!Closed
<1>11. QED
  BY <1>2, <1>3, <1>10 DEF Catalogue!CatalogueNext

\* A share is there once the index names its export, and gone once it does not.
LEMMA IndexChanges ==
  ASSUME CatalogueInv, NEW u \in Units, WriteIndex(u)
  PROVE  Catalogue!CatalogueNext
<1> PICK s, id : s = action[u].share /\ id = action[u].id
  OBVIOUS
<1>1. OneExportEach' /\ exports' = exports /\ OneExportEach
  BY WriteIndexKnows DEF CatalogueInv
<1>2. s \in Shares
  BY DEF WriteIndex, At, CatalogueInv, SharesInv, Beginning, InSetup
<1>3. id \in Ids /\ exports[id].clients \in SUBSET Clients
  BY StepFacts DEF ExportType
<1>4. CASE /\ index' = index \cup {id} /\ id \notin index
           /\ exports[id].name = s /\ Named(s) = {}
  <2>1. Named(s)' = {id} /\ \A t \in Shares \ {s} : Named(t)' = Named(t)
    BY <1>1, <1>4 DEF Named
  <2>2. CatalogueOf[s] = Absent
    BY <1>1, <1>2, <1>4, CatalogueEntries
  <2>3. CatalogueOf'[s] = exports[id].clients
    BY <1>1, <1>2, <2>1, CatalogueEntriesNext
  <2>4. \A t \in Shares \ {s} : CatalogueOf'[t] = CatalogueOf[t]
    BY <1>1, <2>1, CatalogueEntries, CatalogueEntriesNext
  <2>5. CatalogueOf' = [CatalogueOf EXCEPT ![s] = exports[id].clients]
    BY <1>2, <2>3, <2>4, SameCatalogue
  <2>6. Catalogue!Created(s)
    BY <1>3, <2>2, <2>5 DEF Catalogue!Created
  <2>7. QED
    BY <1>2, <2>6 DEF Catalogue!CatalogueNext
<1>5. CASE index' = index \ {id} /\ id \in Named(s)
  <2>1. Named(s)' = {} /\ \A t \in Shares \ {s} : Named(t)' = Named(t)
    BY <1>1, <1>5 DEF Named, OneExportEach
  <2>2. CatalogueOf[s] # Absent
    BY <1>1, <1>2, <1>3, <1>5, CatalogueEntries, SharesAssumption
  <2>3. CatalogueOf'[s] = Absent
    BY <1>1, <1>2, <2>1, CatalogueEntriesNext
  <2>4. \A t \in Shares \ {s} : CatalogueOf'[t] = CatalogueOf[t]
    BY <1>1, <2>1, CatalogueEntries, CatalogueEntriesNext
  <2>5. CatalogueOf' = [CatalogueOf EXCEPT ![s] = Absent]
    BY <1>2, <2>3, <2>4, SameCatalogue
  <2>6. Catalogue!Deleted(s)
    BY <2>2, <2>5 DEF Catalogue!Deleted
  <2>7. QED
    BY <1>2, <2>6 DEF Catalogue!CatalogueNext
<1>6. QED
  BY <1>4, <1>5, WriteIndexKnows

\* Every other step leaves the index and the exports in it alone.
LEMMA CatalogueStepKept ==
  ASSUME HandoverWaits, CatalogueInv, [Next]_vars
  PROVE  /\ OneExportEach' /\ \A v \in Units : ActionKnows(action[v])'
         /\ CatalogueStep
<1> DEFINE Kept == OneExportEach' /\ \A v \in Units : ActionKnows(action[v])'
<1>1. ASSUME UNCHANGED pool, Kept PROVE Kept /\ CatalogueStep
  BY <1>1, CatalogueSame DEF CatalogueStep, pool
<1>2. ASSUME UNCHANGED <<pool, action>> PROVE Kept /\ CatalogueStep
  BY <1>1, <1>2, AroundKnows
<1>3. ASSUME NEW u \in Units, SetupStep(u) \/ Setup(u)
      PROVE  Kept /\ CatalogueStep
  <2>1. Kept
    BY <1>3, SetupKnows DEF SetupStep
  <2>2. index' = index /\ index = {}
    BY <1>3 DEF CatalogueInv, SharesInv, Beginning, InSetup, At, SetupStep,
       Setup, SetupIndex, SetupCounter, SetupDone, OnlyAction, pool
  <2>3. QED
    BY <2>1, <2>2, CatalogueSame DEF CatalogueStep
<1>4. ASSUME NEW u \in Units, ActionStep(u) PROVE Kept /\ CatalogueStep
  <2>1. CASE List(u) \/ TakeId(u) \/ ReadIndex(u)
    BY <1>1, <2>1, ListKnows, TakeIdKnows, ReadIndexKnows
       DEF List, TakeId, ReadIndex, OnlyAction
  <2>2. CASE CountId(u)
    <3>1. index' = index /\ exports' = exports
      BY <2>2 DEF CountId
    <3>2. QED
      BY <2>2, <3>1, CountIdKnows, CatalogueSame DEF CatalogueStep
  <2>3. CASE PutExport(u)
    <3>1. CASE action[u].op = "create"
      BY <2>3, <3>1, PutCreates, CatalogueSame DEF CatalogueStep
    <3>2. CASE action[u].op # "create"
      BY <2>3, <3>2, PutChanges, AccessChanges DEF CatalogueStep
    <3>3. QED
      BY <3>1, <3>2
  <2>4. CASE AddExport(u) \/ UpdateExport(u) \/ RemoveExport(u)
    BY <1>1, <2>4, DbusKnows DEF AddExport, UpdateExport, RemoveExport, Dbus
  <2>5. CASE WriteIndex(u)
    BY <2>5, WriteIndexKnows, IndexChanges DEF CatalogueStep
  <2>6. CASE EraseExport(u)
    BY <2>6, EraseKnows, CatalogueSame DEF CatalogueStep
  <2>7. CASE TriggerReload(u)
    BY <1>1, <2>7, ReloadKnows DEF TriggerReload
  <2>8. CASE Succeed(u) \/ Fail(u)
    BY <1>1, <2>8, EndKnows DEF Succeed, Fail, OnlyAction
  <2>9. QED
    BY <1>4, <2>1, <2>2, <2>3, <2>4, <2>5, <2>6, <2>7, <2>8 DEF ActionStep
<1>5. ASSUME NEW u \in Units, NEW s \in Shares,
             Create(u, s) \/ Delete(u, s) \/ Grant(u, s) \/ Revoke(u, s)
      PROVE  Kept /\ CatalogueStep
  <2>1. UNCHANGED pool
    BY <1>5 DEF Create, Delete, Grant, Revoke, Start
  <2>2. QED
    BY <1>1, <1>5, <2>1, StartKnows
<1>6. ASSUME NEW u \in Units, Environment(u) PROVE Kept /\ CatalogueStep
  <2>1. CASE Abort(u)
    BY <1>1, <2>1, EndKnows DEF Abort
  <2>2. CASE RelationChanged(u) \/ GaneshaDies(u) \/ GaneshaStarts(u)
    BY <1>2, <2>2 DEF RelationChanged, GaneshaDies, GaneshaStarts
  <2>3. QED
    BY <1>6, <2>1, <2>2 DEF Environment
<1>7. UNCHANGED vars \/ LeaderChanges => UNCHANGED <<pool, action>>
  BY DEF vars, LeaderChanges
<1> HIDE DEF Kept
<1>8. ASSUME Next PROVE Kept /\ CatalogueStep
  BY <1>2, <1>3, <1>4, <1>5, <1>6, <1>7, <1>8 DEF Next, Step, Request
<1>9. Kept /\ CatalogueStep
  BY <1>2, <1>7, <1>8
<1>10. QED
  BY <1>9 DEF Kept

LEMMA CatalogueBegins ==
  ASSUME Init PROVE CatalogueInv /\ Catalogue!CatalogueInit
<1>1. SharesInv
  BY SharesInvInit
<1>2. OneExportEach /\ \A s \in Shares : Named(s) = {}
  BY DEF Init, OneExportEach, Named
<1>3. \A u \in Units : ActionKnows(action[u])
  BY DEF Init, Idle, ActionKnows
<1>4. CatalogueOf = [s \in Shares |-> Absent]
  BY <1>2 DEF CatalogueOf
<1>5. QED
  BY <1>1, <1>2, <1>3, <1>4 DEF CatalogueInv, Catalogue!CatalogueInit

\* The objects, written one by one by actions that may die at any step,
\* implement a catalogue that changes at once: a share comes with all its
\* clients, goes as a whole and is opened or closed to one client at a time.
THEOREM CatalogueImplemented == ASSUME HandoverWaits PROVE Spec => CatalogueKept
<1>1. CatalogueInv /\ [Next]_vars => CatalogueInv'
  BY SharesInvStep, CatalogueStepKept DEF CatalogueInv
<1>2. CatalogueInv /\ [Next]_vars => [Catalogue!CatalogueNext]_CatalogueOf
  BY CatalogueStepKept DEF CatalogueStep
<1>3. Init => CatalogueInv /\ Catalogue!CatalogueInit
  BY CatalogueBegins
<1>4. QED
  BY <1>1, <1>2, <1>3, PTL DEF Spec, CatalogueKept, Catalogue!CatalogueSpec
================================================================================
