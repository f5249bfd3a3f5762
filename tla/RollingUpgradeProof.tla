------------------------- MODULE RollingUpgradeProof -------------------------
(***************************************************************************)
(* The release upgrade, for any number of nodes and any clocks: its types, *)
(* and that healthy nodes upgrade in turns.  A node waits for its          *)
(* predecessor only, so the order of all the nodes before it (Ordered) is  *)
(* handed on from node to node: by the watchdog, which does not give up on *)
(* a node that shows in time that it is alive (WatchInv), and by the wait  *)
(* for the start marker, which has to last until the predecessor's turn    *)
(* (ScheduleInv).                                                          *)
(***************************************************************************)
EXTENDS RollingUpgrade, TLAPS

LEMMA AgesBounded ==
  ASSUME NEW b \in Nat, NEW a \in Nat PROVE AtMost(b, a) \in 0 .. b
  BY DEF AtMost

LEMMA OlderType ==
  ASSUME NEW b \in Nat, NEW a \in Nat \cup {Never}
  PROVE  Older(a, b) \in Nat \cup {Never}
<1>1. CASE a = Never
  BY <1>1 DEF Older
<1>2. CASE a \in Nat
  <2>1. AtMost(b, a + 1) \in Nat
    BY <1>2, AgesBounded
  <2>2. QED
    BY <1>2, <2>1 DEF Older, Never
<1>3. QED
  BY <1>1, <1>2

LEMMA LongerType ==
  ASSUME NEW a \in Nat, NEW b \in Nat PROVE Longer(a, b) \in Nat
  BY DEF Longer

LEMMA LimitsType == /\ MaxWait \in Nat /\ MaxStep \in Nat /\ MaxRoll \in Nat
                    /\ MaxKick + MaxSkew + 1 \in Nat
                    /\ KickInterval + 1 \in Nat
<1>1. /\ MaxStep \in Nat /\ MaxRoll \in Nat /\ MaxKick \in Nat
      /\ MaxSkew \in Nat /\ KickInterval \in Nat
  BY UpgradeAssumption
<1>2. /\ StartWait \in Nat /\ Wait \in Nat /\ Compat \in Nat
      /\ GatherWait \in Nat /\ MaxDelay \in Nat
  BY UpgradeAssumption
<1>3. /\ Longer(StartWait, Wait) \in Nat
      /\ Longer(GatherWait, MaxDelay) \in Nat
  BY <1>2, LongerType
<1>4. Longer(Compat, Longer(GatherWait, MaxDelay)) \in Nat
  BY <1>2, <1>3, LongerType
<1>5. Longer(Longer(StartWait, Wait),
             Longer(Compat, Longer(GatherWait, MaxDelay))) \in Nat
  BY <1>3, <1>4, LongerType
<1>6. MaxWait \in Nat
  BY <1>5 DEF MaxWait
<1>7. QED
  BY <1>1, <1>6

LEMMA TypeInit == Init => TypeOK
  BY LimitsType DEF Init, TypeOK, Stages, Waiting, Nodes, Never

LEMMA RollType ==
  ASSUME TypeOK, NEW n \in Nodes, Roll(n), UNCHANGED lost,
         spent' \in [crashes : Nat, retries : Nat, misreads : Nat]
  PROVE  TypeOK'
  BY LimitsType DEF TypeOK, Roll, Stages, Never

LEMMA EnterType ==
  ASSUME TypeOK, NEW n \in Nodes, Enter(n), UNCHANGED lost,
         spent' \in [crashes : Nat, retries : Nat, misreads : Nat]
  PROVE  TypeOK'
<1>1. CASE n = 1
  BY <1>1, RollType DEF Enter
<1>2. CASE n # 1
  BY <1>2, LimitsType DEF TypeOK, Enter, Stages, Waiting, markers, work
<1>3. QED
  BY <1>1, <1>2

LEMMA FailType ==
  ASSUME TypeOK, NEW n \in Nodes, Fail(n),
         spent' \in [crashes : Nat, retries : Nat, misreads : Nat]
  PROVE  TypeOK'
  BY LimitsType DEF TypeOK, Fail, Stages, Never, markers

LEMMA TickType == TypeOK /\ Tick => TypeOK'
<1> SUFFICES ASSUME TypeOK, Tick PROVE TypeOK'
  OBVIOUS
<1>1. waited' \in [Nodes -> 0 .. MaxWait]
  <2>1. ASSUME NEW n \in Nodes
        PROVE  AtMost(MaxWait, waited[n] + 1) \in 0 .. MaxWait
    <3>1. MaxWait \in Nat /\ waited[n] + 1 \in Nat
      BY LimitsType DEF TypeOK
    <3>2. QED
      BY <3>1, AgesBounded
  <2>2. QED
    BY <2>1, LimitsType DEF Tick
<1>2. alive' \in [Nodes -> Nat \cup {Never}]
  <2>1. \A n \in Nodes :
          Older(alive[n], MaxKick + MaxSkew + 1) \in Nat \cup {Never}
    BY OlderType, LimitsType DEF TypeOK
  <2>2. QED
    BY <2>1 DEF Tick
<1>3. kicked' \in [Nodes -> Nat \cup {Never}]
  <2>1. \A n \in Nodes : Older(kicked[n], KickInterval + 1) \in Nat \cup {Never}
    BY OlderType, LimitsType DEF TypeOK
  <2>2. QED
    BY <2>1 DEF Tick
<1>4. /\ rolled' \in [Nodes -> 0 .. MaxRoll]
      /\ quiet' \in [Nodes -> 0 .. MaxStep]
  BY LimitsType DEF Tick, TypeOK
<1>5. QED
  BY <1>1, <1>2, <1>3, <1>4 DEF Tick, TypeOK

LEMMA TypeStep == TypeOK /\ [Next]_vars => TypeOK'
<1> SUFFICES ASSUME TypeOK, [Next]_vars PROVE TypeOK'
  OBVIOUS
<1>0. spent' \in [crashes : Nat, retries : Nat, misreads : Nat]
  BY DEF TypeOK, Next, Step, Tick, Begin, Retry, AwaitStart, AwaitDone, MisreadAlive, Kick,
         Complete, Gather, Crash, vars
<1>1. CASE Tick
  BY <1>1, TickType
<1>2. ASSUME NEW n \in Nodes, Begin(n) PROVE TypeOK'
  BY <1>0, <1>2, EnterType DEF Begin
<1>3. ASSUME NEW n \in Nodes, Retry(n) PROVE TypeOK'
  BY <1>0, <1>3, EnterType DEF Retry
<1>4. ASSUME NEW n \in Nodes, AwaitStart(n) PROVE TypeOK'
  <2>1. CASE n - 1 \in started
    BY <1>0, <1>4, <2>1, LimitsType
    DEF AwaitStart, TypeOK, Stages, Waiting, markers, work
  <2>2. CASE n - 1 \notin started
    BY <1>0, <1>4, <2>2, RollType DEF AwaitStart
  <2>3. QED
    BY <2>1, <2>2
<1>5. ASSUME NEW n \in Nodes, AwaitDone(n) PROVE TypeOK'
  BY <1>0, <1>5, RollType DEF AwaitDone
<1>6. ASSUME NEW n \in Nodes, Kick(n) PROVE TypeOK'
  BY <1>0, <1>6, LimitsType DEF Kick, TypeOK
<1>7. ASSUME NEW n \in Nodes, Complete(n) PROVE TypeOK'
  <2>1. n \in started
    BY <1>7 DEF TypeOK, Complete
  <2>2. QED
    BY <1>0, <1>7, <2>1, LimitsType DEF Complete, TypeOK, Stages, Waiting, Never
<1>8. ASSUME NEW n \in Nodes, Gather(n) PROVE TypeOK'
  <2>1. CASE waited[n] > GatherWait
    BY <1>0, <1>8, <2>1, FailType DEF Gather
  <2>2. CASE ~(waited[n] > GatherWait)
    BY <1>0, <1>8, <2>2 DEF Gather, TypeOK, Stages, Waiting, markers, work
  <2>3. QED
    BY <2>1, <2>2
<1>9. ASSUME NEW n \in Nodes, Crash(n) PROVE TypeOK'
  BY <1>0, <1>9, FailType DEF Crash
<1>10. CASE UNCHANGED vars
  BY <1>10 DEF vars, markers, work, TypeOK
<1>11. ASSUME NEW n \in Nodes, MisreadAlive(n) PROVE TypeOK'
  BY <1>0, <1>11, RollType DEF MisreadAlive
<1>12. QED
  BY <1>1, <1>2, <1>3, <1>4, <1>5, <1>6, <1>7, <1>8, <1>9, <1>10, <1>11
  DEF Next, Step

\* Every variable keeps its type and a done node has started, whatever the
\* clocks, the limits, the crashes and the retries.
THEOREM UpgradeTyped == Spec => []TypeOK
  BY TypeInit, TypeStep, PTL DEF Spec

-----------------------------------------------------------------------------
(* What the markers of a healthy node say                                  *)

\* A node that no other has to wait for any more.
Settled(n) == n \in lost \/ stage[n] \in {"gathering", "upgraded"}

\* The markers of a node that has not failed tell where it is, and it has
\* shown that it is alive only if it has shown its start.
Marked ==
  \A n \in Nodes \ lost :
    /\ stage[n] # "failed"
    /\ n \in started <=> stage[n] \in {"rolling", "gathering", "upgraded"}
    /\ n \in done <=> stage[n] \in {"gathering", "upgraded"}
    /\ n \notin started => alive[n] = Never

\* Only a node that has seen the start of its predecessor waits for its end.
Announced ==
  \A n \in Nodes :
    /\ stage[n] \in {"awaiting", "following"} => n - 1 \in Nodes
    /\ stage[n] = "following" => n - 1 \in started

BasicInv == TypeOK /\ Marked /\ Announced

LEMMA BasicInit == Init => BasicInv
<1> SUFFICES ASSUME Init PROVE BasicInv
  OBVIOUS
<1>1. TypeOK
  BY TypeInit
<1>2. Marked /\ Announced
  BY DEF Init, Marked, Announced, Nodes
<1>3. QED
  BY <1>1, <1>2 DEF BasicInv

\* A node's first upgrade starts from a stage before it, a later one from a
\* failure.
Before == {"idle", "awaiting", "following"}

LEMMA RollBasic ==
  ASSUME BasicInv, NEW n \in Nodes, Roll(n), UNCHANGED lost, stage[n] \in Before \/ n \in lost
  PROVE  Marked' /\ Announced'
<1>1. TypeOK /\ Marked /\ Announced
  BY DEF BasicInv
<1>2. Marked'
  BY <1>1 DEF Marked, Roll, TypeOK, Before
<1>3. Announced'
  BY <1>1 DEF Announced, Roll, TypeOK
<1>4. QED
  BY <1>2, <1>3

LEMMA EnterBasic ==
  ASSUME BasicInv, NEW n \in Nodes, Enter(n), UNCHANGED lost, stage[n] = "idle" \/ n \in lost
  PROVE  Marked' /\ Announced'
<1>1. TypeOK /\ Marked /\ Announced
  BY DEF BasicInv
<1>2. CASE n = 1
  BY <1>2, RollBasic DEF Enter, Before
<1>3. CASE n # 1
  <2>1. n - 1 \in Nodes
    BY <1>3, UpgradeAssumption DEF Nodes
  <2>2. Marked'
    BY <1>1, <1>3 DEF Marked, Enter, TypeOK, markers, work
  <2>3. Announced'
    BY <1>1, <1>3, <2>1 DEF Announced, Enter, TypeOK, markers, work
  <2>4. QED
    BY <2>2, <2>3
<1>4. QED
  BY <1>2, <1>3

LEMMA FailBasic ==
  ASSUME BasicInv, NEW n \in Nodes, Fail(n) PROVE Marked' /\ Announced'
<1>1. TypeOK /\ Marked /\ Announced
  BY DEF BasicInv
<1>2. Marked'
  BY <1>1 DEF Marked, Fail, TypeOK, markers
<1>3. Announced'
  BY <1>1 DEF Announced, Fail, TypeOK, markers
<1>4. QED
  BY <1>2, <1>3

LEMMA BasicStep == BasicInv /\ [Next]_vars => BasicInv'
<1> SUFFICES ASSUME BasicInv, [Next]_vars PROVE BasicInv'
  OBVIOUS
<1>0. TypeOK /\ Marked /\ Announced
  BY DEF BasicInv
<1>1. TypeOK'
  BY <1>0, TypeStep
<1>2. CASE Tick
  <2>1. Marked'
    BY <1>0, <1>2 DEF Tick, Marked, TypeOK, Older
  <2>2. Announced'
    BY <1>0, <1>2 DEF Tick, Announced
  <2>3. QED
    BY <1>1, <2>1, <2>2 DEF BasicInv
<1>3. ASSUME NEW n \in Nodes, Begin(n) PROVE Marked' /\ Announced'
  BY <1>3, EnterBasic DEF Begin
<1>4. ASSUME NEW n \in Nodes, Retry(n) PROVE Marked' /\ Announced'
  BY <1>0, <1>4, EnterBasic DEF Retry, Marked
<1>5. ASSUME NEW n \in Nodes, AwaitStart(n) PROVE Marked' /\ Announced'
  <2>1. CASE n - 1 \in started
    <3>1. Marked'
      BY <1>0, <1>5, <2>1 DEF AwaitStart, Marked, TypeOK, markers, work
    <3>2. Announced'
      BY <1>0, <1>5, <2>1 DEF AwaitStart, Announced, TypeOK, markers, work
    <3>3. QED
      BY <3>1, <3>2
  <2>2. CASE n - 1 \notin started
    BY <1>5, <2>2, RollBasic DEF AwaitStart, Before
  <2>3. QED
    BY <2>1, <2>2
<1>6. ASSUME NEW n \in Nodes, AwaitDone(n) PROVE Marked' /\ Announced'
  BY <1>6, RollBasic DEF AwaitDone, Before
<1>7. ASSUME NEW n \in Nodes, Kick(n) PROVE Marked' /\ Announced'
  <2>1. Marked'
    BY <1>0, <1>7 DEF Kick, Marked, TypeOK
  <2>2. Announced'
    BY <1>0, <1>7 DEF Kick, Announced
  <2>3. QED
    BY <2>1, <2>2
<1>8. ASSUME NEW n \in Nodes, Complete(n) PROVE Marked' /\ Announced'
  <2>1. Marked'
    BY <1>0, <1>8 DEF Complete, Marked, TypeOK
  <2>2. Announced'
    BY <1>0, <1>8 DEF Complete, Announced, TypeOK
  <2>3. QED
    BY <2>1, <2>2
<1>9. ASSUME NEW n \in Nodes, Gather(n) PROVE Marked' /\ Announced'
  <2>1. CASE waited[n] > GatherWait
    BY <1>9, <2>1, FailBasic DEF Gather
  <2>2. CASE ~(waited[n] > GatherWait)
    <3>1. Marked'
      BY <1>0, <1>9, <2>2 DEF Gather, Marked, TypeOK, markers, work
    <3>2. Announced'
      BY <1>0, <1>9, <2>2 DEF Gather, Announced, TypeOK, markers, work
    <3>3. QED
      BY <3>1, <3>2
  <2>3. QED
    BY <2>1, <2>2
<1>10. ASSUME NEW n \in Nodes, Crash(n) PROVE Marked' /\ Announced'
  BY <1>10, FailBasic DEF Crash
<1>11. CASE UNCHANGED vars
  BY <1>0, <1>11, <1>1 DEF vars, markers, work, Marked, Announced, BasicInv
<1>12. ASSUME NEW n \in Nodes, MisreadAlive(n) PROVE Marked' /\ Announced'
  BY <1>12, RollBasic DEF MisreadAlive, Before
<1>13. QED
  BY <1>1, <1>2, <1>3, <1>4, <1>5, <1>6, <1>7, <1>8, <1>9, <1>10, <1>11, <1>12
  DEF Next, Step, BasicInv

-----------------------------------------------------------------------------
(* Why a node at work is not overtaken                                     *)

\* The limits leave room for the interval between two signs of life, the time
\* between two calls of the kick function, and the clocks; an upgrade takes no
\* longer than it is waited for; and no longer than a node is waited for that
\* shows no sign of life, unless every sign is read.
Watchful ==
  /\ KickInterval + MaxStep + MaxSkew <= MaxKick
  /\ MaxStep <= Compat /\ MaxRoll <= Wait
  /\ MaxRoll <= Compat \/ MaxMisreads = 0

\* A healthy node at work has given its first sign of life at its first call of
\* the kick function, and its last one is as old as its watchdog remembers.
Signs ==
  \A n \in Nodes \ lost : stage[n] = "rolling" =>
    /\ alive[n] = Never => kicked[n] = Never /\ rolled[n] <= quiet[n]
    /\ alive[n] # Never =>
         /\ kicked[n] # Never /\ alive[n] <= KickInterval + quiet[n]
         /\ kicked[n] <= KickInterval => alive[n] = kicked[n]

\* Its successor has not waited for longer than it has worked.
Watched ==
  \A n \in Nodes :
    stage[n] = "following" /\ n - 1 \notin lost /\ stage[n - 1] = "rolling"
      => waited[n] <= rolled[n - 1]

WatchInv == BasicInv /\ Signs /\ Watched

LEMMA ConstantsType ==
  /\ {StartWait, Wait, Compat, MaxKick, KickInterval, MaxStep, MaxRoll, MaxDelay, MaxSkew}
       \subseteq Nat
  /\ \A m, n \in Nodes : Skew[m] \in Int /\ Skew[m] - Skew[n] <= MaxSkew
  /\ Nodes \subseteq Nat \ {0}
<1>1. {StartWait, Wait, Compat, MaxKick, KickInterval, MaxStep, MaxRoll, MaxDelay, MaxSkew}
        \subseteq Nat
  <2>1. /\ StartWait \in Nat /\ Wait \in Nat /\ Compat \in Nat /\ MaxKick \in Nat
        /\ KickInterval \in Nat /\ MaxStep \in Nat /\ MaxRoll \in Nat
    BY UpgradeAssumption
  <2>2. MaxDelay \in Nat /\ MaxSkew \in Nat
    BY UpgradeAssumption
  <2>3. QED
    BY <2>1, <2>2
<1>2. \A m, n \in Nodes : Skew[m] \in Int /\ Skew[m] - Skew[n] <= MaxSkew
  <2>1. Skew \in [Nodes -> Int] /\ \A m, n \in Nodes : Skew[m] - Skew[n] <= MaxSkew
    BY UpgradeAssumption, Zenon DEF Nodes
  <2>2. QED
    BY <2>1
<1>3. Nodes \subseteq Nat \ {0}
  BY UpgradeAssumption DEF Nodes
<1>4. QED
  BY <1>1, <1>2, <1>3

LEMMA NotOvertaken ==
  ASSUME WatchInv, Watchful, NEW n \in Nodes, stage[n] = "following", ~Settled(n - 1)
  PROVE  ~TimedOut(n, n - 1) /\ n - 1 \notin done /\ (MaxRoll <= Compat => waited[n] <= Compat)
<1> DEFINE p == n - 1
<1>0. BasicInv /\ TypeOK /\ Marked /\ Announced /\ Signs /\ Watched
  BY DEF WatchInv, BasicInv
<1>1. p \in Nodes /\ p \in started /\ p \notin lost
  BY <1>0 DEF Announced, Settled
<1>2. stage[p] = "rolling" /\ p \notin done
  BY <1>0, <1>1 DEF Marked, Settled
<1>3. waited[n] <= rolled[p] /\ rolled[p] \in 0 .. MaxRoll /\ quiet[p] \in 0 .. MaxStep
      /\ waited[n] \in Nat
  BY <1>0, <1>1, <1>2, LimitsType DEF Watched, TypeOK
<1>4. CASE alive[p] = Never
  BY <1>0, <1>1, <1>2, <1>3, <1>4, ConstantsType DEF Signs, TimedOut, Watchful
<1>5. CASE alive[p] # Never
  <2>1. alive[p] \in Nat /\ alive[p] <= KickInterval + quiet[p]
    BY <1>0, <1>1, <1>2, <1>5 DEF Signs, TypeOK
  <2>2. SeenAge(n, p) <= MaxKick
    BY <1>1, <1>3, <2>1, ConstantsType DEF SeenAge, Watchful
  <2>3. SeenAge(n, p) \in Int
    BY <1>1, <2>1, ConstantsType DEF SeenAge
  <2>4. QED
    BY <1>2, <1>3, <1>5, <2>2, <2>3, ConstantsType DEF TimedOut, Watchful
<1>6. MaxRoll <= Compat => waited[n] <= Compat
  BY <1>3, LimitsType, ConstantsType
<1>7. QED
  BY <1>2, <1>4, <1>5, <1>6

LEMMA RollWatch ==
  ASSUME WatchInv, NEW n \in Nodes, Roll(n), UNCHANGED lost, stage[n] \in Before \/ n \in lost
  PROVE  Signs' /\ Watched'
<1>0. TypeOK /\ Marked /\ Announced /\ Signs /\ Watched
  BY DEF WatchInv, BasicInv
<1>1. Signs'
  BY <1>0 DEF Signs, Marked, Roll, TypeOK, Before
<1>2. Watched'
  BY <1>0 DEF Watched, Marked, Announced, Roll, TypeOK, Before
<1>3. QED
  BY <1>1, <1>2

LEMMA EnterWatch ==
  ASSUME WatchInv, NEW n \in Nodes, Enter(n), UNCHANGED lost, stage[n] = "idle" \/ n \in lost
  PROVE  Signs' /\ Watched'
<1>0. TypeOK /\ Announced /\ Signs /\ Watched
  BY DEF WatchInv, BasicInv
<1>1. CASE n = 1
  BY <1>1, RollWatch DEF Enter, Before
<1>2. CASE n # 1
  <2>1. Signs'
    BY <1>0, <1>2 DEF Signs, Enter, TypeOK, markers, work
  <2>2. Watched'
    BY <1>0, <1>2 DEF Watched, Announced, Enter, TypeOK, markers, work
  <2>3. QED
    BY <2>1, <2>2
<1>3. QED
  BY <1>1, <1>2

LEMMA FailWatch ==
  ASSUME WatchInv, NEW n \in Nodes, Fail(n) PROVE Signs' /\ Watched'
<1>0. TypeOK /\ Signs /\ Watched
  BY DEF WatchInv, BasicInv
<1>1. Signs'
  BY <1>0 DEF Signs, Fail, TypeOK, markers
<1>2. Watched'
  BY <1>0 DEF Watched, Fail, TypeOK, markers
<1>3. QED
  BY <1>1, <1>2

LEMMA KickWatch ==
  ASSUME WatchInv, NEW n \in Nodes, Kick(n) PROVE Signs' /\ Watched'
<1>0. TypeOK /\ Signs /\ Watched
  BY DEF WatchInv, BasicInv
<1>1. Signs'
  <2>1. CASE kicked[n] = Never \/ kicked[n] > KickInterval
    BY <1>0, <2>1, ConstantsType DEF Signs, Kick, TypeOK, Never
  <2>2. CASE ~(kicked[n] = Never \/ kicked[n] > KickInterval)
    BY <1>0, <2>2, ConstantsType DEF Signs, Kick, TypeOK, Never
  <2>3. QED
    BY <2>1, <2>2
<1>2. Watched'
  BY <1>0 DEF Watched, Kick, TypeOK
<1>3. QED
  BY <1>1, <1>2

LEMMA TickWatch ==
  ASSUME WatchInv, Watchful, Tick PROVE Signs' /\ Watched'
<1>0. BasicInv /\ TypeOK /\ Announced /\ Signs /\ Watched
  BY DEF WatchInv, BasicInv
<1>1. Signs'
  <2> SUFFICES ASSUME NEW n \in Nodes \ lost, stage[n] = "rolling"
               PROVE  /\ alive'[n] = Never => kicked'[n] = Never /\ rolled'[n] <= quiet'[n]
                      /\ alive'[n] # Never =>
                           /\ kicked'[n] # Never /\ alive'[n] <= KickInterval + quiet'[n]
                           /\ kicked'[n] <= KickInterval => alive'[n] = kicked'[n]
    BY DEF Signs, Tick
  <2>1. /\ rolled'[n] = rolled[n] + 1 /\ quiet'[n] = quiet[n] + 1
        /\ alive'[n] = Older(alive[n], MaxKick + MaxSkew + 1)
        /\ kicked'[n] = Older(kicked[n], KickInterval + 1)
    BY DEF Tick
  <2>2. /\ rolled[n] \in Nat /\ quiet[n] \in 0 .. MaxStep
        /\ alive[n] \in Nat \cup {Never} /\ kicked[n] \in Nat \cup {Never}
    BY <1>0, LimitsType DEF TypeOK
  <2>3. CASE alive[n] = Never
    BY <1>0, <2>1, <2>2, <2>3 DEF Signs, Older
  <2>4. CASE alive[n] # Never
    <3>1. /\ kicked[n] \in Nat /\ alive[n] \in Nat /\ alive[n] <= KickInterval + quiet[n]
          /\ kicked[n] <= KickInterval => alive[n] = kicked[n]
      BY <1>0, <2>2, <2>4 DEF Signs
    <3>2. /\ alive'[n] = AtMost(MaxKick + MaxSkew + 1, alive[n] + 1)
          /\ kicked'[n] = AtMost(KickInterval + 1, kicked[n] + 1)
      BY <2>1, <3>1 DEF Older, Never
    <3>3. alive'[n] \in Nat /\ kicked'[n] \in Nat /\ alive'[n] <= alive[n] + 1
      BY <3>1, <3>2, ConstantsType DEF AtMost
    <3>4. kicked'[n] <= KickInterval => alive'[n] = kicked'[n]
      BY <3>1, <3>2, ConstantsType DEF AtMost, Watchful
    <3>5. QED
      BY <2>1, <2>2, <3>1, <3>3, <3>4, ConstantsType DEF Never
  <2>5. QED
    BY <2>3, <2>4
<1>2. Watched'
  <2> SUFFICES ASSUME NEW n \in Nodes, stage[n] = "following", n - 1 \notin lost,
                      stage[n - 1] = "rolling"
               PROVE  waited'[n] <= rolled'[n - 1]
    BY DEF Watched, Tick
  <2>1. n - 1 \in Nodes
    BY <1>0 DEF Announced
  <2>2. waited[n] <= rolled[n - 1] /\ waited[n] \in Nat /\ rolled[n - 1] \in Nat
    BY <1>0, <2>1, LimitsType DEF Watched, TypeOK
  <2>3. waited'[n] = AtMost(MaxWait, waited[n] + 1) /\ rolled'[n - 1] = rolled[n - 1] + 1
    BY <2>1 DEF Tick, Waiting
  <2>4. QED
    BY <2>2, <2>3, LimitsType DEF AtMost
<1>3. QED
  BY <1>1, <1>2

LEMMA WatchStep == Watchful /\ WatchInv /\ [Next]_vars => WatchInv'
<1> SUFFICES ASSUME Watchful, WatchInv, [Next]_vars PROVE WatchInv'
  OBVIOUS
<1>0. BasicInv /\ TypeOK /\ Marked /\ Announced /\ Signs /\ Watched
  BY DEF WatchInv, BasicInv
<1>1. BasicInv'
  BY <1>0, BasicStep
<1>2. CASE Tick
  BY <1>1, <1>2, TickWatch DEF WatchInv
<1>3. ASSUME NEW n \in Nodes, Begin(n) PROVE Signs' /\ Watched'
  BY <1>3, EnterWatch DEF Begin
<1>4. ASSUME NEW n \in Nodes, Retry(n) PROVE Signs' /\ Watched'
  BY <1>0, <1>4, EnterWatch DEF Retry, Marked
<1>5. ASSUME NEW n \in Nodes, AwaitStart(n) PROVE Signs' /\ Watched'
  <2>1. CASE n - 1 \in started
    <3>1. Signs'
      BY <1>0, <1>5, <2>1 DEF AwaitStart, Signs, TypeOK, markers, work
    <3>2. Watched'
      BY <1>0, <1>5, <2>1, LimitsType DEF AwaitStart, Announced, Watched, TypeOK, markers, work
    <3>3. QED
      BY <3>1, <3>2
  <2>2. CASE n - 1 \notin started
    BY <1>5, <2>2, RollWatch DEF AwaitStart, Before
  <2>3. QED
    BY <2>1, <2>2
<1>6. ASSUME NEW n \in Nodes, AwaitDone(n) PROVE Signs' /\ Watched'
  BY <1>6, RollWatch DEF AwaitDone, Before
<1>7. ASSUME NEW n \in Nodes, Complete(n) PROVE Signs' /\ Watched'
  <2>1. Signs'
    BY <1>0, <1>7 DEF Complete, Signs, TypeOK
  <2>2. Watched'
    BY <1>0, <1>7 DEF Complete, Watched, TypeOK
  <2>3. QED
    BY <2>1, <2>2
<1>8. ASSUME NEW n \in Nodes, Gather(n) PROVE Signs' /\ Watched'
  <2>1. CASE waited[n] > GatherWait
    BY <1>8, <2>1, FailWatch DEF Gather
  <2>2. CASE ~(waited[n] > GatherWait)
    <3>1. Signs'
      BY <1>0, <1>8, <2>2 DEF Gather, Signs, TypeOK, markers, work
    <3>2. Watched'
      BY <1>0, <1>8, <2>2 DEF Gather, Watched, Announced, TypeOK, markers, work
    <3>3. QED
      BY <3>1, <3>2
  <2>3. QED
    BY <2>1, <2>2
<1>9. ASSUME NEW n \in Nodes, Crash(n) PROVE Signs' /\ Watched'
  BY <1>9, FailWatch DEF Crash
<1>10. CASE UNCHANGED vars
  <2>1. UNCHANGED <<stage, waited, started, done, alive, rolled, quiet, kicked, lost>>
    BY <1>10 DEF vars, markers, work
  <2>2. Signs' /\ Watched'
    BY <1>0, <2>1 DEF Signs, Watched
  <2>3. QED
    BY <1>1, <2>2 DEF WatchInv
<1>11. ASSUME NEW n \in Nodes, MisreadAlive(n) PROVE Signs' /\ Watched'
  BY <1>11, RollWatch DEF MisreadAlive, Before
<1>12. QED
  BY <1>1, <1>2, <1>3, <1>4, <1>5, <1>6, <1>7, <1>8, <1>9, <1>10, <1>11, KickWatch
  DEF Next, Step, WatchInv

-----------------------------------------------------------------------------
(* Why nodes take turns                                                    *)

\* Who has shown a start has no healthy node before it still to come.
Ordered == \A n \in started : \A k \in 1 .. n - 1 : Settled(k)

OrderInv == WatchInv /\ Ordered

\* No node gives up waiting for the start of its predecessor while a healthy
\* one before it is still to come.  The limit of that wait is the one thing
\* that the signs of life do not extend.
StartsShow ==
  \A n \in Nodes :
    stage[n] = "awaiting" /\ stage'[n] = "rolling" => \A k \in 1 .. n - 1 : Settled(k)

LEMMA SettledStays ==
  ASSUME BasicInv, [Next]_vars, NEW k \in Nodes, Settled(k) PROVE Settled(k)'
<1>0. TypeOK
  BY DEF BasicInv
<1>1. ASSUME NEW n \in Nodes, Begin(n) \/ AwaitStart(n) \/ AwaitDone(n) \/ MisreadAlive(n)
      PROVE  /\ UNCHANGED lost /\ \A m \in Nodes \ {n} : stage'[m] = stage[m]
             /\ stage[n] \in Before
  BY <1>0, <1>1 DEF Begin, AwaitStart, AwaitDone, MisreadAlive, Enter, Roll, TypeOK, Before
<1>2. ASSUME NEW n \in Nodes, Retry(n)
      PROVE  UNCHANGED lost /\ \A m \in Nodes \ {n} : stage'[m] = stage[m]
  BY <1>0, <1>2 DEF Retry, Enter, Roll, TypeOK
<1>3. ASSUME NEW n \in Nodes, Retry(n), n \notin lost PROVE FALSE
  BY <1>3 DEF Retry, BasicInv, Marked
<1>4. ASSUME NEW n \in Nodes, Fail(n)
      PROVE  lost' = lost \cup {n} /\ \A m \in Nodes \ {n} : stage'[m] = stage[m]
  BY <1>0, <1>4 DEF Fail, TypeOK
<1>5. ASSUME NEW n \in Nodes, Kick(n) \/ Complete(n) PROVE Settled(k)'
  BY <1>0, <1>5 DEF Kick, Complete, Settled, TypeOK
<1>6. ASSUME NEW n \in Nodes, Gather(n) PROVE Settled(k)'
  <2>1. CASE waited[n] > GatherWait
    BY <1>4, <1>6, <2>1 DEF Gather, Settled
  <2>2. CASE ~(waited[n] > GatherWait)
    BY <1>0, <1>6, <2>2 DEF Gather, Settled, TypeOK
  <2>3. QED
    BY <2>1, <2>2
<1>7. ASSUME NEW n \in Nodes, Crash(n) PROVE Settled(k)'
  BY <1>4, <1>7 DEF Crash, Settled
<1>8. CASE Tick \/ UNCHANGED vars
  BY <1>8 DEF Tick, vars, Settled
<1>9. ASSUME NEW n \in Nodes, Begin(n) \/ AwaitStart(n) \/ AwaitDone(n) \/ MisreadAlive(n)
      PROVE  Settled(k)'
  BY <1>1, <1>9 DEF Settled, Before
<1>10. ASSUME NEW n \in Nodes, Retry(n) PROVE Settled(k)'
  BY <1>2, <1>3, <1>10 DEF Settled
<1>11. QED
  BY <1>5, <1>6, <1>7, <1>8, <1>9, <1>10 DEF Next, Step

\* Whoever begins to upgrade has no healthy node before it still to come.
LEMMA BeginnersInOrder ==
  ASSUME Watchful, OrderInv, [Next]_vars, [StartsShow]_vars,
         NEW n \in Nodes, n \notin started \/ stage[n] # "rolling", stage'[n] = "rolling",
         NEW k \in 1 .. n - 1
  PROVE  Settled(k)
<1>0. WatchInv /\ BasicInv /\ TypeOK /\ Announced /\ Ordered
  BY DEF OrderInv, WatchInv, BasicInv
<1>1. k \in Nodes /\ n # 1 /\ (k = n - 1 \/ k \in 1 .. (n - 1) - 1)
  <2>1. Last \in Nat /\ n \in Int /\ 1 <= n /\ n <= Last /\ k \in Int /\ 1 <= k /\ k <= n - 1
    BY UpgradeAssumption DEF Nodes
  <2>2. QED
    BY <2>1 DEF Nodes
<1>2. stage[n] # "rolling"
  BY <1>0 DEF TypeOK
<1>3. stage[n] # "awaiting" => stage[n] = "following" /\ (AwaitDone(n) \/ MisreadAlive(n))
  <2>1. Next
    BY <1>2 DEF vars
  <2>2. ASSUME NEW m \in Nodes, Begin(m) \/ Retry(m) PROVE FALSE
    BY <1>0, <1>1, <1>2, <2>2 DEF Begin, Retry, Enter, Roll, TypeOK
  <2>3. ASSUME NEW m \in Nodes, AwaitStart(m), stage[n] # "awaiting" PROVE FALSE
    BY <1>0, <1>2, <2>3 DEF AwaitStart, Roll, TypeOK
  <2>4. ASSUME NEW m \in Nodes, AwaitDone(m) \/ MisreadAlive(m) PROVE m = n
    BY <1>0, <1>2, <2>4 DEF AwaitDone, MisreadAlive, Roll, TypeOK
  <2>5. ASSUME NEW m \in Nodes, Kick(m) \/ Complete(m) \/ Gather(m) \/ Crash(m) PROVE FALSE
    BY <1>0, <1>2, <2>5 DEF Kick, Complete, Gather, Crash, Fail, TypeOK
  <2>6. Tick => FALSE
    BY <1>2 DEF Tick
  <2>7. QED
    BY <2>1, <2>2, <2>3, <2>4, <2>5, <2>6 DEF Next, Step, AwaitDone, MisreadAlive
<1>4. CASE stage[n] = "awaiting"
  <2>1. StartsShow
    BY <1>2 DEF vars
  <2>2. QED
    BY <1>4, <2>1 DEF StartsShow
<1>5. CASE stage[n] = "following" /\ (AwaitDone(n) \/ MisreadAlive(n))
  <2>1. n - 1 \in started
    BY <1>0, <1>5 DEF Announced
  <2>2. CASE k = n - 1
    <3>1. AwaitDone(n) => Settled(k)
      BY <1>0, <1>5, <2>2, NotOvertaken DEF AwaitDone, EndSeen
    <3>2. ASSUME MisreadAlive(n), ~Settled(k) PROVE FALSE
      <4>1. waited[n] > Compat /\ waited[n] \in Nat /\ Compat \in Nat
        BY <1>0, <3>2, LimitsType, ConstantsType DEF MisreadAlive, TypeOK
      <4>2. ~(MaxMisreads = 0)
        BY <1>0, <3>2 DEF MisreadAlive, TypeOK
      <4>3. waited[n] <= Compat
        BY <1>0, <1>5, <2>2, <3>2, <4>2, NotOvertaken DEF Watchful
      <4>4. QED
        BY <4>1, <4>3
    <3>3. QED
      BY <1>5, <3>1, <3>2
  <2>3. CASE k \in 1 .. (n - 1) - 1
    BY <1>0, <2>1, <2>3 DEF Ordered
  <2>4. QED
    BY <1>1, <2>2, <2>3
<1>6. QED
  BY <1>3, <1>4, <1>5

LEMMA OrderStep ==
  Watchful /\ OrderInv /\ [Next]_vars /\ [StartsShow]_vars => OrderInv'
<1> SUFFICES ASSUME Watchful, OrderInv, [Next]_vars, [StartsShow]_vars PROVE OrderInv'
  OBVIOUS
<1>0. WatchInv /\ BasicInv /\ TypeOK /\ Ordered
  BY DEF OrderInv, WatchInv, BasicInv
<1>1. WatchInv' /\ TypeOK'
  BY <1>0, WatchStep DEF WatchInv, BasicInv
<1>2. ASSUME NEW n \in started', NEW k \in 1 .. n - 1 PROVE Settled(k)'
  <2>1. n \in Nodes /\ k \in Nodes
    BY <1>1, <1>2, UpgradeAssumption DEF TypeOK, Nodes
  <2>2. n \in started \/ (n \notin started /\ stage'[n] = "rolling")
    <3>1. ASSUME NEW m \in Nodes, Roll(m) PROVE started' = started \cup {m} /\ stage'[m] = "rolling"
      BY <1>0, <3>1 DEF Roll, TypeOK
    <3>2. ASSUME NEW m \in Nodes, Enter(m) PROVE Roll(m) \/ UNCHANGED started
      BY <3>2 DEF Enter, markers
    <3>3. CASE UNCHANGED started
      BY <3>3
    <3>4. CASE started' # started
      <4>1. \E m \in Nodes : Roll(m)
        BY <3>2, <3>4 DEF Next, Step, Tick, Begin, Retry, AwaitStart, AwaitDone, MisreadAlive,
                          Kick, Complete,
                          Gather, Crash, Fail, markers, vars
      <4>2. QED
        BY <3>1, <4>1
    <3>5. QED
      BY <3>3, <3>4
  <2>3. Settled(k)
    BY <1>0, <1>2, <2>1, <2>2, BeginnersInOrder DEF Ordered
  <2>4. QED
    BY <1>0, <2>1, <2>3, SettledStays
<1>3. QED
  BY <1>1, <1>2 DEF OrderInv, Ordered

LEMMA OrderInit == Init => OrderInv
  BY BasicInit DEF Init, OrderInv, WatchInv, Signs, Watched, Ordered

Upgrading == {n \in Nodes \ lost : stage[n] = "rolling"}

OneAtATime == \A m, n \in Upgrading : m = n

\* One healthy node at a time, in the order of their names.
LEMMA OneUpgrades == OrderInv => OneAtATime
<1> SUFFICES ASSUME OrderInv, NEW m \in Upgrading, NEW n \in Upgrading PROVE m = n
  BY DEF OneAtATime
<1>1. /\ m \in Nodes /\ n \in Nodes /\ m \in Nat /\ n \in Nat
      /\ ~Settled(m) /\ ~Settled(n)
  BY DEF Upgrading, Settled, Nodes
<1>2. m \in started /\ n \in started
  BY <1>1 DEF Upgrading, OrderInv, WatchInv, BasicInv, TypeOK
<1>3. ~(m \in 1 .. n - 1) /\ ~(n \in 1 .. m - 1)
  BY <1>1, <1>2 DEF OrderInv, Ordered
<1>4. QED
  BY <1>1, <1>3 DEF Nodes

\* A step begins or ends the upgrade of one healthy node at most.
LEMMA TurnsStep ==
  ASSUME TypeOK, OneAtATime, OneAtATime', [Next]_vars PROVE [Turns!Next]_Upgrading
<1> SUFFICES ASSUME Upgrading' # Upgrading PROVE Turns!Next
  OBVIOUS
<1>1. PICK n \in Nodes : \A m \in Nodes \ {n} : m \in Upgrading <=> m \in Upgrading'
  <2>1. ASSUME NEW m \in Nodes, Step(m) \/ Retry(m) \/ Crash(m) \/ MisreadAlive(m)
        PROVE  \A k \in Nodes \ {m} : k \in Upgrading <=> k \in Upgrading'
    BY <2>1 DEF Upgrading, Step, Begin, Retry, Enter, AwaitStart, AwaitDone, MisreadAlive, Roll, Kick,
                      Complete, Gather, Crash, Fail, TypeOK
  <2>2. Tick \/ UNCHANGED vars => UNCHANGED Upgrading
    BY DEF Tick, vars, Upgrading
  <2>3. QED
    BY <2>1, <2>2 DEF Next
<1>2. Upgrading \subseteq Nodes /\ Upgrading' \subseteq Nodes
  BY DEF Upgrading
<1>3. CASE n \in Upgrading /\ n \notin Upgrading'
  <2>1. Upgrading = {n}
    BY <1>3 DEF OneAtATime
  <2>2. Upgrading' = {}
    BY <1>1, <1>2, <1>3, <2>1
  <2>3. QED
    BY <1>2, <2>1, <2>2 DEF Turns!Next, Turns!End, Upgrading
<1>4. CASE n \notin Upgrading /\ n \in Upgrading'
  <2>1. Upgrading' = {n}
    BY <1>4 DEF OneAtATime
  <2>2. Upgrading = {}
    BY <1>1, <1>2, <1>4, <2>1
  <2>3. QED
    BY <1>2, <2>1, <2>2 DEF Turns!Next, Turns!Begin, Upgrading
<1>5. QED
  BY <1>1, <1>2, <1>3, <1>4

\* A node that shows in time that it is alive is not overtaken: if the limits
\* leave room for the clocks and for the calls of the kick function, and if an
\* upgrade is over before a failed reading of its signs can end the wait for it
\* or no reading fails (Watchful), healthy nodes upgrade in turns, any number of
\* them, whatever hooks fail or are run again, as long as nobody gives up waiting
\* for a start too early (StartsShow).
THEOREM UpgradesTakeTurns ==
  Watchful => (Spec /\ [][StartsShow]_vars => TakesTurns)
<1> SUFFICES ASSUME Watchful PROVE Spec /\ [][StartsShow]_vars => TakesTurns
  OBVIOUS
<1>1. Init => OrderInv /\ Turns!Init
  BY OrderInit DEF Init, Turns!Init
<1>2. OrderInv /\ [Next]_vars /\ [StartsShow]_vars => OrderInv'
  BY OrderStep
<1>3. OrderInv => TypeOK /\ OneAtATime
  BY OneUpgrades DEF OrderInv, WatchInv, BasicInv
<1>4. TypeOK /\ OneAtATime /\ OneAtATime' /\ [Next]_vars
        => [Turns!Next]_{n \in Nodes \ lost : stage[n] = "rolling"}
  BY TurnsStep DEF Upgrading
<1>5. QED
  BY <1>1, <1>2, <1>3, <1>4, PTL DEF Spec, TakesTurns, Turns!Spec

-----------------------------------------------------------------------------
(* When nobody gives up waiting for a start                                *)

\* When a node has begun at the latest, if those before it get on.
Due(n) == MaxDelay + (n - 1) * MaxRoll

\* An upgrade takes time, and a node's turn has come before the node after it
\* gives up waiting for its start.
InTime == MaxRoll >= 1 /\ \A n \in 2 .. Last : Due(n - 1) <= StartWait

\* Minute t, counted from the change of the configuration: every node that
\* has not begun is still in time, and so is the one at work.
Schedule(t) ==
  \A n \in Nodes :
    /\ waited[n] <= t
    /\ stage[n] = "idle" => waited[n] = t /\ t <= MaxDelay
    /\ n \notin started => t <= Due(n)
    /\ stage[n] = "rolling" /\ n \notin lost => t <= Due(n) + rolled[n]

\* Only the wait for all the others fails a hook, when its node is done.
FailsLate == /\ spent \in [crashes : Nat, retries : Nat, misreads : Nat] /\ spent.crashes = 0
             /\ lost \subseteq done

ScheduleInv == BasicInv /\ FailsLate /\ \E t \in Nat : Schedule(t)

LEMMA DueType ==
  ASSUME NEW n \in Nodes
  PROVE  /\ Due(n) \in Nat /\ MaxDelay <= Due(n)
         /\ n - 1 \in Nodes => Due(n) = Due(n - 1) + MaxRoll
<1>1. MaxDelay \in Nat /\ MaxRoll \in Nat /\ n \in Nat /\ n - 1 \in Nat
  BY UpgradeAssumption DEF Nodes
<1>2. (n - 1) * MaxRoll \in Nat
  BY <1>1
<1>3. (n - 1) * MaxRoll = ((n - 1) - 1) * MaxRoll + MaxRoll
  BY <1>1
<1>4. QED
  BY <1>1, <1>2, <1>3 DEF Due

LEMMA MaxDelayInside == MaxDelay \in Nat /\ MaxDelay < MaxWait
<1>1. /\ StartWait \in Nat /\ Wait \in Nat /\ Compat \in Nat
      /\ GatherWait \in Nat /\ MaxDelay \in Nat
  BY UpgradeAssumption
<1>2. MaxDelay <= Longer(GatherWait, MaxDelay) /\ Longer(GatherWait, MaxDelay) \in Nat
  BY <1>1 DEF Longer
<1>3. /\ Longer(GatherWait, MaxDelay) <= Longer(Compat, Longer(GatherWait, MaxDelay))
      /\ Longer(Compat, Longer(GatherWait, MaxDelay)) \in Nat
  BY <1>1, <1>2 DEF Longer
<1>4. Longer(StartWait, Wait) \in Nat
  BY <1>1, LongerType
<1>5. Longer(Compat, Longer(GatherWait, MaxDelay)) < MaxWait
  BY <1>3, <1>4 DEF MaxWait, Longer
<1>6. QED
  BY <1>1, <1>2, <1>3, <1>5, LimitsType

LEMMA ScheduleInit == Init => ScheduleInv
<1> SUFFICES ASSUME Init PROVE ScheduleInv
  OBVIOUS
<1>1. FailsLate
  BY DEF Init, FailsLate
<1>2. Schedule(0)
  BY MaxDelayInside, DueType DEF Init, Schedule, Nodes
<1>3. QED
  BY <1>1, <1>2, BasicInit DEF ScheduleInv

\* A node in time begins in time.
LEMMA RollSchedule ==
  ASSUME BasicInv, NEW t \in Nat, Schedule(t), NEW n \in Nodes, Roll(n), UNCHANGED lost,
         stage[n] \in Before \/ n \in lost
  PROVE  Schedule(t)'
<1>1. TypeOK /\ Marked
  BY DEF BasicInv
<1>2. n \notin lost => n \notin started
  BY <1>1 DEF Marked, Before
<1>3. /\ waited' = [waited EXCEPT ![n] = 0] /\ stage' = [stage EXCEPT ![n] = "rolling"]
      /\ rolled' = [rolled EXCEPT ![n] = 0] /\ started' = started \cup {n}
  BY DEF Roll
<1>4. t <= Due(n) + 0 \/ n \in lost
  BY <1>2, DueType DEF Schedule
<1>5. QED
  BY <1>1, <1>3, <1>4, LimitsType DEF Schedule, TypeOK, Due

LEMMA EnterSchedule ==
  ASSUME BasicInv, NEW t \in Nat, Schedule(t), NEW n \in Nodes, Enter(n), UNCHANGED lost,
         stage[n] = "idle" \/ n \in lost
  PROVE  Schedule(t)'
<1>1. CASE n = 1
  BY <1>1, RollSchedule DEF Enter, Before
<1>2. CASE n # 1
  BY <1>2 DEF BasicInv, TypeOK, Enter, Schedule, Due, markers, work
<1>3. QED
  BY <1>1, <1>2

\* A minute more: the turn of a node that waits depends on the node before it,
\* which is in time and gets on.
LEMMA TickSchedule ==
  ASSUME BasicInv, FailsLate, MaxRoll >= 1, NEW t \in Nat, Schedule(t), Tick
  PROVE  Schedule(t + 1)'
<1>0. TypeOK /\ Marked /\ Announced
  BY DEF BasicInv
<1> SUFFICES ASSUME NEW n \in Nodes
             PROVE  /\ waited'[n] <= t + 1
                    /\ stage[n] = "idle" => waited'[n] = t + 1 /\ t + 1 <= MaxDelay
                    /\ n \notin started => t + 1 <= Due(n)
                    /\ stage[n] = "rolling" /\ n \notin lost => t + 1 <= Due(n) + rolled'[n]
  BY DEF Tick, Schedule, Due
<1>1. /\ waited[n] \in Nat /\ waited[n] <= t /\ rolled[n] \in Nat /\ Due(n) \in Nat
      /\ MaxDelay \in Nat /\ MaxDelay <= Due(n) /\ MaxWait \in Nat /\ MaxDelay < MaxWait
      /\ MaxRoll \in Nat
  BY <1>0, LimitsType, DueType, MaxDelayInside DEF TypeOK, Schedule
<1>2. waited'[n] <= t + 1
  BY <1>1 DEF Tick, AtMost
<1>3. ASSUME stage[n] = "idle" PROVE waited'[n] = t + 1 /\ t + 1 <= MaxDelay
  <2>1. waited[n] = t /\ waited[n] < MaxDelay
    BY <1>3 DEF Schedule, Tick
  <2>2. waited'[n] = AtMost(MaxWait, waited[n] + 1)
    BY <1>3 DEF Tick
  <2>3. QED
    BY <1>1, <2>1, <2>2 DEF AtMost
<1>4. ASSUME n \notin started PROVE t + 1 <= Due(n)
  <2>1. stage[n] \in Before
    BY <1>0, <1>4 DEF TypeOK, Marked, FailsLate, Stages, Waiting, Before
  <2>2. CASE stage[n] = "idle"
    BY <1>1, <1>3, <2>2
  <2>3. CASE stage[n] # "idle"
    <3>1. n - 1 \in Nodes /\ Due(n) = Due(n - 1) + MaxRoll /\ Due(n - 1) \in Nat
      BY <1>0, <2>1, <2>3, DueType DEF Announced, Before
    <3>2. CASE n - 1 \notin started
      BY <1>1, <3>1, <3>2 DEF Schedule
    <3>3. CASE n - 1 \in started
      <4>1. n - 1 \notin done
        BY <2>1, <2>3, <3>3 DEF Tick, Noticed, StartSeen, EndSeen, Before
      <4>2. stage[n - 1] = "rolling" /\ n - 1 \notin lost
        BY <1>0, <3>1, <3>3, <4>1 DEF FailsLate, Marked
      <4>3. t <= Due(n - 1) + rolled[n - 1] /\ rolled[n - 1] < MaxRoll /\ rolled[n - 1] \in Nat
        BY <1>0, <3>1, <4>2, LimitsType DEF Schedule, Tick, TypeOK
      <4>4. QED
        BY <1>1, <3>1, <4>3
    <3>4. QED
      BY <3>2, <3>3
  <2>4. QED
    BY <2>2, <2>3
<1>5. ASSUME stage[n] = "rolling", n \notin lost PROVE t + 1 <= Due(n) + rolled'[n]
  <2>1. rolled'[n] = rolled[n] + 1 /\ t <= Due(n) + rolled[n]
    BY <1>5 DEF Tick, Schedule
  <2>2. QED
    BY <1>1, <2>1
<1>6. QED
  BY <1>2, <1>3, <1>4, <1>5

LEMMA ScheduleStep ==
  MaxCrashes = 0 /\ MaxRoll >= 1 /\ ScheduleInv /\ [Next]_vars => ScheduleInv'
<1> SUFFICES ASSUME MaxCrashes = 0, MaxRoll >= 1, ScheduleInv, [Next]_vars PROVE ScheduleInv'
  OBVIOUS
<1>0. BasicInv /\ TypeOK /\ Marked /\ FailsLate
  BY DEF ScheduleInv, BasicInv
<1>1. BasicInv'
  BY <1>0, BasicStep
<1>2. PICK t \in Nat : Schedule(t)
  BY DEF ScheduleInv
<1>3. CASE Tick
  <2>1. Schedule(t + 1)'
    BY <1>0, <1>2, <1>3, TickSchedule
  <2>2. FailsLate'
    BY <1>0, <1>3 DEF FailsLate, Tick
  <2>3. QED
    BY <1>1, <2>1, <2>2 DEF ScheduleInv
<1>4. ASSUME NEW n \in Nodes, Enter(n), UNCHANGED lost, stage[n] = "idle" \/ n \in lost
      PROVE  Schedule(t)' /\ done' = done
  <2>1. Schedule(t)'
    BY <1>0, <1>2, <1>4, EnterSchedule
  <2>2. done' = done
    BY <1>4 DEF Enter, Roll, markers
  <2>3. QED
    BY <2>1, <2>2
<1>5. ASSUME NEW n \in Nodes, Begin(n) PROVE Schedule(t)' /\ FailsLate'
  BY <1>0, <1>4, <1>5 DEF Begin, FailsLate
<1>6. ASSUME NEW n \in Nodes, Retry(n) PROVE Schedule(t)' /\ FailsLate'
  <2>1. n \in lost
    BY <1>0, <1>6 DEF Retry, Marked
  <2>2. Schedule(t)' /\ done' = done /\ UNCHANGED lost
    BY <1>4, <1>6, <2>1 DEF Retry
  <2>3. spent' \in [crashes : Nat, retries : Nat, misreads : Nat] /\ spent'.crashes = 0
    BY <1>0, <1>6 DEF Retry, FailsLate
  <2>4. QED
    BY <1>0, <2>2, <2>3 DEF FailsLate
<1>7. ASSUME NEW n \in Nodes, AwaitStart(n) PROVE Schedule(t)' /\ FailsLate'
  <2>1. CASE n - 1 \in started
    <3>1. Schedule(t)'
      BY <1>0, <1>2, <1>7, <2>1 DEF AwaitStart, Schedule, TypeOK, markers, work, Due
    <3>2. QED
      BY <1>0, <1>7, <2>1, <3>1 DEF AwaitStart, FailsLate, markers
  <2>2. CASE n - 1 \notin started
    <3>1. Schedule(t)'
      BY <1>0, <1>2, <1>7, <2>2, RollSchedule DEF AwaitStart, Before
    <3>2. QED
      BY <1>0, <1>7, <2>2, <3>1 DEF AwaitStart, FailsLate, Roll
  <2>3. QED
    BY <2>1, <2>2
<1>8. ASSUME NEW n \in Nodes, AwaitDone(n) PROVE Schedule(t)' /\ FailsLate'
  <2>1. Schedule(t)'
    BY <1>0, <1>2, <1>8, RollSchedule DEF AwaitDone, Before
  <2>2. QED
    BY <1>0, <1>8, <2>1 DEF AwaitDone, FailsLate, Roll
<1>9. ASSUME NEW n \in Nodes, Kick(n) PROVE Schedule(t)' /\ FailsLate'
  BY <1>0, <1>2, <1>9 DEF Kick, Schedule, FailsLate, Due
<1>10. ASSUME NEW n \in Nodes, Complete(n) PROVE Schedule(t)' /\ FailsLate'
  BY <1>0, <1>2, <1>10 DEF Complete, Schedule, FailsLate, TypeOK, Due
<1>11. ASSUME NEW n \in Nodes, Gather(n) PROVE Schedule(t)' /\ FailsLate'
  <2>1. stage'[n] # "idle" /\ stage'[n] # "rolling" /\ n \in Nodes
    BY <1>0, <1>11 DEF Gather, Fail, TypeOK
  <2>2. /\ \A m \in Nodes \ {n} : stage'[m] = stage[m] /\ waited'[m] = waited[m]
                                  /\ rolled'[m] = rolled[m]
        /\ waited'[n] = waited[n] \/ waited'[n] = 0
        /\ started' = started /\ done' = done /\ spent' = spent
        /\ lost' = lost \/ lost' = lost \cup {n}
    BY <1>0, <1>11 DEF Gather, Fail, TypeOK, markers, work
  <2>3. Schedule(t)'
    BY <1>2, <2>1, <2>2 DEF Schedule, Due
  <2>4. n \in done \/ n \in lost
    BY <1>0, <1>11 DEF Gather, Marked
  <2>5. QED
    BY <1>0, <2>2, <2>3, <2>4 DEF FailsLate
<1>12. ASSUME NEW n \in Nodes, Crash(n) PROVE FALSE
  BY <1>0, <1>12 DEF Crash, FailsLate
<1>13. CASE UNCHANGED vars
  <2>1. Schedule(t)' /\ FailsLate'
    BY <1>0, <1>2, <1>13 DEF vars, markers, work, Schedule, FailsLate, Due
  <2>2. QED
    BY <1>1, <2>1 DEF ScheduleInv
<1>14. ASSUME NEW n \in Nodes, MisreadAlive(n) PROVE Schedule(t)' /\ FailsLate'
  <2>1. Schedule(t)'
    BY <1>0, <1>2, <1>14, RollSchedule DEF MisreadAlive, Before
  <2>2. QED
    BY <1>0, <1>14, <2>1 DEF MisreadAlive, FailsLate, Roll
<1>15. ASSUME NEW n \in Nodes, Step(n) \/ Retry(n) \/ Crash(n) PROVE Schedule(t)' /\ FailsLate'
  BY <1>5, <1>6, <1>7, <1>8, <1>9, <1>10, <1>11, <1>12, <1>15 DEF Step
<1>16. QED
  BY <1>1, <1>3, <1>13, <1>14, <1>15 DEF Next, ScheduleInv

\* While the schedule is kept the limit of the wait for a start is not reached.
LEMMA NobodyGivesUp ==
  ASSUME InTime, ScheduleInv, [Next]_vars PROVE [StartsShow]_vars
<1> SUFFICES ASSUME NEW n \in Nodes, stage[n] = "awaiting", stage'[n] = "rolling"
             PROVE  FALSE
  BY DEF StartsShow
<1>0. BasicInv /\ TypeOK /\ Marked /\ Announced
  BY DEF ScheduleInv, BasicInv
<1>1. PICK t \in Nat : Schedule(t)
  BY DEF ScheduleInv
<1>2. AwaitStart(n) /\ n - 1 \notin started
  <2>1. Next
    BY DEF vars
  <2>2. ASSUME NEW m \in Nodes, Begin(m) \/ Retry(m) PROVE FALSE
    BY <1>0, <2>2 DEF Begin, Retry, Enter, Roll, TypeOK
  <2>3. ASSUME NEW m \in Nodes, AwaitStart(m) PROVE m = n /\ n - 1 \notin started
    BY <1>0, <2>3 DEF AwaitStart, Roll, TypeOK
  <2>4. ASSUME NEW m \in Nodes, AwaitDone(m) \/ MisreadAlive(m) PROVE FALSE
    BY <1>0, <2>4 DEF AwaitDone, MisreadAlive, Roll, TypeOK
  <2>5. ASSUME NEW m \in Nodes, Kick(m) \/ Complete(m) \/ Gather(m) \/ Crash(m) PROVE FALSE
    BY <1>0, <2>5 DEF Kick, Complete, Gather, Crash, Fail, TypeOK
  <2>6. Tick => FALSE
    BY DEF Tick
  <2>7. QED
    BY <2>1, <2>2, <2>3, <2>4, <2>5, <2>6 DEF Next, Step
<1>3. waited[n] > StartWait /\ waited[n] <= t /\ waited[n] \in Nat
  BY <1>0, <1>1, <1>2, LimitsType DEF AwaitStart, StartSeen, Schedule, TypeOK
<1>4. n - 1 \in Nodes /\ n \in 2 .. Last
  BY <1>0, UpgradeAssumption DEF Announced, Nodes
<1>5. t <= Due(n - 1) /\ Due(n - 1) <= StartWait /\ Due(n - 1) \in Nat
  BY <1>1, <1>2, <1>4, DueType DEF Schedule, InTime
<1>6. QED
  BY <1>1, <1>3, <1>5, ConstantsType

\* Healthy nodes upgrade in turns, any number of them, when no hook fails
\* before its node is done and the last turn comes before the longest wait for
\* a start ends, under the same conditions on the limits.
THEOREM HealthyUpgradesTakeTurns ==
  MaxCrashes = 0 /\ InTime /\ Watchful => (Spec => TakesTurns)
<1> SUFFICES ASSUME MaxCrashes = 0, InTime, Watchful PROVE Spec => TakesTurns
  OBVIOUS
<1>1. Init => ScheduleInv
  BY ScheduleInit
<1>2. ScheduleInv /\ [Next]_vars => ScheduleInv'
  BY ScheduleStep DEF InTime
<1>3. ScheduleInv /\ [Next]_vars => [StartsShow]_vars
  BY NobodyGivesUp
<1>4. Spec /\ [][StartsShow]_vars => TakesTurns
  BY UpgradesTakeTurns
<1>5. QED
  BY <1>1, <1>2, <1>3, <1>4, PTL DEF Spec
=============================================================================
