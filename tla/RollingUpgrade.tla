---------------------------- MODULE RollingUpgrade ----------------------------
(***************************************************************************)
(* The release upgrade of charms_ceph/utils.py: roll_monitor_cluster and   *)
(* roll_osd_cluster.  The nodes of a cluster upgrade one after the other   *)
(* in the order of their names.  A node waits for its predecessor only, in *)
(* two loops with time limits: first for its "start" marker, then for its  *)
(* "done" marker, as long as the predecessor renews its "alive" marker.    *)
(* Unlike the resource rollout it goes ahead when it has waited enough.    *)
(*                                                                         *)
(* Time passes in minutes.  Nothing here knows the date, only how long ago *)
(* something was: ages count up to the largest one any test tells apart.   *)
(***************************************************************************)
EXTENDS Integers

CONSTANTS
  Last,        \* the nodes are 1 .. Last in the order of their names
  Service,     \* "mon" or "osd"
  Skew,        \* how many minutes each node's clock is ahead
  MaxSkew,     \* bound on the difference of two clocks
  StartWait,   \* how long to wait for the predecessor's start
  Wait,        \* how long to wait for its end
  Compat,      \* how long when it never shows that it is alive
  MaxKick,     \* how old its last sign of life may be
  KickInterval,\* how often a node gives one
  GatherWait,  \* how long a monitor waits for all the others
  MaxStep,     \* bound on the time between two calls of the kick function
  MaxRoll,     \* bound on the time one node takes
  MaxDelay,    \* bound on how late a node's hook begins
  MaxCrashes,  \* bound on hooks that die or fail
  MaxRetries,  \* bound on failed hooks that Juju runs again
  MaxMisreads  \* bound on failed readings of an "alive" marker that end a wait

ASSUME UpgradeAssumption ==
  /\ Last \in Nat \ {0} /\ Service \in {"mon", "osd"}
  /\ Skew \in [1 .. Last -> Int] /\ MaxSkew \in Nat
  /\ \A m, n \in 1 .. Last : Skew[m] - Skew[n] <= MaxSkew
  /\ {StartWait, Wait, Compat, MaxKick, KickInterval, GatherWait,
      MaxStep, MaxRoll, MaxDelay, MaxCrashes, MaxRetries, MaxMisreads} \subseteq Nat

VARIABLES
  stage,     \* what each node's hook is at
  waited,    \* minutes since its present wait, or its configuration, began
  started,   \* nodes with a "start" marker
  done,      \* nodes with a "done" marker
  alive,     \* the age of each node's "alive" marker
  rolled,    \* minutes since a node's upgrade began
  quiet,     \* minutes since it last called the kick function
  kicked,    \* minutes since its watchdog last wrote "alive"
  lost,      \* the nodes whose hook has failed before
  spent      \* how much of each bound is used

markers == <<started, done, alive>>
work == <<rolled, quiet, kicked>>
vars == <<stage, waited, markers, work, lost, spent>>

Nodes == 1 .. Last
Never == -1
Waiting == {"awaiting", "following", "gathering"}
Stages == Waiting \cup {"idle", "rolling", "upgraded", "failed"}

Init ==
  /\ stage = [n \in Nodes |-> "idle"]
  /\ waited = [n \in Nodes |-> 0]
  /\ started = {} /\ done = {}
  /\ alive = [n \in Nodes |-> Never]
  /\ rolled = [n \in Nodes |-> 0]
  /\ quiet = [n \in Nodes |-> 0]
  /\ kicked = [n \in Nodes |-> Never]
  /\ lost = {}
  /\ spent = [crashes |-> 0, retries |-> 0, misreads |-> 0]

-----------------------------------------------------------------------------
(* Ages                                                                    *)

AtMost(bound, age) == IF age > bound THEN bound ELSE age
Older(age, bound) == IF age = Never THEN Never ELSE AtMost(bound, age + 1)

Longer(a, b) == IF a > b THEN a ELSE b

\* One more than any limit.
MaxWait == 1 + Longer(Longer(StartWait, Wait),
                      Longer(Compat, Longer(GatherWait, MaxDelay)))

-----------------------------------------------------------------------------
(* lock_and_roll                                                           *)

\* Mutant: the start marker is left out.
Roll_Silent(n) ==
  /\ stage' = [stage EXCEPT ![n] = "rolling"]
  /\ kicked' = [kicked EXCEPT ![n] = Never]
  /\ waited' = [waited EXCEPT ![n] = 0]
  /\ UNCHANGED <<markers, rolled, quiet>>

\* The start marker is written and the upgrade begins, with a new watchdog.
Roll(n) ==
  /\ stage' = [stage EXCEPT ![n] = "rolling"]
  /\ started' = started \cup {n}
  /\ rolled' = [rolled EXCEPT ![n] = 0]
  /\ quiet' = [quiet EXCEPT ![n] = 0]
  /\ kicked' = [kicked EXCEPT ![n] = Never]
  /\ waited' = [waited EXCEPT ![n] = 0]
  /\ UNCHANGED <<done, alive>>

\* kick_the_dog, between two steps of the upgrade: the marker is renewed at
\* once, and then only when the last one is older than the interval.
Kick(n) ==
  /\ stage[n] = "rolling"
  /\ quiet[n] > 0 \/ kicked[n] = Never
  /\ quiet' = [quiet EXCEPT ![n] = 0]
  /\ IF kicked[n] = Never \/ kicked[n] > KickInterval
     THEN /\ alive' = [alive EXCEPT ![n] = 0]
          /\ kicked' = [kicked EXCEPT ![n] = 0]
     ELSE UNCHANGED <<alive, kicked>>
  /\ UNCHANGED <<stage, waited, started, done, rolled, lost, spent>>

\* The daemons run the new release; monitors then wait for all the others.
Complete(n) ==
  /\ stage[n] = "rolling"
  /\ done' = done \cup {n}
  /\ stage' = [stage EXCEPT ![n] = IF Service = "mon" THEN "gathering"
                                   ELSE "upgraded"]
  /\ rolled' = [rolled EXCEPT ![n] = 0]
  /\ quiet' = [quiet EXCEPT ![n] = 0]
  /\ kicked' = [kicked EXCEPT ![n] = Never]
  /\ UNCHANGED <<waited, started, alive, lost, spent>>

-----------------------------------------------------------------------------
(* roll_osd_cluster, roll_monitor_cluster                                  *)

Enter(n) ==
  IF n = 1 THEN Roll(n)
  ELSE /\ stage' = [stage EXCEPT ![n] = "awaiting"]
       /\ waited' = [waited EXCEPT ![n] = 0]
       /\ UNCHANGED <<markers, work>>

Begin(n) == stage[n] = "idle" /\ Enter(n) /\ UNCHANGED <<lost, spent>>

\* Juju runs a failed hook again, from its beginning.
Retry(n) ==
  /\ stage[n] = "failed" /\ spent.retries < MaxRetries
  /\ Enter(n)
  /\ spent' = [spent EXCEPT !.retries = @ + 1]
  /\ UNCHANGED lost

Fail(n) ==
  /\ stage' = [stage EXCEPT ![n] = "failed"]
  /\ lost' = lost \cup {n}
  /\ waited' = [waited EXCEPT ![n] = 0]
  /\ rolled' = [rolled EXCEPT ![n] = 0]
  /\ quiet' = [quiet EXCEPT ![n] = 0]
  /\ kicked' = [kicked EXCEPT ![n] = Never]
  /\ UNCHANGED markers

\* Mutant: the wait for the start has no limit.
StartSeen_Patient(n) == n - 1 \in started

\* What ends WatchDog.wait_until: the marker, or the limit.
StartSeen(n) == n - 1 \in started \/ waited[n] > StartWait

\* The writer stamps its marker with its own clock, the reader compares it
\* with its own.
SeenAge(n, p) == alive[p] + Skew[n] - Skew[p]

\* Mutant: a sign of life counts no longer than it takes to give the next.
TimedOut_Interval(n, p) ==
  \/ alive[p] = Never /\ waited[n] > Compat
  \/ alive[p] # Never /\ SeenAge(n, p) > KickInterval
  \/ waited[n] > Wait

\* When WatchDog.timed_wait gives up.
TimedOut(n, p) ==
  \/ alive[p] = Never /\ waited[n] > Compat
  \/ alive[p] # Never /\ SeenAge(n, p) > MaxKick
  \/ waited[n] > Wait

EndSeen(n) == n - 1 \in done \/ TimedOut(n, n - 1)

AllSeen(n) == Nodes \subseteq done \/ waited[n] > GatherWait

Noticed(n) == \/ stage[n] = "awaiting" /\ StartSeen(n)
              \/ stage[n] = "following" /\ EndSeen(n)
              \/ stage[n] = "gathering" /\ AllSeen(n)

AwaitStart(n) ==
  /\ stage[n] = "awaiting" /\ StartSeen(n)
  /\ IF n - 1 \in started
     THEN /\ stage' = [stage EXCEPT ![n] = "following"]
          /\ waited' = [waited EXCEPT ![n] = 0]
          /\ UNCHANGED <<markers, work>>
     ELSE Roll(n)
  /\ UNCHANGED <<lost, spent>>

AwaitDone(n) ==
  /\ stage[n] = "following" /\ EndSeen(n)
  /\ Roll(n)
  /\ UNCHANGED <<lost, spent>>

\* monitor_key_get returns None for any failure.  A reading of the "alive"
\* marker that fails passes for one that was never written, however lately the
\* predecessor has renewed it.
MisreadAlive(n) ==
  /\ stage[n] = "following" /\ n - 1 \notin done
  /\ waited[n] > Compat
  /\ spent.misreads < MaxMisreads
  /\ Roll(n)
  /\ spent' = [spent EXCEPT !.misreads = @ + 1]
  /\ UNCHANGED lost

\* wait_for_all_monitors_to_upgrade: once the time is over it raises, also
\* when it has just seen every marker.
Gather(n) ==
  /\ stage[n] = "gathering" /\ AllSeen(n)
  /\ IF waited[n] > GatherWait THEN Fail(n)
     ELSE /\ stage' = [stage EXCEPT ![n] = "upgraded"]
          /\ UNCHANGED <<waited, markers, work, lost>>
  /\ UNCHANGED spent

\* The hook dies, or a package or a daemon fails and the hook with it.
Crash(n) ==
  /\ stage[n] \in Waiting \cup {"rolling"}
  /\ spent.crashes < MaxCrashes
  /\ spent' = [spent EXCEPT !.crashes = @ + 1]
  /\ Fail(n)

\* A minute passes.  The loops look more often than that, so that a node has
\* noticed what ends its wait; every working node gets on.
Tick ==
  /\ \A n \in Nodes :
       /\ ~Noticed(n)
       /\ stage[n] = "rolling" => quiet[n] < MaxStep /\ rolled[n] < MaxRoll
       /\ stage[n] = "idle" => waited[n] < MaxDelay
  /\ waited' = [n \in Nodes |-> IF stage[n] \in Waiting \cup {"idle"}
                                THEN AtMost(MaxWait, waited[n] + 1) ELSE 0]
  /\ alive' = [n \in Nodes |-> Older(alive[n], MaxKick + MaxSkew + 1)]
  /\ rolled' = [n \in Nodes |-> IF stage[n] = "rolling"
                                THEN rolled[n] + 1 ELSE 0]
  /\ quiet' = [n \in Nodes |-> IF stage[n] = "rolling"
                               THEN quiet[n] + 1 ELSE 0]
  /\ kicked' = [n \in Nodes |-> Older(kicked[n], KickInterval + 1)]
  /\ UNCHANGED <<stage, started, done, lost, spent>>

-----------------------------------------------------------------------------
Step(n) ==
  \/ Begin(n) \/ AwaitStart(n) \/ AwaitDone(n)
  \/ Kick(n) \/ Complete(n) \/ Gather(n)

Next == Tick \/ \E n \in Nodes : Step(n) \/ Retry(n) \/ Crash(n) \/ MisreadAlive(n)

Spec == Init /\ [][Next]_vars

\* Time passes, hooks that run go on and an upgrade comes to an end.
FairSpec == Spec /\ WF_vars(Tick) /\ \A n \in Nodes : WF_vars(Step(n))

-----------------------------------------------------------------------------
TypeOK ==
  /\ stage \in [Nodes -> Stages]
  /\ waited \in [Nodes -> 0 .. MaxWait]
  /\ started \in SUBSET Nodes /\ done \in SUBSET started
  /\ \A n \in Nodes : stage[n] = "rolling" => n \in started
  /\ alive \in [Nodes -> Nat \cup {Never}]
  /\ rolled \in [Nodes -> 0 .. MaxRoll] /\ quiet \in [Nodes -> 0 .. MaxStep]
  /\ kicked \in [Nodes -> Nat \cup {Never}]
  /\ lost \in SUBSET Nodes
  /\ spent \in [crashes : Nat, retries : Nat, misreads : Nat]

\* Nodes take turns, except for those whose hook has failed before: a node
\* that shows in time that it is alive is never overtaken.
Turns == INSTANCE ExclusiveTurns
           WITH Units <- Nodes,
                working <- {n \in Nodes \ lost : stage[n] = "rolling"}
TakesTurns == Turns!Spec

\* "The compatibility_wait_time is used if the other side never kicks": a node
\* whose predecessor kicks is waited for until it is done, has missed a kick or
\* has used up the whole time (timed_wait).
KickingIsHonoured ==
  [][\A n \in Nodes : stage[n] = "following" /\ stage'[n] = "rolling" => EndSeen(n)]_vars

\* Nobody waits for ever, whatever happened to the others.
HooksEnd ==
  \A n \in Nodes : stage[n] \in Waiting \cup {"rolling"}
                     ~> stage[n] \in {"upgraded", "failed"}
=============================================================================
