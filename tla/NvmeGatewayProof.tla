---------------------------- MODULE NvmeGatewayProof ----------------------------
(***************************************************************************)
(* What the NVMe-oF gateways keep, for any number of units, endpoints,     *)
(* hosts and keys, however many actions the operators run at once and      *)
(* whatever dies or is configured anew in between.                         *)
(*                                                                         *)
(* A proxy changes its target first and the map later, by compare and      *)
(* swap.  The invariant says of every unit what the request it is at has   *)
(* changed already (Configured), and why nobody else's update of the map   *)
(* can come in between (Copies).                                           *)
(***************************************************************************)
EXTENDS NvmeGateway, TLAPS

-----------------------------------------------------------------------------
(* What the charm's actions and the proxies' requests say of each other    *)

\* Which actions pass through which stage; the last stage of a reset asks no
\* proxy for anything.
StageOf(a) ==
  /\ a.stage = "own" => a.kind \in {"create", "join", "add", "del"}
  /\ a.stage = "peers" => a.kind \in {"create", "add", "del"}
  /\ a.stage = "find" => a.kind \in {"delete", "join"}
  /\ a.stage \in {"look", "any", "hosts", "refer", "back"} => a.kind = "join"
  /\ a.stage = "restart" => a.answer = "none"

Stages == \A u \in Units : act[u] # None => StageOf(act[u])

\* A proxy at work is up, the action that has asked it waits for it, and an
\* action asks one proxy at a time.
Waiting ==
  /\ \A v \in Units : task[v] # None =>
       /\ alive[v]
       /\ act[task[v].by] # None /\ act[task[v].by].answer = "wait"
  /\ \A v, w \in Units :
       task[v] # None /\ task[w] # None /\ task[v].by = task[w].by => v = w

\* What a proxy has read is what the map still holds, as long as nobody writes.
Copies ==
  \A v \in Units : task[v] # None /\ task[v].step = "write" /\ task[v].current =>
    task[v].copy = map

-----------------------------------------------------------------------------
(* What the targets serve, and what the map knows of it                    *)

\* The target of u has carried out a request and the map is about to follow.
Pending(u, method, e) ==
  /\ task[u] # None /\ task[u].step # "target"
  /\ task[u].rpc.method = method /\ task[u].rpc.e = e

Listed(u, e) == map[e] # None /\ NodeOf(u) \in map[e].units

\* An endpoint is served if and only if it is listed; one that was just created
\* lets nobody in yet, and one that was just removed is gone.
Serving(u, e) ==
  /\ Pending(u, "create", e) => subs[u][e] = Nobody
  /\ Pending(u, "remove", e) => subs[u][e] = None
  /\ ~Pending(u, "create", e) /\ ~Pending(u, "remove", e) =>
       (subs[u][e] # None <=> Listed(u, e))

\* A guest is in the map, or about to be.
Admitting(u, e) ==
  subs[u][e] # None => \A g \in Guests : subs[u][e][g] # Absent =>
    \/ map[e] # None /\ map[e].guests[g] # Absent
    \/ Pending(u, "host_add", e) /\ task[u].rpc.guest = g

\* What is pending changes the map.
Steps ==
  \A v \in Units : task[v] # None /\ task[v].step # "target" =>
    task[v].rpc.method \in {"create", "remove", "host_add"}

Configured ==
  \A u \in Units : alive[u] /\ initialised[u] =>
    \A e \in Endpoints : Serving(u, e) /\ Admitting(u, e)

Control == Stages /\ Waiting /\ Copies /\ Steps
GatewayInv == TypeOK /\ Control /\ Configured

-----------------------------------------------------------------------------
(* Records                                                                 *)

LEMMA TaskTyped ==
  ASSUME TypeOK, NEW v \in Units, task[v] # None
  PROVE /\ task[v] \in Task /\ task[v].by \in Units /\ task[v].rpc \in Rpc
        /\ task[v].rpc.e \in Endpoints /\ task[v].rpc.guest \in Guests
        /\ task[v].rpc.key \in Keys \cup {KeyName, NoKey}
        /\ task[v].copy \in [Endpoints -> Entry \cup {None}]
<1>1. task[v] \in Task
  BY DEF TypeOK
<1>2. QED
  BY <1>1 DEF Task, Rpc

LEMMA ActTyped ==
  ASSUME TypeOK, NEW u \in Units, act[u] # None PROVE act[u] \in Act
  BY DEF TypeOK

\* The answer to an action that waits keeps it in its stage.
LEMMA Answered ==
  ASSUME NEW a \in Act, StageOf(a), a.stage # "restart",
         NEW answer \in {"none", "wait", "ok", "empty", "error"}
  PROVE /\ [a EXCEPT !.answer = answer] \in Act
        /\ StageOf([a EXCEPT !.answer = answer])
  BY DEF Act, StageOf

\* Who has asked a proxy that is at work.
LEMMA Asker ==
  ASSUME TypeOK, Control, NEW v \in Units, task[v] # None
  PROVE /\ task[v].by \in Units
        /\ act[task[v].by] \in Act /\ act[task[v].by] # None
        /\ act[task[v].by].answer = "wait"
        /\ StageOf(act[task[v].by]) /\ act[task[v].by].stage # "restart"
  BY TaskTyped, ActTyped DEF Control, Waiting, Stages, StageOf

-----------------------------------------------------------------------------
(* What a step leaves alone                                                *)

\* Requests go on or end, and actions that wait for one go on waiting.
LEMMA WaitingKept ==
  ASSUME Waiting,
         \A w \in Units : task'[w] # None =>
           /\ task[w] # None /\ task'[w].by = task[w].by /\ alive'[w]
           /\ act'[task[w].by] = act[task[w].by]
  PROVE Waiting'
  BY DEF Waiting

\* A request ends: who has asked for it waits no more.
LEMMA WaitingEnds ==
  ASSUME TypeOK, Control, NEW v \in Units, task[v] # None, task'[v] = None,
         \A w \in Units \ {v} : task'[w] # None =>
           task[w] # None /\ task'[w].by = task[w].by /\ alive'[w] = alive[w],
         \A u \in Units \ {task[v].by} : act'[u] = act[u]
  PROVE Waiting'
<1>1. ASSUME NEW w \in Units, task'[w] # None
      PROVE /\ task[w] # None /\ task'[w].by = task[w].by /\ alive'[w]
            /\ act'[task[w].by] = act[task[w].by]
  <2>1. w # v /\ task[w] # None /\ task'[w].by = task[w].by /\ alive'[w]
    BY <1>1 DEF Control, Waiting
  <2>2. task[w].by # task[v].by
    BY <2>1 DEF Control, Waiting
  <2>3. task[w].by \in Units
    BY <2>1, TaskTyped
  <2>4. QED
    BY <2>1, <2>2, <2>3
<1>2. QED
  BY <1>1, WaitingKept DEF Control

Pends(u) == task[u] # None /\ task[u].step # "target"

\* A unit whose target and request are as they were, beside a map that is.
LEMMA UnitKept ==
  ASSUME NEW u \in Units, Configured, map' = map, alive[u], initialised[u],
         subs'[u] = subs[u], id'[u] = id[u], Pends(u)' <=> Pends(u),
         Pends(u) => task'[u].rpc = task[u].rpc
  PROVE \A e \in Endpoints : Serving(u, e)' /\ Admitting(u, e)'
<1>1. \A e \in Endpoints, method \in Methods :
        /\ Pending(u, method, e)' <=> Pending(u, method, e)
        /\ Pends(u) => task'[u].rpc.guest = task[u].rpc.guest
  BY DEF Pending, Pends
<1>2. \A e \in Endpoints : Listed(u, e)' <=> Listed(u, e)
  BY DEF Listed, NodeOf
<1>3. ASSUME NEW e \in Endpoints PROVE Serving(u, e)' /\ Admitting(u, e)'
  <2>1. Serving(u, e) /\ Admitting(u, e)
    BY DEF Configured
  <2>2. Serving(u, e)'
    BY <1>1, <1>2, <2>1 DEF Serving, Methods
  <2>3. Admitting(u, e)'
    BY <1>1, <2>1 DEF Admitting, Methods, Pending, Pends
  <2>4. QED
    BY <2>2, <2>3
<1>4. QED
  BY <1>3

\* Every unit that is up and connected was and is unchanged, or is as it should.
LEMMA ConfiguredKept ==
  ASSUME Configured, map' = map,
         \A u \in Units : alive'[u] /\ initialised'[u] =>
           \/ /\ alive[u] /\ initialised[u] /\ subs'[u] = subs[u] /\ id'[u] = id[u]
              /\ Pends(u)' <=> Pends(u)
              /\ Pends(u) => task'[u].rpc = task[u].rpc
           \/ \A e \in Endpoints : Serving(u, e)' /\ Admitting(u, e)'
  PROVE Configured'
  BY UnitKept DEF Configured

-----------------------------------------------------------------------------
(* The steps of the proxies                                                *)

\* The target has been changed; the request goes on to the map.
LEMMA MovesToMap ==
  ASSUME TypeOK, Control, NEW v \in Units, task[v] # None,
         task[v].step = "target",
         task[v].rpc.method \in {"create", "remove", "host_add"}, ToMap(v)
  PROVE /\ task' \in [Units -> Task \cup {None}] /\ Control'
        /\ task'[v] # None /\ task'[v].step = "read"
        /\ task'[v].rpc = task[v].rpc
        /\ \A w \in Units \ {v} : task'[w] = task[w]
<1>1. task[v] \in Task
  BY TaskTyped
<1>2. PICK t : t = [task[v] EXCEPT !.step = "read"]
  OBVIOUS
<1>3. /\ t \in Task /\ t.step = "read" /\ t.by = task[v].by
      /\ t.rpc = task[v].rpc
  BY <1>1, <1>2 DEF Task
<1>4. t # None
  BY <1>3, NoneAssumption
<1>5. task' = [task EXCEPT ![v] = t]
  BY <1>2 DEF ToMap
<1>6. /\ task' \in [Units -> Task \cup {None}] /\ task'[v] = t
      /\ \A w \in Units \ {v} : task'[w] = task[w]
  BY <1>3, <1>5 DEF TypeOK
<1>7. UNCHANGED <<act, alive, map>>
  BY DEF ToMap
<1>8. Waiting'
  BY <1>3, <1>6, <1>7 DEF Control, Waiting
<1>9. Copies' /\ Steps' /\ Stages'
  BY <1>3, <1>6, <1>7 DEF Control, Copies, Steps, Stages
<1>10. QED
  BY <1>3, <1>4, <1>6, <1>8, <1>9 DEF Control

\* A request that ends without a word to the map.
LEMMA RepliesHold ==
  ASSUME TypeOK, Control, NEW v \in Units, task[v] # None,
         NEW a \in Act, StageOf(a),
         task' = [task EXCEPT ![v] = None],
         act' = [act EXCEPT ![task[v].by] = a],
         UNCHANGED <<map, alive>>
  PROVE /\ task' \in [Units -> Task \cup {None}]
        /\ act' \in [Units -> Act \cup {None}] /\ Control'
        /\ task'[v] = None /\ \A w \in Units \ {v} : task'[w] = task[w]
<1>1. task[v].by \in Units
  BY TaskTyped
<1>2. /\ task' \in [Units -> Task \cup {None}] /\ task'[v] = None
      /\ \A w \in Units \ {v} : task'[w] = task[w]
      /\ act' \in [Units -> Act \cup {None}] /\ act'[task[v].by] = a
      /\ \A u \in Units \ {task[v].by} : act'[u] = act[u]
  BY <1>1 DEF TypeOK
<1>3. Waiting'
  BY <1>2, WaitingEnds
<1>4. Copies' /\ Steps' /\ Stages'
  BY <1>2 DEF Control, Copies, Steps, Stages
<1>5. QED
  BY <1>2, <1>3, <1>4 DEF Control

\* The reply of a proxy is an answer to the action that waits.
LEMMA ReplyHolds ==
  ASSUME TypeOK, Control, NEW v \in Units, task[v] # None,
         NEW answer \in {"ok", "error", "empty"}, Reply(v, answer),
         UNCHANGED <<map, alive>>
  PROVE /\ task' \in [Units -> Task \cup {None}]
        /\ act' \in [Units -> Act \cup {None}] /\ Control'
        /\ task'[v] = None /\ \A w \in Units \ {v} : task'[w] = task[w]
<1>1. PICK a : a = [act[task[v].by] EXCEPT !.answer = answer]
  OBVIOUS
<1>2. a \in Act /\ StageOf(a)
  BY <1>1, Asker, Answered
<1>3. act' = [act EXCEPT ![task[v].by] = a] /\ task' = [task EXCEPT ![v] = None]
  BY <1>1 DEF Reply
<1>4. QED
  BY <1>2, <1>3, RepliesHold

LEMMA CreateHolds ==
  ASSUME GatewayInv, NEW v \in Units, CreateEndpoint(v) PROVE GatewayInv'
<1>1. /\ TypeOK /\ Control /\ task[v] # None /\ task[v].step = "target"
      /\ task[v].rpc.method = "create" /\ ToMap(v)
      /\ UNCHANGED <<map, config, alive, initialised, id, act, offered, spent, files>>
  BY DEF GatewayInv, CreateEndpoint, AtTarget, ToMap
<1>2. /\ task' \in [Units -> Task \cup {None}] /\ Control'
      /\ task'[v] # None /\ task'[v].step = "read"
      /\ task'[v].rpc = task[v].rpc
      /\ \A w \in Units \ {v} : task'[w] = task[w]
  BY <1>1, MovesToMap
<1>3. PICK e \in Endpoints : e = task[v].rpc.e
  BY <1>1, TaskTyped
<1>4. Nobody \in Access /\ Nobody # None /\ \A g \in Guests : Nobody[g] = Absent
  BY NoneAssumption DEF Nobody, Access
<1>5. subs' = [subs EXCEPT ![v][e] = Nobody] /\ subs[v][e] = None
  BY <1>3 DEF CreateEndpoint, Sub
<1>6. /\ subs' \in [Units -> [Endpoints -> Access \cup {None}]]
      /\ subs'[v][e] = Nobody
      /\ \A x \in Endpoints \ {e} : subs'[v][x] = subs[v][x]
      /\ \A w \in Units \ {v} : subs'[w] = subs[w]
  BY <1>1, <1>4, <1>5 DEF TypeOK
<1>7. TypeOK'
  BY <1>1, <1>2, <1>6 DEF TypeOK
<1>8. ASSUME alive[v], initialised[v], NEW x \in Endpoints
      PROVE Serving(v, x)' /\ Admitting(v, x)'
  <2>1. Serving(v, x) /\ Admitting(v, x)
    BY <1>8 DEF GatewayInv, Configured
  <2>2. \A method \in Methods :
          /\ ~Pending(v, method, x)
          /\ Pending(v, method, x)' <=> method = "create" /\ x = e
    BY <1>1, <1>2, <1>3 DEF Pending
  <2>3. Listed(v, x)' <=> Listed(v, x)
    BY <1>1 DEF Listed, NodeOf
  <2>4. QED
    BY <1>1, <1>4, <1>6, <2>1, <2>2, <2>3 DEF Serving, Admitting, Methods
<1>9. Configured'
  BY <1>1, <1>2, <1>6, <1>8, ConfiguredKept DEF GatewayInv, Pends
<1>10. QED
  BY <1>2, <1>7, <1>9 DEF GatewayInv

LEMMA RemoveHolds ==
  ASSUME GatewayInv, NEW v \in Units, RemoveEndpoint(v) PROVE GatewayInv'
<1>1. /\ TypeOK /\ Control /\ task[v] # None /\ task[v].step = "target"
      /\ task[v].rpc.method = "remove" /\ ToMap(v)
      /\ UNCHANGED <<map, config, alive, initialised, id, act, offered, spent, files>>
  BY DEF GatewayInv, RemoveEndpoint, AtTarget, ToMap
<1>2. /\ task' \in [Units -> Task \cup {None}] /\ Control'
      /\ task'[v] # None /\ task'[v].step = "read"
      /\ task'[v].rpc = task[v].rpc
      /\ \A w \in Units \ {v} : task'[w] = task[w]
  BY <1>1, MovesToMap
<1>3. PICK e \in Endpoints : e = task[v].rpc.e
  BY <1>1, TaskTyped
<1>4. subs' = [subs EXCEPT ![v][e] = None]
  BY <1>3 DEF RemoveEndpoint
<1>5. /\ subs' \in [Units -> [Endpoints -> Access \cup {None}]]
      /\ subs'[v][e] = None
      /\ \A x \in Endpoints \ {e} : subs'[v][x] = subs[v][x]
      /\ \A w \in Units \ {v} : subs'[w] = subs[w]
  BY <1>1, <1>4 DEF TypeOK
<1>6. TypeOK'
  BY <1>1, <1>2, <1>5 DEF TypeOK
<1>7. ASSUME alive[v], initialised[v], NEW x \in Endpoints
      PROVE Serving(v, x)' /\ Admitting(v, x)'
  <2>1. Serving(v, x) /\ Admitting(v, x)
    BY <1>7 DEF GatewayInv, Configured
  <2>2. \A method \in Methods :
          /\ ~Pending(v, method, x)
          /\ Pending(v, method, x)' <=> method = "remove" /\ x = e
    BY <1>1, <1>2, <1>3 DEF Pending
  <2>3. Listed(v, x)' <=> Listed(v, x)
    BY <1>1 DEF Listed, NodeOf
  <2>4. QED
    BY <1>1, <1>5, <2>1, <2>2, <2>3 DEF Serving, Admitting, Methods
<1>8. Configured'
  BY <1>1, <1>2, <1>5, <1>7, ConfiguredKept DEF GatewayInv, Pends
<1>9. QED
  BY <1>2, <1>6, <1>8 DEF GatewayInv

LEMMA AddHostHolds ==
  ASSUME GatewayInv, NEW v \in Units, AddHost(v) PROVE GatewayInv'
<1>1. /\ TypeOK /\ Control /\ task[v] # None /\ task[v].step = "target"
      /\ task[v].rpc.method = "host_add" /\ ToMap(v)
      /\ UNCHANGED <<map, config, alive, initialised, id, act, offered, spent>>
  BY DEF GatewayInv, AddHost, AtTarget, ToMap
<1>2. /\ task' \in [Units -> Task \cup {None}] /\ Control'
      /\ task'[v] # None /\ task'[v].step = "read"
      /\ task'[v].rpc = task[v].rpc
      /\ \A w \in Units \ {v} : task'[w] = task[w]
  BY <1>1, MovesToMap
<1>3. PICK e \in Endpoints, guest \in Guests, key \in Keys \cup {KeyName, NoKey} :
        /\ e = task[v].rpc.e /\ guest = task[v].rpc.guest
        /\ key = IF task[v].rpc.guest = Anyone THEN NoKey ELSE task[v].rpc.key
  BY <1>1, TaskTyped
<1>4. PICK as : as = IF subs[v][e][guest] = Absent THEN key ELSE subs[v][e][guest]
  OBVIOUS
<1>5. /\ subs' = [subs EXCEPT ![v][e][guest] = as] /\ subs[v][e] # None
      /\ files' = IF key = NoKey THEN files
                                ELSE [files EXCEPT ![v][e][guest] = key]
  BY <1>3, <1>4 DEF AddHost, Sub
<1>6. subs[v][e] \in Access /\ as \in Keys \cup {KeyName, NoKey, Absent}
  BY <1>1, <1>3, <1>4, <1>5 DEF TypeOK, Access
<1>7. PICK served : served = [subs[v][e] EXCEPT ![guest] = as]
  OBVIOUS
<1>8. /\ served \in Access /\ served # None
      /\ \A g \in Guests \ {guest} : served[g] = subs[v][e][g]
  BY <1>6, <1>7, NoneAssumption DEF Access
<1>9. subs' = [subs EXCEPT ![v][e] = served]
  BY <1>1, <1>5, <1>7 DEF TypeOK
<1>10. /\ subs' \in [Units -> [Endpoints -> Access \cup {None}]]
       /\ subs'[v][e] = served
       /\ \A x \in Endpoints \ {e} : subs'[v][x] = subs[v][x]
       /\ \A w \in Units \ {v} : subs'[w] = subs[w]
  BY <1>1, <1>8, <1>9 DEF TypeOK
<1>11. files' \in [Units -> [Endpoints -> [Guests -> Keys \cup {KeyName, None}]]]
  BY <1>1, <1>3, <1>5 DEF TypeOK
<1>12. TypeOK'
  BY <1>1, <1>2, <1>10, <1>11 DEF TypeOK
<1>13. ASSUME alive[v], initialised[v], NEW x \in Endpoints
       PROVE Serving(v, x)' /\ Admitting(v, x)'
  <2>1. Serving(v, x) /\ Admitting(v, x)
    BY <1>13 DEF GatewayInv, Configured
  <2>2. \A method \in Methods :
          /\ ~Pending(v, method, x)
          /\ Pending(v, method, x)' <=> method = "host_add" /\ x = e
    BY <1>1, <1>2, <1>3 DEF Pending
  <2>3. Listed(v, x)' <=> Listed(v, x)
    BY <1>1 DEF Listed, NodeOf
  <2>4. Serving(v, x)'
    BY <1>5, <1>8, <1>10, <2>1, <2>2, <2>3 DEF Serving, Methods
  <2>5. Admitting(v, x)'
    <3>1. CASE x = e
      <4>1. Pending(v, "host_add", x)' /\ task'[v].rpc.guest = guest
        BY <1>2, <1>3, <2>2, <3>1 DEF Methods
      <4>2. ASSUME NEW g \in Guests \ {guest}, subs'[v][x][g] # Absent
            PROVE map'[x] # None /\ map'[x].guests[g] # Absent
        <5>1. subs[v][x] # None /\ subs[v][x][g] # Absent
          BY <1>5, <1>8, <1>10, <3>1, <4>2
        <5>2. ~Pending(v, "host_add", x)
          BY <2>2 DEF Methods
        <5>3. QED
          BY <1>1, <2>1, <5>1, <5>2 DEF Admitting
      <4>3. QED
        BY <4>1, <4>2 DEF Admitting
    <3>2. CASE x # e
      <4>1. ~Pending(v, "host_add", x) /\ subs'[v][x] = subs[v][x]
        BY <1>10, <2>2, <3>2 DEF Methods
      <4>2. QED
        BY <1>1, <2>1, <4>1 DEF Admitting
    <3>3. QED
      BY <3>1, <3>2
  <2>6. QED
    BY <2>4, <2>5
<1>14. Configured'
  BY <1>1, <1>2, <1>10, <1>13, ConfiguredKept DEF GatewayInv, Pends
<1>15. QED
  BY <1>2, <1>12, <1>14 DEF GatewayInv

LEMMA DelHostHolds ==
  ASSUME GatewayInv, NEW v \in Units, DelHost(v) PROVE GatewayInv'
<1>1. /\ TypeOK /\ Control /\ task[v] # None /\ task[v].step = "target"
      /\ Reply(v, "ok") /\ offered' = [offered EXCEPT ![v] = subs'[v]]
      /\ UNCHANGED <<map, config, alive, initialised, id, spent>>
  BY DEF GatewayInv, DelHost, AtTarget
<1>2. /\ task' \in [Units -> Task \cup {None}]
      /\ act' \in [Units -> Act \cup {None}] /\ Control'
      /\ task'[v] = None /\ \A w \in Units \ {v} : task'[w] = task[w]
  BY <1>1, ReplyHolds
<1>3. PICK e \in Endpoints, guest \in Guests :
        e = task[v].rpc.e /\ guest = task[v].rpc.guest
  BY <1>1, TaskTyped
<1>4. /\ subs' = [subs EXCEPT ![v][e][guest] = Absent] /\ subs[v][e] # None
      /\ files' = [files EXCEPT ![v][e][guest] = None]
  BY <1>3 DEF DelHost, Sub
<1>5. subs[v][e] \in Access
  BY <1>1, <1>4 DEF TypeOK
<1>6. PICK served : served = [subs[v][e] EXCEPT ![guest] = Absent]
  OBVIOUS
<1>7. /\ served \in Access /\ served # None /\ served[guest] = Absent
      /\ \A g \in Guests \ {guest} : served[g] = subs[v][e][g]
  BY <1>5, <1>6, NoneAssumption DEF Access
<1>8. subs' = [subs EXCEPT ![v][e] = served]
  BY <1>1, <1>4, <1>6 DEF TypeOK
<1>9. /\ subs' \in [Units -> [Endpoints -> Access \cup {None}]]
      /\ subs'[v][e] = served
      /\ \A x \in Endpoints \ {e} : subs'[v][x] = subs[v][x]
      /\ \A w \in Units \ {v} : subs'[w] = subs[w]
  BY <1>1, <1>7, <1>8 DEF TypeOK
<1>10. files' \in [Units -> [Endpoints -> [Guests -> Keys \cup {KeyName, None}]]]
  BY <1>1, <1>4 DEF TypeOK
<1>11. offered' \in [Units -> [Endpoints -> Access \cup {None}] \cup {None}]
  BY <1>1, <1>9 DEF TypeOK
<1>12. TypeOK'
  BY <1>1, <1>2, <1>9, <1>10, <1>11 DEF TypeOK
<1>13. ASSUME alive[v], initialised[v], NEW x \in Endpoints
       PROVE Serving(v, x)' /\ Admitting(v, x)'
  <2>1. Serving(v, x) /\ Admitting(v, x)
    BY <1>13 DEF GatewayInv, Configured
  <2>2. \A method \in Methods :
          ~Pending(v, method, x) /\ ~Pending(v, method, x)'
    BY <1>1, <1>2 DEF Pending
  <2>3. Listed(v, x)' <=> Listed(v, x)
    BY <1>1 DEF Listed, NodeOf
  <2>4. subs'[v][x] # None <=> subs[v][x] # None
    BY <1>4, <1>7, <1>9
  <2>5. Serving(v, x)'
    BY <2>1, <2>2, <2>3, <2>4 DEF Serving, Methods
  <2>6. \A g \in Guests : subs'[v][x][g] # Absent => subs[v][x][g] # Absent
    BY <1>7, <1>9
  <2>7. ~Pending(v, "host_add", x)
    BY <2>2 DEF Methods
  <2>8. Admitting(v, x)'
    BY <1>1, <2>1, <2>4, <2>6, <2>7 DEF Admitting
  <2>9. QED
    BY <2>5, <2>8
<1>14. Configured'
  BY <1>1, <1>2, <1>9, <1>13, ConfiguredKept DEF GatewayInv, Pends
<1>15. QED
  BY <1>2, <1>12, <1>14 DEF GatewayInv

\* A request is over, and neither the target nor the map has changed.
LEMMA RepliedHolds ==
  ASSUME GatewayInv, NEW v \in Units, task[v] # None, task[v].step = "target",
         task' \in [Units -> Task \cup {None}],
         act' \in [Units -> Act \cup {None}], Control',
         task'[v] = None, \A w \in Units \ {v} : task'[w] = task[w],
         UNCHANGED <<map, config, unitVars, offered, spent>>
  PROVE GatewayInv'
<1>1. TypeOK'
  BY DEF GatewayInv, TypeOK, unitVars
<1>2. Configured'
  BY ConfiguredKept DEF GatewayInv, Pends, unitVars
<1>3. QED
  BY <1>1, <1>2 DEF GatewayInv

LEMMA RefusalHolds ==
  ASSUME GatewayInv, NEW v \in Units, TargetRefuses(v) PROVE GatewayInv'
<1>1. /\ TypeOK /\ Control /\ task[v] # None /\ task[v].step = "target"
      /\ Reply(v, "error")
      /\ UNCHANGED <<map, config, unitVars, offered, spent>> /\ UNCHANGED alive
  BY DEF GatewayInv, TargetRefuses, Refused, unitVars
<1>2. QED
  BY <1>1, ReplyHolds, RepliedHolds

LEMMA LookUpHolds ==
  ASSUME GatewayInv, NEW v \in Units, LookUp(v) PROVE GatewayInv'
<1>1. /\ TypeOK /\ Control /\ task[v] # None /\ task[v].step = "target"
      /\ task' = [task EXCEPT ![v] = None]
      /\ UNCHANGED <<map, config, unitVars, offered, spent>> /\ UNCHANGED alive
  BY DEF GatewayInv, LookUp, unitVars
<1>2. PICK by \in Units, e \in Endpoints :
        by = task[v].by /\ e = task[v].rpc.e
  BY <1>1, TaskTyped
<1>3. PICK found : found = (task[v].rpc.method = "find" /\ subs[v][e] # None)
  OBVIOUS
<1>4. PICK answer \in {"ok", "empty"} :
        answer = IF task[v].rpc.method = "find" /\ subs[v][e] = None
                   THEN "empty" ELSE "ok"
  OBVIOUS
<1>5. PICK guests : guests = IF found THEN subs[v][e] ELSE act[by].guests
  OBVIOUS
<1>6. act[by] \in Act /\ StageOf(act[by]) /\ act[by].stage # "restart"
  BY <1>1, <1>2, Asker
<1>7. guests \in Access
  <2>1. subs[v][e] \in Access \cup {None}
    BY <1>1 DEF TypeOK
  <2>2. act[by].guests \in Access
    BY <1>6 DEF Act
  <2>3. QED
    BY <1>3, <1>5, <2>1, <2>2
<1>8. PICK a : a = [act[by] EXCEPT !.answer = answer, !.guests = guests]
  OBVIOUS
<1>9. a \in Act /\ StageOf(a)
  BY <1>4, <1>6, <1>7, <1>8 DEF Act, StageOf
<1>10. act' = [act EXCEPT ![by].answer = answer, ![by].guests = guests]
  BY <1>2, <1>3, <1>4, <1>5, <1>6 DEF LookUp, Sub, TypeOK, GatewayInv
<1>11. act' = [act EXCEPT ![by] = a]
  BY <1>1, <1>8, <1>10 DEF TypeOK
<1>12. QED
  BY <1>1, <1>2, <1>9, <1>11, RepliesHold, RepliedHolds

LEMMA ReadMapHolds ==
  ASSUME GatewayInv, NEW v \in Units, ReadMap(v) PROVE GatewayInv'
<1>1. /\ TypeOK /\ Control /\ task[v] # None /\ task[v].step = "read"
      /\ UNCHANGED <<map, config, unitVars, act, offered, spent>>
  BY DEF GatewayInv, ReadMap
<1>2. PICK t : t = [task[v] EXCEPT !.step = "write", !.copy = map, !.current = TRUE]
  OBVIOUS
<1>3. task' = [task EXCEPT ![v] = t]
  BY <1>1, <1>2 DEF ReadMap, TypeOK
<1>4. /\ t \in Task /\ t.by = task[v].by /\ t.rpc = task[v].rpc
      /\ t.step = "write" /\ t.copy = map
  BY <1>1, <1>2, TaskTyped DEF TypeOK, Task
<1>5. /\ task' \in [Units -> Task \cup {None}] /\ task'[v] = t
      /\ \A w \in Units \ {v} : task'[w] = task[w]
  BY <1>1, <1>3, <1>4 DEF TypeOK
<1>6. TypeOK'
  BY <1>1, <1>5 DEF TypeOK, unitVars
<1>7. Waiting'
  BY <1>1, <1>4, <1>5 DEF Control, Waiting, unitVars
<1>8. Stages'
  BY <1>1 DEF Control, Stages
<1>9. Copies'
  BY <1>1, <1>4, <1>5 DEF Control, Copies
<1>10. Steps'
  BY <1>1, <1>4, <1>5 DEF Control, Steps
<1>11. t # None
  BY <1>4, NoneAssumption
<1>12. Configured'
  BY <1>1, <1>4, <1>5, <1>11, ConfiguredKept DEF GatewayInv, Pends, unitVars
<1>13. QED
  BY <1>6, <1>7, <1>8, <1>9, <1>10, <1>12 DEF GatewayInv, Control

LEMMA ConflictHolds ==
  ASSUME GatewayInv, NEW v \in Units, WriteConflict(v) PROVE GatewayInv'
<1>1. /\ TypeOK /\ Control /\ task[v] # None /\ task[v].step = "write"
      /\ UNCHANGED <<map, config, unitVars, act, offered, spent>>
  BY DEF GatewayInv, WriteConflict
<1>2. PICK t : t = [task[v] EXCEPT !.step = "read"]
  OBVIOUS
<1>3. task' = [task EXCEPT ![v] = t]
  BY <1>2 DEF WriteConflict
<1>4. /\ t \in Task /\ t.by = task[v].by /\ t.rpc = task[v].rpc /\ t.step = "read"
  BY <1>1, <1>2, TaskTyped DEF Task
<1>5. /\ task' \in [Units -> Task \cup {None}] /\ task'[v] = t
      /\ \A w \in Units \ {v} : task'[w] = task[w]
  BY <1>1, <1>3, <1>4 DEF TypeOK
<1>6. TypeOK'
  BY <1>1, <1>5 DEF TypeOK, unitVars
<1>7. Waiting'
  BY <1>1, <1>4, <1>5 DEF Control, Waiting, unitVars
<1>8. Stages'
  BY <1>1 DEF Control, Stages
<1>9. Copies'
  BY <1>1, <1>4, <1>5 DEF Control, Copies
<1>10. Steps'
  BY <1>1, <1>4, <1>5 DEF Control, Steps
<1>11. t # None
  BY <1>4, NoneAssumption
<1>12. Configured'
  BY <1>1, <1>4, <1>5, <1>11, ConfiguredKept DEF GatewayInv, Pends, unitVars
<1>13. QED
  BY <1>6, <1>7, <1>8, <1>9, <1>10, <1>12 DEF GatewayInv, Control

\* The proxy writes what it has read with one change, in the entry of one
\* endpoint: its own node's place among the units, or the guest it has let in.
\* Its own unit is then as the map says, and no other unit is affected.
LEMMA WriteHolds ==
  ASSUME GatewayInv, NEW v \in Units, WriteMap(v) PROVE GatewayInv'
<1>1. /\ TypeOK /\ Control /\ task[v] # None /\ task[v].step = "write"
      /\ task[v].current /\ offered' = [offered EXCEPT ![v] = subs[v]]
      /\ act' = [act EXCEPT ![task[v].by].answer = "ok"]
      /\ UNCHANGED <<config, unitVars, spent>>
  BY DEF GatewayInv, WriteMap, MapUnchanged
<1>2. PICK by \in Units, e \in Endpoints, guest \in Guests,
           key \in Keys \cup {KeyName, NoKey}, method \in Methods :
        /\ by = task[v].by /\ e = task[v].rpc.e /\ guest = task[v].rpc.guest
        /\ key = task[v].rpc.key /\ method = task[v].rpc.method
  BY <1>1, TaskTyped DEF Rpc
<1>3. task[v].copy = map /\ method \in {"create", "remove", "host_add"}
  BY <1>1, <1>2 DEF Control, Copies, Steps
<1>4. PICK entry : entry = Recorded(v)
  OBVIOUS
<1>5. map' = [map EXCEPT ![e] = entry]
  BY <1>2, <1>3, <1>4 DEF WriteMap
<1>6. PICK here : here = NodeOf(v)
  OBVIOUS
<1>7. /\ here \in Nodes
      /\ \A w \in Units \ {v} : NodeOf(w) # here
  BY <1>1, <1>6 DEF TypeOK, NodeOf, Nodes
<1>8. key # Absent
  BY GatewayAssumption
<1>9. entry = CASE method = "create" ->
                     IF map[e] = None THEN [NewEntry EXCEPT !.units = {here}]
                                      ELSE [map[e] EXCEPT !.units = @ \cup {here}]
                [] method = "remove" /\ map[e] # None ->
                     [map[e] EXCEPT !.units = @ \ {here}]
                [] method = "host_add" /\ map[e] # None ->
                     [map[e] EXCEPT !.guests[guest] = key]
                [] OTHER -> map[e]
  BY <1>2, <1>3, <1>4, <1>6 DEF Recorded
<1>10. map[e] \in Entry \cup {None}
  BY <1>1 DEF TypeOK
<1>11. /\ entry \in Entry \cup {None}
       /\ map[e] # None => entry # None
       /\ method = "create" => entry # None /\ here \in entry.units
       /\ method = "remove" /\ entry # None => here \notin entry.units
       /\ method = "host_add" => (entry # None <=> map[e] # None)
       /\ method = "host_add" /\ entry # None =>
            entry.units = map[e].units /\ entry.guests[guest] # Absent
       /\ map[e] # None => \A n \in Nodes \ {here} :
                             n \in entry.units <=> n \in map[e].units
       /\ map[e] = None /\ entry # None => entry.units \subseteq {here}
       /\ map[e] # None => \A g \in Guests :
                             map[e].guests[g] # Absent => entry.guests[g] # Absent
  <2>1. CASE method = "create" /\ map[e] = None
    <3>1. entry = [NewEntry EXCEPT !.units = {here}]
      BY <1>9, <2>1
    <3>2. entry \in Entry /\ entry.units = {here}
      BY <1>7, <3>1 DEF NewEntry, Entry, Nobody, Access
    <3>3. QED
      BY <2>1, <3>2, NoneAssumption
  <2>2. CASE method = "create" /\ map[e] # None
    <3>1. entry = [map[e] EXCEPT !.units = @ \cup {here}]
      BY <1>9, <2>2
    <3>2. /\ entry \in Entry /\ entry.units = map[e].units \cup {here}
          /\ entry.guests = map[e].guests
      BY <1>7, <1>10, <2>2, <3>1 DEF Entry
    <3>3. QED
      BY <2>2, <3>2, NoneAssumption
  <2>3. CASE method = "remove" /\ map[e] # None
    <3>1. entry = [map[e] EXCEPT !.units = @ \ {here}]
      BY <1>9, <2>3
    <3>2. /\ entry \in Entry /\ entry.units = map[e].units \ {here}
          /\ entry.guests = map[e].guests
      BY <1>10, <2>3, <3>1 DEF Entry
    <3>3. QED
      BY <2>3, <3>2, NoneAssumption
  <2>4. CASE method = "host_add" /\ map[e] # None
    <3>1. entry = [map[e] EXCEPT !.guests[guest] = key]
      BY <1>9, <2>4
    <3>2. PICK guests : guests = [map[e].guests EXCEPT ![guest] = key]
      OBVIOUS
    <3>3. /\ map[e] \in Entry /\ map[e].guests \in Access
      BY <1>10, <2>4 DEF Entry
    <3>4. /\ guests \in Access /\ guests[guest] = key
          /\ \A g \in Guests \ {guest} : guests[g] = map[e].guests[g]
      BY <3>2, <3>3 DEF Access
    <3>5. entry = [map[e] EXCEPT !.guests = guests]
      BY <3>1, <3>2, <3>3 DEF Entry
    <3>6. /\ entry \in Entry /\ entry.units = map[e].units
          /\ entry.guests = guests
      BY <3>3, <3>4, <3>5 DEF Entry
    <3>7. QED
      BY <1>8, <2>4, <3>4, <3>6, NoneAssumption
  <2>5. CASE method \in {"remove", "host_add"} /\ map[e] = None
    <3>1. entry = None
      BY <1>9, <2>5
    <3>2. QED
      BY <2>5, <3>1
  <2>6. QED
    BY <1>3, <2>1, <2>2, <2>3, <2>4, <2>5
<1>12. /\ map' \in [Endpoints -> Entry \cup {None}] /\ map'[e] = entry
       /\ \A x \in Endpoints \ {e} : map'[x] = map[x]
  BY <1>1, <1>5, <1>11 DEF TypeOK
<1>13. \A u \in Units :
         /\ task'[u] \in Task \cup {None}
         /\ task'[u] # None => /\ u # v /\ task[u] # None /\ ~task'[u].current
                               /\ task'[u].by = task[u].by
                               /\ task'[u].rpc = task[u].rpc
                               /\ task'[u].step = task[u].step
         /\ u # v /\ task[u] # None => task'[u] # None
  <2>1. SUFFICES ASSUME NEW u \in Units, u # v, task[u] # None
                 PROVE /\ task'[u] \in Task /\ ~task'[u].current
                       /\ task'[u].by = task[u].by
                       /\ task'[u].rpc = task[u].rpc
                       /\ task'[u].step = task[u].step
    BY NoneAssumption DEF WriteMap
  <2>2. task'[u] = [task[u] EXCEPT !.current = FALSE]
    BY <2>1 DEF WriteMap
  <2>3. task[u] \in Task
    BY <1>1, <2>1, TaskTyped
  <2>4. QED
    BY <2>2, <2>3 DEF Task
<1>14. task' \in [Units -> Task \cup {None}] /\ task'[v] = None
  BY <1>13 DEF WriteMap
<1>15. PICK a : a = [act[by] EXCEPT !.answer = "ok"]
  OBVIOUS
<1>16. a \in Act /\ StageOf(a)
  BY <1>1, <1>2, <1>15, Asker, Answered
<1>17. /\ act' \in [Units -> Act \cup {None}] /\ act'[by] = a
       /\ \A u \in Units \ {by} : act'[u] = act[u]
  BY <1>1, <1>2, <1>15, <1>16 DEF TypeOK
<1>18. offered' \in [Units -> [Endpoints -> Access \cup {None}] \cup {None}]
  BY <1>1 DEF TypeOK
<1>19. TypeOK'
  BY <1>1, <1>12, <1>14, <1>17, <1>18 DEF TypeOK, unitVars
<1>20. Waiting'
  BY <1>1, <1>2, <1>13, <1>14, <1>17, WaitingEnds DEF unitVars
<1>21. Stages'
  BY <1>1, <1>16, <1>17 DEF Control, Stages
<1>22. Copies'
  BY <1>13 DEF Copies
<1>23. Steps'
  BY <1>1, <1>13 DEF Control, Steps
<1>24. ASSUME NEW u \in Units, alive[u], initialised[u], NEW x \in Endpoints
       PROVE Serving(u, x)' /\ Admitting(u, x)'
  <2>1. Serving(u, x) /\ Admitting(u, x)
    BY <1>24 DEF GatewayInv, Configured
  <2>2. subs' = subs /\ NodeOf(u)' = NodeOf(u) /\ NodeOf(u) \in Nodes
    BY <1>1 DEF unitVars, NodeOf, Nodes, TypeOK
  <2>3. CASE u # v
    <3>1. \A m \in Methods : Pending(u, m, x)' <=> Pending(u, m, x)
      BY <1>13, <2>3 DEF Pending
    <3>2. Listed(u, x)' <=> Listed(u, x)
      <4>1. CASE x = e
        BY <1>7, <1>11, <1>12, <2>2, <2>3, <4>1 DEF Listed
      <4>2. CASE x # e
        BY <1>12, <2>2, <4>2 DEF Listed
      <4>3. QED
        BY <4>1, <4>2
    <3>3. Serving(u, x)'
      BY <2>1, <2>2, <3>1, <3>2 DEF Serving, Methods
    <3>4. \A g \in Guests : map[x] # None /\ map[x].guests[g] # Absent =>
                              map'[x] # None /\ map'[x].guests[g] # Absent
      BY <1>11, <1>12
    <3>5. task'[u].rpc.guest = task[u].rpc.guest \/ ~Pending(u, "host_add", x)
      BY <1>13, <3>1 DEF Methods, Pending
    <3>6. QED
      BY <2>1, <2>2, <3>1, <3>3, <3>4, <3>5 DEF Admitting, Methods
  <2>4. CASE u = v
    <3>1. \A m \in Methods :
            /\ ~Pending(v, m, x)'
            /\ Pending(v, m, x) <=> m = method /\ x = e
      BY <1>1, <1>2, <1>14 DEF Pending
    <3>2. CASE x # e
      <4>1. Listed(v, x)' <=> Listed(v, x)
        BY <1>12, <2>2, <2>4, <3>2 DEF Listed
      <4>2. Serving(v, x)'
        BY <2>1, <2>2, <2>4, <3>1, <3>2, <4>1 DEF Serving, Methods
      <4>3. Admitting(v, x)'
        BY <1>12, <2>1, <2>2, <2>4, <3>1, <3>2 DEF Admitting, Methods
      <4>4. QED
        BY <2>4, <4>2, <4>3
    <3>3. CASE x = e
      <4>1. CASE method = "create"
        <5>1. subs[v][e] = Nobody
          BY <2>1, <2>4, <3>1, <3>3, <4>1 DEF Serving, Methods
        <5>2. Nobody # None /\ \A g \in Guests : Nobody[g] = Absent
          BY NoneAssumption DEF Nobody, Access
        <5>3. Listed(v, e)'
          BY <1>6, <1>11, <1>12, <2>2, <2>4, <4>1 DEF Listed
        <5>4. QED
          BY <2>2, <2>4, <3>1, <3>3, <5>1, <5>2, <5>3
          DEF Serving, Admitting, Methods
      <4>2. CASE method = "remove"
        <5>1. subs[v][e] = None
          BY <2>1, <2>4, <3>1, <3>3, <4>2 DEF Serving, Methods
        <5>2. ~Listed(v, e)'
          BY <1>6, <1>11, <1>12, <2>2, <2>4, <4>2 DEF Listed
        <5>3. QED
          BY <2>2, <2>4, <3>1, <3>3, <5>1, <5>2
          DEF Serving, Admitting, Methods
      <4>3. CASE method = "host_add"
        <5>1. subs[v][e] # None <=> Listed(v, e)
          BY <2>1, <2>4, <3>1, <3>3, <4>3 DEF Serving, Methods
        <5>2. Listed(v, e)' <=> Listed(v, e)
          BY <1>11, <1>12, <2>2, <2>4, <4>3 DEF Listed
        <5>3. Serving(v, e)'
          BY <2>2, <3>1, <3>3, <5>1, <5>2 DEF Serving, Methods
        <5>4. ASSUME NEW g \in Guests, subs[v][e] # None,
                     subs[v][e][g] # Absent
              PROVE map'[e] # None /\ map'[e].guests[g] # Absent
          <6>1. entry # None /\ map[e] # None
            BY <1>11, <4>3, <5>1, <5>4 DEF Listed
          <6>2. CASE g = guest
            BY <1>11, <1>12, <4>3, <6>1, <6>2
          <6>3. CASE g # guest
            BY <1>2, <1>11, <1>12, <2>1, <2>4, <3>3, <5>4, <6>1, <6>3
            DEF Admitting
          <6>4. QED
            BY <6>2, <6>3
        <5>5. QED
          BY <2>2, <2>4, <3>3, <5>3, <5>4 DEF Admitting
      <4>4. QED
        BY <1>3, <4>1, <4>2, <4>3
    <3>4. QED
      BY <3>2, <3>3
  <2>5. QED
    BY <2>3, <2>4
<1>25. Configured'
  BY <1>1, <1>24 DEF Configured, unitVars
<1>26. QED
  BY <1>19, <1>20, <1>21, <1>22, <1>23, <1>25 DEF GatewayInv, Control

LEMMA ProxyStepHolds ==
  ASSUME GatewayInv, NEW v \in Units, ProxyStep(v) PROVE GatewayInv'
  BY CreateHolds, RemoveHolds, AddHostHolds, DelHostHolds, LookUpHolds,
     RefusalHolds, ReadMapHolds, WriteHolds, ConflictHolds DEF ProxyStep

-----------------------------------------------------------------------------
(* The steps of the charm's actions                                        *)

\* An action that has no request out sends one, or finds the proxy down.
LEMMA AskHolds ==
  ASSUME GatewayInv, NEW u \in Units, NEW v \in Units, act[u] # None,
         NEW a \in Act, StageOf(a), a.stage # "restart",
         NEW method \in Methods, NEW e \in Endpoints, NEW guest \in Guests,
         NEW key \in Keys \cup {KeyName, NoKey},
         Ask(u, v, a, method, e, guest, key)
  PROVE GatewayInv'
<1>1. /\ TypeOK /\ Control /\ act[u].answer = "none"
      /\ UNCHANGED <<map, config, unitVars, offered, spent>>
  BY DEF GatewayInv, Ask
<1>2. \A w \in Units : task[w] # None => task[w].by # u
  BY <1>1 DEF Control, Waiting
<1>3. CASE alive[v]
  <2>1. PICK t : t = [by |-> u, step |-> "target",
                      copy |-> [x \in Endpoints |-> None], current |-> FALSE,
                      rpc |-> [method |-> method, e |-> e, guest |-> guest,
                               key |-> key]]
    OBVIOUS
  <2>2. /\ t \in Task /\ t.by = u /\ t.step = "target"
    BY <2>1 DEF Task, Rpc
  <2>3. PICK b : b = [a EXCEPT !.answer = "wait"]
    OBVIOUS
  <2>4. b \in Act /\ b.answer = "wait" /\ StageOf(b)
    BY <2>3 DEF Act, StageOf
  <2>5. /\ task[v] = None /\ task' = [task EXCEPT ![v] = t]
        /\ act' = [act EXCEPT ![u] = b]
    BY <1>3, <2>1, <2>3 DEF Ask
  <2>6. t # None /\ b # None
    BY <2>2, <2>4, NoneAssumption
  <2>7. /\ task' \in [Units -> Task \cup {None}] /\ task'[v] = t
        /\ \A w \in Units \ {v} : task'[w] = task[w]
        /\ act' \in [Units -> Act \cup {None}] /\ act'[u] = b
        /\ \A w \in Units \ {u} : act'[w] = act[w]
    BY <1>1, <2>2, <2>4, <2>5 DEF TypeOK
  <2>8. TypeOK'
    BY <1>1, <2>7 DEF TypeOK, unitVars
  <2>9. \A w \in Units : task'[w] # None =>
          /\ alive'[w] /\ act'[task'[w].by] # None
          /\ act'[task'[w].by].answer = "wait"
    <3>1. SUFFICES ASSUME NEW w \in Units, w # v, task[w] # None
                   PROVE /\ alive'[w] /\ act'[task[w].by] # None
                         /\ act'[task[w].by].answer = "wait"
      BY <1>1, <1>3, <2>2, <2>4, <2>6, <2>7 DEF unitVars
    <3>2. act'[task[w].by] = act[task[w].by]
      BY <1>1, <1>2, <2>7, <3>1, TaskTyped
    <3>3. QED
      BY <1>1, <3>1, <3>2 DEF Control, Waiting, unitVars
  <2>10. \A w, x \in Units :
           task'[w] # None /\ task'[x] # None /\ task'[w].by = task'[x].by => w = x
    BY <1>1, <1>2, <2>2, <2>7 DEF Control, Waiting
  <2>11. Waiting'
    BY <2>9, <2>10 DEF Waiting
  <2>12. Stages'
    BY <1>1, <2>4, <2>7 DEF Control, Stages
  <2>13. Copies' /\ Steps'
    BY <1>1, <2>2, <2>7 DEF Control, Copies, Steps
  <2>14. Configured'
    BY <1>1, <2>2, <2>5, <2>7, ConfiguredKept DEF GatewayInv, Pends, unitVars
  <2>15. QED
    BY <2>8, <2>11, <2>12, <2>13, <2>14 DEF GatewayInv, Control
<1>4. CASE ~alive[v]
  <2>1. PICK b : b = [a EXCEPT !.answer = "error"]
    OBVIOUS
  <2>2. b \in Act /\ StageOf(b)
    BY <2>1, Answered
  <2>3. act' = [act EXCEPT ![u] = b] /\ task' = task
    BY <1>4, <2>1 DEF Ask
  <2>4. /\ act' \in [Units -> Act \cup {None}] /\ act'[u] = b
        /\ \A w \in Units \ {u} : act'[w] = act[w]
    BY <1>1, <2>2, <2>3 DEF TypeOK
  <2>5. TypeOK'
    BY <1>1, <2>3, <2>4 DEF TypeOK, unitVars
  <2>6. ASSUME NEW w \in Units, task[w] # None
        PROVE act'[task[w].by] = act[task[w].by] /\ alive'[w]
    <3>1. task[w].by \in Units /\ task[w].by # u
      BY <1>1, <1>2, <2>6, TaskTyped
    <3>2. QED
      BY <1>1, <2>4, <2>6, <3>1 DEF Control, Waiting, unitVars
  <2>7. Waiting'
    BY <1>1, <2>3, <2>6, WaitingKept DEF Control
  <2>8. Stages'
    BY <1>1, <2>2, <2>4 DEF Control, Stages
  <2>9. Copies' /\ Steps'
    BY <1>1, <2>3 DEF Control, Copies, Steps
  <2>10. Configured'
    BY <1>1, <2>3, ConfiguredKept DEF GatewayInv, Pends, unitVars
  <2>11. QED
    BY <2>5, <2>7, <2>8, <2>9, <2>10 DEF GatewayInv, Control
<1>5. QED
  BY <1>3, <1>4

\* What an action has at hand when it is in a stage that asks.
LEMMA InStageTyped ==
  ASSUME GatewayInv, NEW u \in Units, NEW stage, InStage(u, stage)
  PROVE /\ act[u] \in Act /\ act[u] # None /\ act[u].stage = stage
        /\ StageOf(act[u]) /\ act[u].e \in Endpoints /\ act[u].guest \in Guests
        /\ act[u].key \in Keys \cup {KeyName, NoKey}
        /\ act[u].units \in SUBSET Units /\ act[u].peer \in Units
        /\ act[u].endpoints \in SUBSET Endpoints /\ act[u].guests \in Access
<1>1. act[u] \in Act /\ act[u] # None /\ act[u].stage = stage /\ StageOf(act[u])
  BY DEF GatewayInv, TypeOK, Control, Stages, InStage
<1>2. QED
  BY <1>1 DEF Act

LEMMA Asked == Anyone \in Guests /\ NoKey \in Keys \cup {KeyName, NoKey}
  BY DEF Guests

\* The requests that concern the action's own endpoint and note nothing down.
LEMMA PlainAskHolds ==
  ASSUME GatewayInv, NEW u \in Units, NEW v \in Units, NEW stage,
         stage # "restart", InStage(u, stage), NEW method \in Methods,
         Ask(u, v, act[u], method, act[u].e, Anyone, NoKey)
  PROVE GatewayInv'
  BY InStageTyped, Asked, AskHolds

LEMMA AskSelfHolds ==
  ASSUME GatewayInv, NEW u \in Units, AskSelf(u) PROVE GatewayInv'
<1>1. InStage(u, "own")
  BY DEF AskSelf
<1>2. /\ act[u] \in Act /\ act[u] # None /\ act[u].stage = "own"
      /\ StageOf(act[u]) /\ act[u].e \in Endpoints /\ act[u].guest \in Guests
      /\ act[u].key \in Keys \cup {KeyName, NoKey}
  BY <1>1, InStageTyped
<1>3. MethodOf(act[u].kind) \in Methods
  BY <1>2 DEF StageOf, MethodOf, Methods
<1>4. Ask(u, u, act[u], MethodOf(act[u].kind), act[u].e, act[u].guest, act[u].key)
  BY DEF AskSelf
<1>5. QED
  BY <1>2, <1>3, <1>4, AskHolds

LEMMA AskPeerHolds ==
  ASSUME GatewayInv, NEW u \in Units, AskPeer(u) PROVE GatewayInv'
<1>1. InStage(u, "peers")
  BY DEF AskPeer
<1>2. /\ act[u] \in Act /\ act[u] # None /\ act[u].stage = "peers"
      /\ StageOf(act[u]) /\ act[u].e \in Endpoints /\ act[u].guest \in Guests
      /\ act[u].key \in Keys \cup {KeyName, NoKey}
      /\ act[u].units \in SUBSET Units
  BY <1>1, InStageTyped
<1>3. MethodOf(act[u].kind) \in Methods
  BY <1>2 DEF StageOf, MethodOf, Methods
<1>4. PICK v \in Units : Ask(u, v, [act[u] EXCEPT !.units = @ \ {v}],
                MethodOf(act[u].kind), act[u].e, act[u].guest, act[u].key)
  BY <1>2 DEF AskPeer
<1>5. PICK a : a = [act[u] EXCEPT !.units = @ \ {v}]
  OBVIOUS
<1>6. a \in Act /\ StageOf(a) /\ a.stage # "restart"
  BY <1>2, <1>5 DEF Act, StageOf
<1>7. Ask(u, v, a, MethodOf(act[u].kind), act[u].e, act[u].guest, act[u].key)
  BY <1>4, <1>5
<1>8. QED
  BY <1>2, <1>3, <1>6, <1>7, AskHolds

LEMMA FindAtPeerHolds ==
  ASSUME GatewayInv, NEW u \in Units, FindAtPeer(u) PROVE GatewayInv'
<1>1. InStage(u, "look")
  BY DEF FindAtPeer
<1>2. /\ act[u] \in Act /\ act[u] # None /\ act[u].stage = "look"
      /\ StageOf(act[u]) /\ act[u].e \in Endpoints
      /\ act[u].units \in SUBSET Units
  BY <1>1, InStageTyped
<1>3. PICK v \in Units : Ask(u, v, [act[u] EXCEPT !.units = @ \ {v}, !.peer = v],
                             "find", act[u].e, Anyone, NoKey)
  BY <1>2 DEF FindAtPeer
<1>4. PICK a : a = [act[u] EXCEPT !.units = @ \ {v}, !.peer = v]
  OBVIOUS
<1>5. a \in Act /\ StageOf(a) /\ a.stage # "restart"
  BY <1>2, <1>4 DEF Act, StageOf
<1>6. Ask(u, v, a, "find", act[u].e, Anyone, NoKey)
  BY <1>3, <1>4
<1>7. "find" \in Methods
  BY DEF Methods
<1>8. QED
  BY <1>2, <1>5, <1>6, <1>7, Asked, AskHolds

LEMMA CopyHostHolds ==
  ASSUME GatewayInv, NEW u \in Units, CopyHost(u) PROVE GatewayInv'
<1>1. InStage(u, "hosts")
  BY DEF CopyHost
<1>2. /\ act[u] \in Act /\ act[u] # None /\ act[u].stage = "hosts"
      /\ StageOf(act[u]) /\ act[u].e \in Endpoints /\ act[u].guests \in Access
  BY <1>1, InStageTyped
<1>3. PICK g \in Hosts, key \in {KeyName, NoKey} :
        Ask(u, u, [act[u] EXCEPT !.guests[g] = Absent], "host_add", act[u].e, g, key)
  BY <1>2 DEF CopyHost
<1>4. PICK guests : guests = [act[u].guests EXCEPT ![g] = Absent]
  OBVIOUS
<1>5. g \in Guests /\ guests \in Access
  BY <1>2, <1>4 DEF Access, Guests
<1>6. PICK a : a = [act[u] EXCEPT !.guests = guests]
  OBVIOUS
<1>7. a \in Act /\ StageOf(a) /\ a.stage # "restart"
  BY <1>2, <1>5, <1>6 DEF Act, StageOf
<1>8. [act[u] EXCEPT !.guests[g] = Absent] = a
  BY <1>2, <1>4, <1>6 DEF Act
<1>9. Ask(u, u, a, "host_add", act[u].e, g, key)
  BY <1>3, <1>8
<1>10. "host_add" \in Methods /\ key \in Keys \cup {KeyName, NoKey}
  BY DEF Methods
<1>11. QED
  BY <1>2, <1>5, <1>7, <1>9, <1>10, AskHolds

LEMMA ClearHolds ==
  ASSUME GatewayInv, NEW u \in Units, Clear(u) PROVE GatewayInv'
<1>1. InStage(u, "clear")
  BY DEF Clear
<1>2. /\ act[u] \in Act /\ act[u] # None /\ act[u].stage = "clear"
      /\ StageOf(act[u]) /\ act[u].endpoints \in SUBSET Endpoints
  BY <1>1, InStageTyped
<1>3. PICK e \in Endpoints : Ask(u, u, [act[u] EXCEPT !.endpoints = @ \ {e}],
                                 "remove", e, Anyone, NoKey)
  BY <1>2 DEF Clear
<1>4. PICK a : a = [act[u] EXCEPT !.endpoints = @ \ {e}]
  OBVIOUS
<1>5. a \in Act /\ StageOf(a) /\ a.stage # "restart"
  BY <1>2, <1>4 DEF Act, StageOf
<1>6. Ask(u, u, a, "remove", e, Anyone, NoKey)
  BY <1>3, <1>4
<1>7. "remove" \in Methods
  BY DEF Methods
<1>8. QED
  BY <1>2, <1>5, <1>6, <1>7, Asked, AskHolds

LEMMA PlainHolds ==
  ASSUME GatewayInv, NEW u \in Units,
         FindHere(u) \/ CopyAny(u) \/ Refer(u) \/ ReferBack(u) \/ RemoveHere(u)
  PROVE GatewayInv'
<1>1. {"find", "host_add", "join", "remove"} \subseteq Methods
  BY DEF Methods
<1>2. CASE FindHere(u)
  BY <1>1, <1>2, PlainAskHolds DEF FindHere
<1>3. CASE CopyAny(u)
  BY <1>1, <1>3, PlainAskHolds DEF CopyAny
<1>4. CASE Refer(u)
  <2>1. act[u].peer \in Units
    BY <1>4, InStageTyped DEF Refer
  <2>2. QED
    BY <1>1, <1>4, <2>1, PlainAskHolds DEF Refer
<1>5. CASE ReferBack(u)
  BY <1>1, <1>5, PlainAskHolds DEF ReferBack
<1>6. CASE RemoveHere(u)
  BY <1>1, <1>6, PlainAskHolds DEF RemoveHere
<1>7. QED
  BY <1>2, <1>3, <1>4, <1>5, <1>6

\* What an action goes on with after an answer is an action in a stage of its kind.
LEMMA GotoTyped ==
  ASSUME NEW a \in Act,
         NEW stage \in {"own", "peers", "find", "look", "any", "hosts", "refer",
                        "back", "remove", "clear", "restart"},
         stage = "own" => a.kind \in {"create", "join", "add", "del"},
         stage = "peers" => a.kind \in {"create", "add", "del"},
         stage = "find" => a.kind \in {"delete", "join"},
         stage \in {"look", "any", "hosts", "refer", "back"} => a.kind = "join"
  PROVE Goto(a, stage) \in Act /\ StageOf(Goto(a, stage))
  BY DEF Goto, Act, StageOf

LEMMA NextPeerTyped ==
  ASSUME NEW a \in Act, a.kind = "join"
  PROVE NextPeer(a) # None => NextPeer(a) \in Act /\ StageOf(NextPeer(a))
<1>1. /\ Goto(a, "look") \in Act /\ StageOf(Goto(a, "look"))
      /\ Goto(a, "remove") \in Act /\ StageOf(Goto(a, "remove"))
  BY GotoTyped
<1>2. NextPeer(a) \in {Goto(a, "look"), Goto(a, "remove"), None}
  BY DEF NextPeer
<1>3. QED
  BY <1>1, <1>2

LEMMA AfterTyped ==
  ASSUME NEW a \in Act, StageOf(a)
  PROVE After(a) # None => After(a) \in Act /\ StageOf(After(a))
<1>1. CASE a.stage = "own" /\ a.kind # "join"
  <2>1. After(a) \in {Goto(a, "peers"), None}
    BY <1>1 DEF After
  <2>2. a.kind \in {"create", "add", "del"}
    BY <1>1 DEF StageOf
  <2>3. Goto(a, "peers") \in Act /\ StageOf(Goto(a, "peers"))
    BY <2>2, GotoTyped
  <2>4. QED
    BY <2>1, <2>3
<1>2. CASE a.stage = "own" /\ a.kind = "join"
  <2>1. PICK b : b = [a EXCEPT !.created = TRUE]
    OBVIOUS
  <2>2. b \in Act /\ b.kind = "join"
    BY <1>2, <2>1 DEF Act
  <2>3. After(a) \in {None, Goto(b, "any"), Goto(b, "refer"), Goto(b, "hosts")}
    BY <1>2, <2>1 DEF After
  <2>4. \A stage \in {"any", "refer", "hosts"} :
          Goto(b, stage) \in Act /\ StageOf(Goto(b, stage))
    BY <2>2, GotoTyped
  <2>5. QED
    BY <2>3, <2>4
<1>3. CASE a.stage = "peers"
  <2>1. After(a) \in {Goto(a, "peers"), None}
    BY <1>3 DEF After
  <2>2. Goto(a, "peers") \in Act /\ StageOf(Goto(a, "peers"))
    BY <1>3, GotoTyped DEF StageOf
  <2>3. QED
    BY <2>1, <2>2
<1>4. CASE a.stage = "find" /\ a.kind = "delete"
  <2>1. After(a) \in {Goto(a, "remove"), None}
    BY <1>4 DEF After
  <2>2. Goto(a, "remove") \in Act /\ StageOf(Goto(a, "remove"))
    BY GotoTyped
  <2>3. QED
    BY <2>1, <2>2
<1>5. CASE a.stage = "find" /\ a.kind = "join"
  <2>1. After(a) \in {NextPeer(a), None}
    BY <1>5 DEF After
  <2>2. QED
    BY <1>5, <2>1, NextPeerTyped
<1>6. CASE a.stage \in {"any", "look", "hosts", "refer"}
  <2>1. a.kind = "join"
    BY <1>6 DEF StageOf
  <2>2. \A stage \in {"refer", "own", "remove", "hosts", "back"} :
          Goto(a, stage) \in Act /\ StageOf(Goto(a, stage))
    BY <2>1, GotoTyped
  <2>3. After(a) \in {Goto(a, "refer"), Goto(a, "own"), Goto(a, "remove"),
                      Goto(a, "hosts"), Goto(a, "back"), NextPeer(a), None}
    <3>1. CASE a.stage = "any"
      BY <3>1 DEF After
    <3>2. CASE a.stage = "look"
      BY <3>2 DEF After
    <3>3. CASE a.stage = "hosts"
      BY <3>3 DEF After
    <3>4. CASE a.stage = "refer"
      BY <3>4 DEF After
    <3>5. QED
      BY <1>6, <3>1, <3>2, <3>3, <3>4
  <2>4. QED
    BY <2>1, <2>2, <2>3, NextPeerTyped
<1>7. CASE a.stage = "back"
  <2>1. PICK b : b = [a EXCEPT !.joined = @ \/ a.answer = "ok"]
    OBVIOUS
  <2>2. After(a) = NextPeer(b)
    BY <1>7, <2>1 DEF After
  <2>3. b \in Act /\ b.kind = "join"
    BY <1>7, <2>1 DEF Act, StageOf
  <2>4. QED
    BY <2>2, <2>3, NextPeerTyped
<1>8. CASE a.stage = "clear"
  <2>1. After(a) \in {Goto(a, "clear"), Goto(a, "restart")}
    BY <1>8 DEF After
  <2>2. \A stage \in {"clear", "restart"} :
          Goto(a, stage) \in Act /\ StageOf(Goto(a, stage))
    BY GotoTyped
  <2>3. QED
    BY <2>1, <2>2
<1>9. CASE a.stage \in {"remove", "restart"}
  BY <1>9 DEF After
<1>10. a.kind \in {"create", "delete", "join", "add", "del", "reset"}
  BY DEF Act
<1>11. a.stage = "find" => a.kind \in {"delete", "join"}
  BY DEF StageOf
<1>12. a.stage \in {"own", "peers", "find", "look", "any", "hosts", "refer",
                    "back", "remove", "clear", "restart"}
  BY DEF Act
<1>13. QED
  BY <1>1, <1>2, <1>3, <1>4, <1>5, <1>6, <1>7, <1>8, <1>9, <1>11, <1>12

\* An action that does not wait is replaced by another, or by none.
LEMMA ActReplaced ==
  ASSUME GatewayInv, NEW u \in Units, act[u] # None => act[u].answer # "wait",
         NEW a, a # None => a \in Act /\ StageOf(a),
         act' = [act EXCEPT ![u] = a], spent' \in [{"actions", "disturbances"} -> Nat],
         UNCHANGED <<map, config, unitVars, task, offered>>
  PROVE GatewayInv'
<1>1. TypeOK /\ Control
  BY DEF GatewayInv
<1>2. /\ act' \in [Units -> Act \cup {None}] /\ act'[u] = a
      /\ \A w \in Units \ {u} : act'[w] = act[w]
  BY <1>1 DEF TypeOK
<1>3. TypeOK'
  BY <1>1, <1>2 DEF TypeOK, unitVars
<1>4. ASSUME NEW w \in Units, task[w] # None
      PROVE act'[task[w].by] = act[task[w].by] /\ alive'[w]
  <2>1. task[w].by \in Units /\ task[w].by # u
    BY <1>1, <1>4, TaskTyped DEF Control, Waiting
  <2>2. QED
    BY <1>1, <1>2, <1>4, <2>1 DEF Control, Waiting, unitVars
<1>5. Waiting'
  BY <1>1, <1>4, WaitingKept DEF Control
<1>6. Stages'
  BY <1>1, <1>2 DEF Control, Stages
<1>7. Copies' /\ Steps'
  BY <1>1 DEF Control, Copies, Steps
<1>8. Configured'
  BY ConfiguredKept DEF GatewayInv, Pends, unitVars
<1>9. QED
  BY <1>3, <1>5, <1>6, <1>7, <1>8 DEF GatewayInv, Control

LEMMA ProceedHolds ==
  ASSUME GatewayInv, NEW u \in Units, Proceed(u) PROVE GatewayInv'
<1>1. act[u] # None /\ act[u] \in Act /\ StageOf(act[u])
  BY ActTyped DEF GatewayInv, Control, Stages, Proceed
<1>2. PICK a : a = After(act[u])
  OBVIOUS
<1>3. a # None => a \in Act /\ StageOf(a)
  BY <1>1, <1>2, AfterTyped
<1>4. /\ act[u].answer # "wait" /\ act' = [act EXCEPT ![u] = a]
      /\ spent' \in [{"actions", "disturbances"} -> Nat]
      /\ UNCHANGED <<map, config, unitVars, task, offered>>
  BY <1>2 DEF Proceed, GatewayInv, TypeOK
<1>5. QED
  BY <1>3, <1>4, ActReplaced

\* What a proxy that starts restores is what the map lists, and the guests are
\* some of those in the map.
LEMMA RestoredFacts ==
  ASSUME TypeOK, NEW u \in Units, NEW restored, restored = Restored(u)
  PROVE /\ restored \in [Endpoints -> Access \cup {None}]
        /\ \A e \in Endpoints :
             /\ restored[e] # None <=> map[e] # None /\ <<u, config[u]>> \in map[e].units
             /\ restored[e] # None =>
                  \A g \in Guests : restored[e][g] # Absent => map[e].guests[g] # Absent
<1>1. \A e \in Endpoints :
        restored[e] = IF map[e] # None /\ <<u, config[u]>> \in map[e].units
                        THEN [g \in Guests |->
                                IF g = Anyone \/ map[e].guests[g] = Absent
                                  THEN Absent ELSE NoKey]
                        ELSE None
  BY DEF Restored
<1>2. \A e \in Endpoints :
        /\ restored[e] \in Access \cup {None}
        /\ restored[e] # None <=> map[e] # None /\ <<u, config[u]>> \in map[e].units
        /\ restored[e] # None =>
             \A g \in Guests : restored[e][g] # Absent => map[e].guests[g] # Absent
  <2>1. SUFFICES ASSUME NEW e \in Endpoints,
                        map[e] # None /\ <<u, config[u]>> \in map[e].units
                 PROVE /\ restored[e] \in Access /\ restored[e] # None
                       /\ \A g \in Guests : restored[e][g] # Absent =>
                                              map[e].guests[g] # Absent
    BY <1>1
  <2>2. restored[e] = [g \in Guests |->
                        IF g = Anyone \/ map[e].guests[g] = Absent
                          THEN Absent ELSE NoKey]
    BY <1>1, <2>1
  <2>3. restored[e] \in Access
    BY <2>2 DEF Access
  <2>4. QED
    BY <2>2, <2>3, NoneAssumption
<1>3. restored \in [Endpoints -> Access \cup {None}]
  BY <1>2 DEF Restored
<1>4. QED
  BY <1>2, <1>3

\* The restart of both services: the target that runs then serves nothing, and
\* who waited for the proxy is told so.
LEMMA ServicesRestartHolds ==
  ASSUME GatewayInv, NEW u \in Units, ServicesRestart(u),
         act[u] = None \/ act[u].answer = "none",
         spent' \in [{"actions", "disturbances"} -> Nat]
  PROVE GatewayInv'
<1>1. /\ TypeOK /\ Control
      /\ task' = [task EXCEPT ![u] = None]
      /\ UNCHANGED <<map, config, id, files>>
  BY DEF GatewayInv, ServicesRestart
<1>2. task[u] # None => task[u].by # u
  BY <1>1 DEF Control, Waiting
<1>3. /\ task' \in [Units -> Task \cup {None}] /\ task'[u] = None
      /\ \A w \in Units \ {u} : task'[w] = task[w]
  BY <1>1 DEF TypeOK
<1>4. /\ alive' \in [Units -> BOOLEAN] /\ ~alive'[u]
      /\ initialised' \in [Units -> BOOLEAN]
      /\ subs' \in [Units -> [Endpoints -> Access \cup {None}]]
      /\ \A w \in Units \ {u} : /\ alive'[w] = alive[w] /\ initialised'[w] = initialised[w]
                                /\ subs'[w] = subs[w]
  BY <1>1 DEF ServicesRestart, TypeOK
<1>5. PICK by : by = IF task[u] = None THEN None ELSE task[u].by
  OBVIOUS
<1>6. act' = [w \in Units |-> IF w = u THEN None
                              ELSE IF w = by THEN [act[w] EXCEPT !.answer = "error"]
                              ELSE act[w]]
  BY <1>5 DEF ServicesRestart
<1>7. ASSUME NEW w \in Units, act'[w] # None
      PROVE act'[w] \in Act /\ StageOf(act'[w])
  <2>1. w # u
    BY <1>6, <1>7
  <2>2. CASE w # by
    BY <1>1, <1>6, <1>7, <2>1, <2>2, ActTyped DEF Control, Stages
  <2>3. CASE w = by /\ task[u] # None
    <3>1. act[w] \in Act /\ StageOf(act[w]) /\ act[w].stage # "restart"
      BY <1>1, <1>5, <2>3, Asker
    <3>2. act'[w] = [act[w] EXCEPT !.answer = "error"]
      BY <1>6, <2>1, <2>3
    <3>3. QED
      BY <3>1, <3>2, Answered
  <2>4. task[u] = None => w # by
    BY <1>5, NoneAssumption
  <2>5. QED
    BY <2>2, <2>3, <2>4
<1>8. act' \in [Units -> Act \cup {None}]
  BY <1>6, <1>7
<1>9. offered' \in [Units -> [Endpoints -> Access \cup {None}] \cup {None}]
  BY <1>1 DEF ServicesRestart, TypeOK
<1>10. TypeOK'
  BY <1>1, <1>3, <1>4, <1>8, <1>9 DEF TypeOK
<1>11. ASSUME NEW w \in Units, task'[w] # None
       PROVE /\ task[w] # None /\ task'[w].by = task[w].by /\ alive'[w]
             /\ act'[task[w].by] = act[task[w].by]
  <2>1. w # u /\ task[w] # None /\ task'[w].by = task[w].by /\ alive'[w]
    BY <1>1, <1>3, <1>4, <1>11 DEF Control, Waiting
  <2>2. task[w].by \in Units /\ task[w].by # u
    BY <1>1, <2>1, TaskTyped DEF Control, Waiting
  <2>3. task[u] # None => task[w].by # task[u].by
    BY <1>1, <2>1 DEF Control, Waiting
  <2>4. task[w].by # by
    BY <1>5, <2>2, <2>3, NoneAssumption
  <2>5. QED
    BY <1>6, <2>1, <2>2, <2>4
<1>12. Waiting'
  BY <1>1, <1>11, WaitingKept DEF Control
<1>13. Stages'
  BY <1>7 DEF Stages
<1>14. Copies' /\ Steps'
  BY <1>1, <1>3 DEF Control, Copies, Steps
<1>15. Configured'
  BY <1>1, <1>3, <1>4, ConfiguredKept DEF GatewayInv, Pends
<1>16. QED
  BY <1>10, <1>12, <1>13, <1>14, <1>15 DEF GatewayInv, Control

LEMMA ResetHolds ==
  ASSUME GatewayInv, NEW u \in Units, ResetTarget(u) PROVE GatewayInv'
<1>1. /\ TypeOK /\ Control /\ InStage(u, "restart") /\ ServicesRestart(u)
      /\ UNCHANGED spent
  BY DEF GatewayInv, ResetTarget
<1>2. act[u].answer = "none"
  BY <1>1 DEF Control, Stages, StageOf, InStage
<1>3. spent' \in [{"actions", "disturbances"} -> Nat]
  BY <1>1 DEF TypeOK
<1>4. QED
  BY <1>1, <1>2, <1>3, ServicesRestartHolds

LEMMA CharmStepHolds ==
  ASSUME GatewayInv, NEW u \in Units, CharmStep(u) PROVE GatewayInv'
  BY AskSelfHolds, AskPeerHolds, FindAtPeerHolds, CopyHostHolds, ClearHolds,
     PlainHolds, ResetHolds, ProceedHolds DEF CharmStep

\* How much of a bound is used stays a number.
LEMMA CountersStay ==
  ASSUME TypeOK,
         \/ spent' = [spent EXCEPT !.actions = @ + 1]
         \/ spent' = [spent EXCEPT !.disturbances = @ + 1]
  PROVE spent' \in [{"actions", "disturbances"} -> Nat]
<1>1. spent \in [{"actions", "disturbances"} -> Nat]
  BY DEF TypeOK
<1>2. spent["actions"] + 1 \in Nat /\ spent["disturbances"] + 1 \in Nat
  BY <1>1
<1>3. CASE spent' = [spent EXCEPT !["actions"] = spent["actions"] + 1]
  BY <1>1, <1>2, <1>3
<1>4. CASE spent' = [spent EXCEPT !["disturbances"] = spent["disturbances"] + 1]
  BY <1>1, <1>2, <1>4
<1>5. QED
  BY <1>3, <1>4

LEMMA BeginHolds ==
  ASSUME GatewayInv, NEW u \in Units,
         NEW kind \in {"create", "delete", "join", "add", "del", "reset"},
         NEW stage \in {"own", "find", "clear", "restart"},
         stage = "own" => kind \in {"create", "join", "add", "del"},
         stage = "find" => kind \in {"delete", "join"},
         NEW e \in Endpoints, NEW guest \in Guests, NEW key \in Keys \cup {NoKey},
         NEW units \in SUBSET Units, NEW endpoints \in SUBSET Endpoints,
         Begin(u, kind, stage, e, guest, key, units, endpoints)
  PROVE GatewayInv'
<1>1. PICK a : a = [kind |-> kind, stage |-> stage, e |-> e, guest |-> guest,
                    key |-> key, units |-> units, peer |-> u, guests |-> Nobody,
                    endpoints |-> endpoints, created |-> FALSE, joined |-> FALSE,
                    answer |-> "none"]
  OBVIOUS
<1>2. Nobody \in Access
  BY DEF Nobody, Access
<1>3. a \in Act /\ StageOf(a)
  BY <1>1, <1>2 DEF Act, StageOf
<1>4. spent' \in [{"actions", "disturbances"} -> Nat]
  BY CountersStay DEF Begin, GatewayInv
<1>5. /\ act[u] = None /\ act' = [act EXCEPT ![u] = a]
      /\ UNCHANGED <<map, config, unitVars, task, offered>>
  BY <1>1 DEF Begin
<1>6. QED
  BY <1>3, <1>4, <1>5, ActReplaced

LEMMA OperatorHolds ==
  ASSUME GatewayInv, NEW u \in Units, OperatorAction(u) PROVE GatewayInv'
<1>1. Anyone \in Guests /\ NoKey \in Keys \cup {NoKey} /\ Peers(u) \subseteq Units
  BY DEF Guests, Peers
<1>2. CASE CreateEndpointAction(u)
  <2>1. PICK e \in Endpoints, ps \in SUBSET Peers(u) :
          Begin(u, "create", "own", e, Anyone, NoKey, ps, {})
    BY <1>2 DEF CreateEndpointAction
  <2>2. QED
    BY <1>1, <2>1, BeginHolds
<1>3. CASE DeleteEndpointAction(u)
  BY <1>1, <1>3, BeginHolds DEF DeleteEndpointAction
<1>4. CASE JoinEndpointAction(u)
  BY <1>1, <1>4, BeginHolds DEF JoinEndpointAction
<1>5. CASE AddHostAction(u)
  BY <1>1, <1>5, BeginHolds DEF AddHostAction
<1>6. CASE DeleteHostAction(u)
  BY <1>1, <1>6, BeginHolds DEF DeleteHostAction
<1>7. CASE ResetTargetAction(u)
  <2>1. PICK e \in Endpoints, stage \in {"restart", "clear"},
             es \in SUBSET Endpoints :
          Begin(u, "reset", stage, e, Anyone, NoKey, {}, es)
    BY <1>7 DEF ResetTargetAction
  <2>2. QED
    BY <1>1, <2>1, BeginHolds
<1>8. CASE PauseAndResume(u)
  <2>1. spent' \in [{"actions", "disturbances"} -> Nat]
    BY <1>8, CountersStay DEF PauseAndResume, GatewayInv
  <2>2. act[u] = None /\ ServicesRestart(u)
    BY <1>8 DEF PauseAndResume
  <2>3. QED
    BY <2>1, <2>2, ServicesRestartHolds
<1>9. QED
  BY <1>2, <1>3, <1>4, <1>5, <1>6, <1>7, <1>8 DEF OperatorAction

-----------------------------------------------------------------------------
(* Processes that die and start, and the configuration                     *)

LEMMA ProxyDiesHolds ==
  ASSUME GatewayInv, NEW u \in Units, ProxyDies(u) PROVE GatewayInv'
<1>1. /\ TypeOK /\ Control /\ alive' = [alive EXCEPT ![u] = FALSE]
      /\ task' = [task EXCEPT ![u] = None]
      /\ spent' = [spent EXCEPT !.disturbances = @ + 1]
      /\ UNCHANGED <<map, config, initialised, subs, files, id>>
  BY DEF GatewayInv, ProxyDies, Disturbance
<1>2. /\ task' \in [Units -> Task \cup {None}] /\ task'[u] = None
      /\ \A w \in Units \ {u} : task'[w] = task[w]
      /\ alive' \in [Units -> BOOLEAN] /\ ~alive'[u]
      /\ \A w \in Units \ {u} : alive'[w] = alive[w]
      /\ spent' \in [{"actions", "disturbances"} -> Nat]
  BY <1>1, CountersStay DEF TypeOK
<1>3. /\ act' \in [Units -> Act \cup {None}] /\ Waiting' /\ Stages'
      /\ offered' \in [Units -> [Endpoints -> Access \cup {None}] \cup {None}]
  <2>1. CASE task[u] = None
    <3>1. UNCHANGED <<act, offered>>
      BY <2>1 DEF ProxyDies
    <3>2. \A w \in Units : task'[w] # None =>
            w # u /\ task[w] # None /\ task'[w].by = task[w].by /\ alive'[w]
      BY <1>1, <1>2 DEF Control, Waiting
    <3>3. Waiting'
      BY <1>1, <3>1, <3>2, WaitingKept DEF Control
    <3>4. QED
      BY <1>1, <3>1, <3>3 DEF TypeOK, Control, Stages
  <2>2. CASE task[u] # None
    <3>1. PICK a : a = [act[task[u].by] EXCEPT !.answer = "error"]
      OBVIOUS
    <3>2. task[u].by \in Units /\ a \in Act /\ StageOf(a)
      BY <1>1, <2>2, <3>1, Asker, Answered
    <3>3. act' = [act EXCEPT ![task[u].by] = a]
      BY <2>2, <3>1 DEF ProxyDies
    <3>4. /\ act' \in [Units -> Act \cup {None}] /\ act'[task[u].by] = a
          /\ \A w \in Units \ {task[u].by} : act'[w] = act[w]
      BY <1>1, <3>2, <3>3 DEF TypeOK
    <3>5. Waiting'
      BY <1>1, <1>2, <2>2, <3>4, WaitingEnds
    <3>6. Stages'
      BY <1>1, <3>2, <3>4 DEF Control, Stages
    <3>7. offered' \in [Units -> [Endpoints -> Access \cup {None}] \cup {None}]
      BY <1>1, <2>2 DEF ProxyDies, TypeOK
    <3>8. QED
      BY <3>4, <3>5, <3>6, <3>7
  <2>3. QED
    BY <2>1, <2>2
<1>4. TypeOK'
  BY <1>1, <1>2, <1>3 DEF TypeOK
<1>5. Copies' /\ Steps'
  BY <1>1, <1>2 DEF Control, Copies, Steps
<1>6. Configured'
  BY <1>1, <1>2, ConfiguredKept DEF GatewayInv, Pends
<1>7. QED
  BY <1>3, <1>4, <1>5, <1>6 DEF GatewayInv, Control

\* Without its target a unit serves nothing, and nothing is said of it.
LEMMA TargetDiesHolds ==
  ASSUME GatewayInv, NEW u \in Units, TargetDies(u) PROVE GatewayInv'
<1>1. /\ TypeOK /\ Control /\ initialised' = [initialised EXCEPT ![u] = FALSE]
      /\ subs' = [subs EXCEPT ![u] = [e \in Endpoints |-> None]]
      /\ spent' = [spent EXCEPT !.disturbances = @ + 1]
      /\ UNCHANGED <<map, config, alive, files, id, task, act, offered>>
  BY DEF GatewayInv, TargetDies, Disturbance
<1>2. /\ initialised' \in [Units -> BOOLEAN] /\ ~initialised'[u]
      /\ \A w \in Units \ {u} : initialised'[w] = initialised[w] /\ subs'[w] = subs[w]
      /\ subs' \in [Units -> [Endpoints -> Access \cup {None}]]
      /\ spent' \in [{"actions", "disturbances"} -> Nat]
  BY <1>1, CountersStay DEF TypeOK
<1>3. TypeOK'
  BY <1>1, <1>2 DEF TypeOK
<1>4. Waiting' /\ Stages'
  BY <1>1 DEF Control, Waiting, Stages
<1>5. Copies' /\ Steps'
  BY <1>1 DEF Control, Copies, Steps
<1>6. Configured'
  BY <1>1, <1>2, ConfiguredKept DEF GatewayInv, Pends
<1>7. QED
  BY <1>3, <1>4, <1>5, <1>6 DEF GatewayInv, Control

\* A proxy that starts configures its target as the map says of its node.
LEMMA StartProxyHolds ==
  ASSUME GatewayInv, NEW u \in Units, StartProxy(u) PROVE GatewayInv'
<1>1. /\ TypeOK /\ Control /\ ~alive[u]
      /\ UNCHANGED <<map, config, task, act, offered, spent>>
  BY DEF GatewayInv, StartProxy, MayStart
<1>2. task[u] = None
  BY <1>1 DEF Control, Waiting
<1>3. PICK restored : restored = Restored(u)
  OBVIOUS
<1>4. /\ restored \in [Endpoints -> Access \cup {None}]
      /\ \A e \in Endpoints :
           /\ restored[e] # None <=> map[e] # None /\ <<u, config[u]>> \in map[e].units
           /\ restored[e] # None =>
                \A g \in Guests : restored[e][g] # Absent => map[e].guests[g] # Absent
  BY <1>1, <1>3, RestoredFacts
<1>5. subs' = [subs EXCEPT ![u] = restored]
  BY <1>3 DEF StartProxy
<1>6. /\ subs' \in [Units -> [Endpoints -> Access \cup {None}]]
      /\ subs'[u] = restored /\ \A w \in Units \ {u} : subs'[w] = subs[w]
  BY <1>1, <1>4, <1>5 DEF TypeOK
<1>7. /\ id' \in [Units -> 0..MaxRenders] /\ id'[u] = config[u]
      /\ \A w \in Units \ {u} : id'[w] = id[w]
  BY <1>1 DEF StartProxy, TypeOK
<1>8. /\ alive' \in [Units -> BOOLEAN] /\ alive'[u]
      /\ initialised' \in [Units -> BOOLEAN]
      /\ \A w \in Units \ {u} : alive'[w] = alive[w] /\ initialised'[w] = initialised[w]
  BY <1>1 DEF StartProxy, TypeOK
<1>9. files' \in [Units -> [Endpoints -> [Guests -> Keys \cup {KeyName, None}]]]
  BY <1>1 DEF StartProxy, TypeOK
<1>10. TypeOK'
  BY <1>1, <1>6, <1>7, <1>8, <1>9 DEF TypeOK
<1>11. ASSUME NEW e \in Endpoints PROVE Serving(u, e)' /\ Admitting(u, e)'
  <2>1. \A method \in Methods : ~Pending(u, method, e)'
    BY <1>1, <1>2 DEF Pending
  <2>2. Listed(u, e)' <=> map[e] # None /\ <<u, config[u]>> \in map[e].units
    BY <1>1, <1>7 DEF Listed, NodeOf
  <2>3. Serving(u, e)'
    BY <1>4, <1>6, <2>1, <2>2 DEF Serving, Methods
  <2>4. Admitting(u, e)'
    BY <1>1, <1>4, <1>6 DEF Admitting
  <2>5. QED
    BY <2>3, <2>4
<1>12. Waiting'
  BY <1>1, <1>2, <1>8 DEF Control, Waiting
<1>13. Stages' /\ Copies' /\ Steps'
  BY <1>1 DEF Control, Stages, Copies, Steps
<1>14. Configured'
  BY <1>1, <1>6, <1>7, <1>8, <1>11, ConfiguredKept DEF GatewayInv, Pends
<1>15. QED
  BY <1>10, <1>12, <1>13, <1>14 DEF GatewayInv, Control

\* A target that got some of its endpoints has no proxy, and nothing is said of it.
LEMMA StartFailsHolds ==
  ASSUME GatewayInv, NEW u \in Units, StartFails(u) PROVE GatewayInv'
<1>1. /\ TypeOK /\ Control /\ ~alive[u]
      /\ spent' = [spent EXCEPT !.disturbances = @ + 1]
      /\ initialised' = [initialised EXCEPT ![u] = TRUE]
      /\ UNCHANGED <<map, config, alive, id, task, act, offered>>
  BY DEF GatewayInv, StartFails, MayStart, Disturbance
<1>2. PICK restored : restored = Restored(u)
  OBVIOUS
<1>3. restored \in [Endpoints -> Access \cup {None}]
  BY <1>1, <1>2, RestoredFacts
<1>4. PICK es \in SUBSET Endpoints :
        subs' = [subs EXCEPT ![u] = [e \in Endpoints |-> IF e \in es THEN restored[e] ELSE None]]
  BY <1>2 DEF StartFails
<1>5. /\ subs' \in [Units -> [Endpoints -> Access \cup {None}]]
      /\ \A w \in Units \ {u} : subs'[w] = subs[w]
  BY <1>1, <1>3, <1>4 DEF TypeOK
<1>6. /\ initialised' \in [Units -> BOOLEAN]
      /\ \A w \in Units \ {u} : initialised'[w] = initialised[w]
      /\ spent' \in [{"actions", "disturbances"} -> Nat]
      /\ files' \in [Units -> [Endpoints -> [Guests -> Keys \cup {KeyName, None}]]]
  BY <1>1, CountersStay DEF TypeOK, StartFails
<1>7. TypeOK'
  BY <1>1, <1>5, <1>6 DEF TypeOK
<1>8. Waiting' /\ Stages' /\ Copies' /\ Steps'
  BY <1>1 DEF Control, Waiting, Stages, Copies, Steps
<1>9. Configured'
  BY <1>1, <1>5, <1>6, ConfiguredKept DEF GatewayInv, Pends
<1>10. QED
  BY <1>7, <1>8, <1>9 DEF GatewayInv, Control

LEMMA RenderHolds ==
  ASSUME GatewayInv, NEW u \in Units, RenderConfig(u) PROVE GatewayInv'
<1>1. /\ TypeOK /\ Control
      /\ config' = [config EXCEPT ![u] = @ + 1] /\ config[u] < MaxRenders
      /\ spent' = [spent EXCEPT !.disturbances = @ + 1]
      /\ UNCHANGED <<map, unitVars, task, act, offered>>
  BY DEF GatewayInv, RenderConfig, Disturbance
<1>2. /\ config' \in [Units -> 0..MaxRenders]
      /\ spent' \in [{"actions", "disturbances"} -> Nat]
  BY <1>1, GatewayAssumption DEF TypeOK
<1>3. TypeOK'
  BY <1>1, <1>2 DEF TypeOK, unitVars
<1>4. Control'
  BY <1>1 DEF Control, Waiting, Stages, Copies, Steps, unitVars
<1>5. Configured'
  BY <1>1, ConfiguredKept DEF GatewayInv, Pends, unitVars
<1>6. QED
  BY <1>3, <1>4, <1>5 DEF GatewayInv

-----------------------------------------------------------------------------
(* The gateways as a whole                                                 *)

LEMMA InitHolds == Init => GatewayInv
<1>1. SUFFICES ASSUME Init PROVE GatewayInv
  OBVIOUS
<1>2. TypeOK
  <2>1. /\ map \in [Endpoints -> Entry \cup {None}]
        /\ config \in [Units -> 0..MaxRenders] /\ id \in [Units -> 0..MaxRenders]
        /\ alive \in [Units -> BOOLEAN] /\ initialised \in [Units -> BOOLEAN]
    BY <1>1, GatewayAssumption DEF Init
  <2>2. /\ subs \in [Units -> [Endpoints -> Access \cup {None}]]
        /\ files \in [Units -> [Endpoints -> [Guests -> Keys \cup {KeyName, None}]]]
    BY <1>1 DEF Init
  <2>3. /\ task \in [Units -> Task \cup {None}] /\ act \in [Units -> Act \cup {None}]
        /\ offered \in [Units -> [Endpoints -> Access \cup {None}] \cup {None}]
    BY <1>1 DEF Init
  <2>4. spent \in [{"actions", "disturbances"} -> Nat]
    BY <1>1 DEF Init
  <2>5. QED
    BY <2>1, <2>2, <2>3, <2>4 DEF TypeOK
<1>3. \A u \in Units : /\ task[u] = None /\ act[u] = None
                       /\ \A e \in Endpoints : subs[u][e] = None /\ map[e] = None
  BY <1>1 DEF Init
<1>4. Control
  BY <1>3 DEF Control, Stages, Waiting, Copies, Steps
<1>5. Configured
  BY <1>3 DEF Configured, Serving, Admitting, Pending, Listed
<1>6. QED
  BY <1>2, <1>4, <1>5 DEF GatewayInv

LEMMA NextHolds == GatewayInv /\ [Next]_vars => GatewayInv'
<1>1. SUFFICES ASSUME GatewayInv, [Next]_vars PROVE GatewayInv'
  OBVIOUS
<1>2. CASE UNCHANGED vars
  <2>0. UNCHANGED <<map, config, id, alive, initialised, subs, files, task, act,
                    offered, spent>>
    BY <1>2 DEF vars, unitVars
  <2>1. TypeOK'
    BY <1>1, <2>0 DEF GatewayInv, TypeOK
  <2>2. Control'
    BY <1>1, <2>0 DEF GatewayInv, Control, Waiting, Stages, Copies, Steps
  <2>3. Configured'
    BY <1>1, <2>0, ConfiguredKept DEF GatewayInv, Pends
  <2>4. QED
    BY <2>1, <2>2, <2>3 DEF GatewayInv
<1>3. CASE Next
  BY <1>1, <1>3, ProxyStepHolds, CharmStepHolds, OperatorHolds, ProxyDiesHolds,
     TargetDiesHolds, StartProxyHolds, StartFailsHolds, RenderHolds DEF Next
<1>4. QED
  BY <1>1, <1>2, <1>3

LEMMA Kept == Spec => []GatewayInv
BY InitHolds, NextHolds, PTL DEF Spec

\* Every variable keeps its type: the records of requests and actions are whole
\* whoever dies, and a node id that has been read is one that was written.
THEOREM GatewayTyped == Spec => []TypeOK
<1>1. GatewayInv => TypeOK
  BY DEF GatewayInv
<1>2. QED
  BY <1>1, Kept, PTL

\* A unit at rest serves exactly what the map lists under its node, through
\* every interleaving of requests, concurrent updates of the map, and deaths.
THEOREM ServedListed == Spec => []ServedIsListed
<1>1. GatewayInv => ServedIsListed
  BY DEF GatewayInv, Configured, Serving, Pending, Listed, ServedIsListed, Quiet
<1>2. QED
  BY <1>1, Kept, PTL

\* Every guest that a unit at rest lets in is in the map: no update of the map
\* that another proxy makes at the same time loses it.
THEOREM GuestsInMap == Spec => []GuestsRecorded
<1>1. GatewayInv => GuestsRecorded
  BY DEF GatewayInv, Configured, Admitting, Pending, GuestsRecorded, Quiet
<1>2. QED
  BY <1>1, Kept, PTL
================================================================================
