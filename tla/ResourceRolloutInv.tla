--------------------------- MODULE ResourceRolloutInv ---------------------------
(***************************************************************************)
(* The inductive invariant of ResourceRollout.  Its difficulty is the      *)
(* generation that a leader has minted and begun to carry out, but that    *)
(* Juju has not committed: nobody else can see it, it may be lost, and     *)
(* another leader may mint one of its own.  The rollout stays serialized   *)
(* because only the unit that is first in the host order can hold the turn *)
(* in such a generation, and it is first in every other generation too.    *)
(***************************************************************************)
EXTENDS ResourceRollout

(* Where a hook is determines what it holds.                                *)
Phases ==
  \A u \in Units :
    /\ pc[u] # "idle" => req[u] \in Request /\ life[u] = "joined"
    /\ pc[u] = "idle" => view[u] = Nil
    /\ pc[u] \in {"turn", "running", "ack", "notify"} => view[u] # Nil
    /\ pc[u] \in {"running", "ack", "notify"} => u \in Participants(view[u])
    /\ pc[u] \in {"ack", "notify"} => ~dirty[u]
    /\ minted[u] => view[u] # Nil /\ pc[u] \notin {"idle", "look"}

(* Generation identifiers are never reused, and a minted generation is not  *)
(* the published one nor anybody else's.                                    *)
Identifiers ==
  /\ rollout # Nil => rollout.id <= lastGen
  /\ \A u \in Units : view[u] # Nil => view[u].id <= lastGen
  /\ \A m \in doneMarks : m[1] <= lastGen
  /\ \A u \in Units : minted[u] =>
       /\ rollout # Nil => view[u].id # rollout.id
       /\ \A v \in Units \ {u} : view[v] # Nil => view[v].id # view[u].id

(* The only marks of a minted generation are its minter's.                  *)
MintedMarks ==
  \A u, v \in Units :
    minted[u] /\ Completed(view[u].id, v)
      => u = v /\ pc[u] \in {"notify", "commit"} /\ ~dirty[u]

(* What a hook read is still current, or is finished for good; and a hook   *)
(* that can publish a generation sees the published one finished.           *)
Currency ==
  /\ \A u \in Units : ~minted[u] /\ view[u] # Nil =>
       view[u] = rollout \/ Finished(view[u])
  /\ \A u \in Units : pc[u] = "look" /\ leader = u => view[u] = rollout
  /\ \A u \in Units : minted[u] /\ leader = u => Finished(rollout)

(* Marks follow the host order.                                             *)
InOrder(g) ==
  \A u, v \in Participants(g) :
    Rank[v] < Rank[u] /\ Completed(g.id, u) => Completed(g.id, v)

HostOrder ==
  /\ rollout # Nil => InOrder(rollout)
  /\ \A u \in Units : minted[u] => InOrder(view[u])
  /\ \A u \in Units : pc[u] \in {"running", "ack"} =>
       Admitted(view[u].id, Participants(view[u]), u)

(* What holds for every membership of the application.                      *)
GenerationInv ==
  TypeOK /\ Phases /\ Identifiers /\ MintedMarks /\ Currency /\ HostOrder

--------------------------------------------------------------------------------
(* What holds when no unit joins after deployment.                          *)

FixedCohort == InitialUnits = Units

Firstmost(u, S) == \A v \in S : Rank[u] <= Rank[v]

(* A generation names every unit still there; one that can be published     *)
(* names no unit that an older one does not.                                *)
Cohorts ==
  /\ \A u \in Units : life[u] \in {"joined", "gone"}
  /\ rollout # Nil => Joined \subseteq Participants(rollout)
  /\ \A u \in Units : view[u] # Nil => Joined \subseteq Participants(view[u])
  /\ \A u, v \in Units : minted[u] /\ minted[v] /\ leader = u =>
       Participants(view[u]) \subseteq Participants(view[v])
  /\ \A u \in Units : minted[u] /\ ~Finished(rollout) =>
       /\ Participants(rollout) \subseteq Participants(view[u])
       /\ ~Completed(rollout.id, u)

(* The unit that may work: in the published generation the next one in      *)
(* order, between generations the first one of all.                         *)
HasToken(u) ==
  IF Finished(rollout)
    THEN Firstmost(u, Joined)
    ELSE /\ ~Completed(rollout.id, u)
         /\ Admitted(rollout.id, Participants(rollout), u)

Token ==
  /\ \A u \in Units : Working(u) => HasToken(u)
  /\ \A u, w \in Units : Working(u) /\ minted[w] /\ leader = w =>
       Firstmost(u, Participants(view[w]))

(* The invariant that shows that turns are exclusive.                       *)
TurnInv == GenerationInv /\ Cohorts /\ Token

--------------------------------------------------------------------------------
(* What markers and statuses say of the requests carried out.               *)

(* The generations about: the published one and those that hooks work on.   *)
InUse == ({rollout} \cup {view[u] : u \in Units}) \ {Nil}

(* A request of u that somebody has is the one u has, or has a smaller id.  *)
Older(r, u) == req[u] \in Request /\ r.id <= req[u].id /\ (r.id = req[u].id => r = req[u])

Nonces ==
  /\ \A u \in Units : pubReq[u] # Nil => Older(pubReq[u], u)
  /\ \A g \in InUse : \A u \in Participants(g) : Older(g.requests[u], u)

(* No generation is as new as the next one, nor is any mark.                *)
Bounded ==
  /\ \A g \in InUse : g.id <= lastGen
  /\ \A m \in doneMarks : m[1] <= lastGen

(* A mark, the place in a hook, and a status stand for a request that was   *)
(* carried out.                                                             *)
MarksMean ==
  \A g \in InUse : \A u \in Participants(g) :
    Completed(g.id, u) /\ g.requests[u] = req[u] => applied[u] = req[u].id

PlaceMeans ==
  \A u \in Units : pc[u] \in {"ack", "notify"} => applied[u] = req[u].id

StatusMeans ==
  \A u \in Units :
    /\ life[u] \in {"absent", "expected"} => status[u] = "none"
    /\ /\ life[u] = "joined" /\ status[u] = "complete"
       /\ pc[u] = "commit" \/ (pc[u] = "idle" /\ "retry" \notin wake[u])
       => applied[u] = req[u].id

CarriedOut == MarksMean /\ PlaceMeans /\ StatusMeans

RequestInv == TypeOK /\ Phases /\ Bounded /\ Nonces /\ CarriedOut

--------------------------------------------------------------------------------
(* Why the handoff is never lost.                                           *)

Says(p, g) == p # Nil /\ p.gen = g /\ p.status = "done"

(* Only what is done is said to be done.                                    *)
ProgressTrue ==
  \A u \in Units :
    /\ localProg[u] # Nil /\ localProg[u].status = "done" =>
         Completed(localProg[u].gen, u)
    /\ pubProg[u] # Nil /\ pubProg[u].status = "done" => Completed(pubProg[u].gen, u)
    /\ pc[u] = "notify" => Completed(view[u].id, u)

(* A hook that works on a generation that it has completed is about to say  *)
(* so, or has failed.                                                       *)
Reporting ==
  \A u \in Units :
    /\ pc[u] \in {"turn", "commit"} /\ view[u] # Nil /\ u \in Participants(view[u])
    /\ Completed(view[u].id, u)
    => \/ pc[u] = "commit" /\ status[u] = "failed"
       \/ notify[u] /\ Says(localProg[u], view[u].id)

(* A hook that works on another generation than the published one will be   *)
(* followed by another hook.                                                *)
Outdated == \A u \in Units : pc[u] # "idle" /\ ~minted[u] /\ view[u] # rollout =>
                               wake[u] # {}

(* A unit that sleeps has told its peers of its completion, or has failed.  *)
Told ==
  rollout # Nil =>
    \A u \in Participants(rollout) :
      /\ life[u] = "joined" /\ pc[u] = "idle" /\ wake[u] = {}
      /\ Completed(rollout.id, u)
      => Says(pubProg[u], rollout.id) \/ status[u] = "failed"

(* A unit that sleeps, or is about to, has failed or waits for another one. *)
Awaits(u) ==
  \/ status[u] = "failed"
  \/ \E v \in Predecessors(Participants(rollout), u) :
       \/ ~Completed(rollout.id, v)
       \/ life[v] = "joined" /\ ~Says(pubProg[v], rollout.id)

Sleepers ==
  rollout # Nil =>
    \A u \in Participants(rollout) :
      /\ life[u] = "joined" /\ wake[u] = {} /\ ~Completed(rollout.id, u)
      /\ pc[u] = "idle" \/ (pc[u] = "commit" /\ ~minted[u])
      => Awaits(u)

(* ... and so has one that is about to publish a generation.                *)
MintersWait ==
  \A u \in Units :
    /\ pc[u] = "commit" /\ minted[u]
    /\ u \in Participants(view[u]) /\ ~Completed(view[u].id, u)
    => status[u] = "failed" \/ ~Admitted(view[u].id, Participants(view[u]), u)

HandoffParts ==
  ProgressTrue /\ Reporting /\ Outdated /\ Told /\ Sleepers /\ MintersWait

HandoffInv == TypeOK /\ Phases /\ Identifiers /\ HandoffParts
================================================================================
