---------------------------- MODULE RollingOperation ----------------------------
(***************************************************************************)
(* The marker protocol of charms_ceph/rolling.py: an ordered cohort of     *)
(* units, and markers kept in the monitors' config-key store under         *)
(* <namespace>_<unit>_<generation>_<phase>.  A marker is durable as soon as *)
(* the write returns and is never deleted.  The phases "start" and "alive" *)
(* are only read by the release upgrade; check_turn reads "done" and       *)
(* "failed", which are the two kept here.                                  *)
(***************************************************************************)
EXTENDS Integers, FiniteSets

CONSTANTS
  Units,      \* every unit the application may ever have
  Rank        \* the place of a unit in sorted((host, unit)) order

ASSUME RankAssumption ==
  /\ Rank \in [Units -> Int]
  /\ \A u, v \in Units : Rank[u] = Rank[v] => u = v

VARIABLES
  doneMarks,    \* <<generation, unit>> pairs whose "done" key exists
  failedMarks   \* <<generation, unit>> pairs whose "failed" key exists

Completed(g, u) == <<g, u>> \in doneMarks

AllCompleted(g, participants) == \A p \in participants : Completed(g, p)

(* Mutant: the slice stops one short.                                       *)
Predecessors_OneShort(participants, u) == {v \in participants : Rank[v] < Rank[u] - 1}

(* The predecessors that check_turn walks: every one, not just the nearest. *)
Predecessors(participants, u) == {v \in participants : Rank[v] < Rank[u]}

(* Mutant: a failed predecessor is skipped, as the release upgrade does.    *)
Admitted_FailOpen(g, participants, u) ==
  \A p \in Predecessors(participants, u) : Completed(g, p) \/ <<g, p>> \in failedMarks

(* check_turn admits u: every predecessor has its own "done" marker.        *)
Admitted(g, participants, u) ==
  AllCompleted(g, Predecessors(participants, u))

(* The predecessor check_turn stops at: the first one without "done".       *)
IsBlocker(g, participants, u, v) ==
  /\ v \in Predecessors(participants, u)
  /\ ~Completed(g, v)
  /\ Admitted(g, participants, v)

(* What check_turn raises when u is not admitted: RollingError when that    *)
(* predecessor left a "failed" marker, RollingWait until the timeout        *)
(* otherwise.                                                               *)
BlockedStatus(g, participants, u) ==
  IF \E v \in participants : /\ IsBlocker(g, participants, u, v)
                             /\ <<g, v>> \in failedMarks
    THEN "failed"
    ELSE "waiting"

MarkDone(g, u) == doneMarks' = doneMarks \cup {<<g, u>>}

MarkFailed(g, u) == failedMarks' = failedMarks \cup {<<g, u>>}
================================================================================
