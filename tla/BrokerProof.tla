------------------------------ MODULE BrokerProof ------------------------------
(***************************************************************************)
(* What the broker promises, for any number of monitor units, clients,     *)
(* services, pools, groups and namespaces, any requests, and any number of *)
(* changed requests, elections, dying hooks, upgrades and failing          *)
(* operations.                                                             *)
(*                                                                         *)
(* Types hold without conditions.  A promise fails where the code lets it  *)
(* fail, and each theorem names what it rests on: that no write to the     *)
(* registry loses what another has put there (Keeps), that no key loses a  *)
(* pool (KeysKeep), that no service is in groups with and without a        *)
(* namespace (Unmixed), that there are no namespaces, that auth caps does  *)
(* not fail.  Of these Keeps and KeysKeep are not about the system but     *)
(* about a behaviour: they allow several Ceph leaders, and reads that      *)
(* fail, as long as these do no harm.  UpdatesKept and KeysKept prove them *)
(* of a leader that waits and of reads that succeed.  Sections 4 and 10 of *)
(* the README say what happens otherwise.                                  *)
(***************************************************************************)
EXTENDS Broker, SequenceTheorems, TLAPS

(* No step takes from the registry what is in it: a whole JSON value that   *)
(* was read earlier does not overwrite what was added to it meanwhile.      *)
Keeps ==
  /\ \A k \in GroupKeys : /\ groups[k].pools \subseteq groups'[k].pools
                          /\ groups[k].services \subseteq groups'[k].services
  /\ \A s \in Services : services[s] \subseteq services'[s]

(* No step takes a pool from a key.                                         *)
KeysKeep == \A s \in Services : caps[s] \subseteq caps'[s]

--------------------------------------------------------------------------------
(* The invariants *)

\* Names of groups as they are recorded: a namespace is put before them once.
RecordedKeys ==
  {<<g>> : g \in Groups} \cup {<<n, g>> : n \in Namespaces, g \in Groups}

\* A job is at an operation of its request, and at a step of that operation.
JobTyped(j) ==
  /\ j.at \in DOMAIN Ops[j.req]
  /\ j.names \subseteq RecordedKeys
  /\ LET op == Ops[j.req][j.at]
     IN /\ j.step \in {"saveGroup", "saveService", "build", "caps"} => op.group # None
        /\ j.step = "saveService" => IsGrant(op)
        /\ j.step = "pool" => ~IsGrant(op)
        /\ j.step = "caps" => j.who \in Services

TypeInv ==
  /\ TypeOK
  /\ services \in [Services -> SUBSET RecordedKeys]
  /\ \A m \in Mons : job[m] # None => serving[m] \in Clients /\ JobTyped(job[m])

\* What the registry holds once an operation has been carried out.
RecordedIn(op, gs, ss) ==
  op.group # None =>
    IF IsGrant(op) THEN /\ KeyOf(op) \in ss[op.service]
                        /\ op.service \in gs[KeyOf(op)].services
                   ELSE op.pool \in gs[KeyOf(op)].pools

Recorded(op) == RecordedIn(op, groups, services)

\* Requests that are answered with success, also by hooks still to commit.
Promised ==
  {r \in Requests : \E m \in Mons, c \in Clients :
     [req |-> r, ok |-> TRUE] \in {rsp[m][c], out[m][c]}}

\* Operations behind a job.
Done(m) ==
  IF job[m] = None THEN {}
  ELSE IF job[m].step # "reply" THEN {Ops[job[m].req][i] : i \in 1 .. job[m].at - 1}
  ELSE IF job[m].ret = "ok" THEN OpsOf(job[m].req)
  ELSE {}

CarriedOut ==
  {op \in Operation : \/ \E r \in Promised : op \in OpsOf(r)
                      \/ \E m \in Mons : op \in Done(m)}

LastOf(r) == Ops[r][Len(Ops[r])]

\* The pool of the last operation of a request that succeeded exists.
PoolsThere ==
  /\ \A r \in Promised : ~IsGrant(LastOf(r)) => LastOf(r).pool \in pools
  /\ \A m \in Mons :
       At(m, "reply") /\ job[m].ret = "ok" /\ ~IsGrant(LastOf(job[m].req))
         => LastOf(job[m].req).pool \in pools

PoolsFor(names) == UNION {groups[k].pools : k \in names}

\* What a job has written so far is recorded.
WorkIn(j, gs, ss) ==
  LET op == Ops[j.req][j.at]
      k == KeyOf(op)
  IN /\ IsGrant(op) /\ j.step \in {"saveGroup", "saveService"}
          => \A i \in j.names : op.service \in gs[i].services
     /\ IsGrant(op) /\ j.step \in {"saveService", "build", "caps"}
          => op.service \in gs[k].services
     /\ IsGrant(op) /\ j.step \in {"build", "caps"}
          => /\ j.todo = {op.service}
             /\ k \in j.names /\ j.names \subseteq ss[op.service]
     /\ ~IsGrant(op) /\ op.group # None /\ j.step \in {"build", "caps", "pool"}
          => op.pool \in gs[k].pools
     /\ j.step = "caps" => j.who \in j.todo

Work(j) == WorkIn(j, groups, services)

RecordInv ==
  /\ TypeInv
  /\ GroupsListMembers
  /\ \A op \in CarriedOut : Recorded(op)
  /\ PoolsThere
  /\ \A m \in Mons : job[m] # None => Work(job[m])

--------------------------------------------------------------------------------
(* Types                                                                   *)

LEMMA KeysTyped ==
  /\ RecordedKeys \subseteq GroupKeys
  /\ \A op \in Operation : op.group # None => KeyOf(op) \in RecordedKeys
<1>1. RecordedKeys \subseteq GroupKeys
  BY DEF RecordedKeys, GroupKeys
<1>2. ASSUME NEW op \in Operation, op.group # None PROVE KeyOf(op) \in RecordedKeys
  BY <1>2, RegistryAssumption DEF Operation, KeyOf, RecordedKeys
<1>3. QED
  BY <1>1, <1>2

\* A namespace before a recorded name.
LEMMA Prefixed ==
  /\ \A n \in Namespaces, g \in Groups : <<n>> \o <<g>> = <<n, g>>
  /\ \A n, o \in Namespaces, g \in Groups : <<n>> \o <<o, g>> = <<n, o, g>>
<1> DEFINE S == Namespaces \cup Groups
<1>1. ASSUME NEW n \in Namespaces, NEW g \in Groups
      PROVE  <<n>> \o <<g>> = <<n, g>>
  <2>1. <<n>> \in Seq(S) /\ <<g>> \in Seq(S) /\ <<n, g>> \in Seq(S)
    OBVIOUS
  <2>2. Len(<<n>>) = 1 /\ Len(<<g>>) = 1 /\ Len(<<n, g>>) = 2
    OBVIOUS
  <2>3. <<n>> \o <<g>> \in Seq(S) /\ Len(<<n>> \o <<g>>) = 2
    BY <2>1, <2>2
  <2>4. \A i \in 1 .. 2 : (<<n>> \o <<g>>)[i] = <<n, g>>[i]
    BY <2>1, <2>2, ConcatProperties
  <2> HIDE DEF S
  <2>5. QED
    BY <2>1, <2>2, <2>3, <2>4, SeqEqual
<1>2. ASSUME NEW n \in Namespaces, NEW o \in Namespaces, NEW g \in Groups
      PROVE  <<n>> \o <<o, g>> = <<n, o, g>>
  <2>1. <<n>> \in Seq(S) /\ <<o, g>> \in Seq(S) /\ <<n, o, g>> \in Seq(S)
    OBVIOUS
  <2>2. Len(<<n>>) = 1 /\ Len(<<o, g>>) = 2 /\ Len(<<n, o, g>>) = 3
    OBVIOUS
  <2>3. <<n>> \o <<o, g>> \in Seq(S) /\ Len(<<n>> \o <<o, g>>) = 3
    BY <2>1, <2>2
  <2>4. \A i \in 1 .. 3 : (<<n>> \o <<o, g>>)[i] = <<n, o, g>>[i]
    BY <2>1, <2>2, ConcatProperties
  <2> HIDE DEF S
  <2>5. QED
    BY <2>1, <2>2, <2>3, <2>4, SeqEqual
<1>3. QED
  BY <1>1, <1>2

LEMMA LookupTyped ==
  ASSUME NEW k \in RecordedKeys, NEW ns \in Namespaces \cup {None}
  PROVE  LookupKey(k, ns) \in GroupKeys
<1>1. CASE ns = None
  BY <1>1, KeysTyped DEF LookupKey
<1>2. CASE ns # None
  <2>1. CASE k \in {<<g>> : g \in Groups}
    <3>1. PICK g \in Groups : k = <<g>>
      BY <2>1
    <3>2. LookupKey(k, ns) = <<ns, g>>
      BY <1>2, <3>1, Prefixed DEF LookupKey
    <3>3. QED
      BY <1>2, <3>1, <3>2 DEF GroupKeys
  <2>2. CASE k \in {<<n, g>> : n \in Namespaces, g \in Groups}
    <3>1. PICK n \in Namespaces, g \in Groups : k = <<n, g>>
      BY <2>2
    <3>2. LookupKey(k, ns) = <<ns, n, g>>
      BY <1>2, <3>1, Prefixed DEF LookupKey
    <3>3. QED
      BY <1>2, <3>1, <3>2 DEF GroupKeys
  <2>3. QED
    BY <2>1, <2>2 DEF RecordedKeys
<1>3. QED
  BY <1>1, <1>2

LEMMA OpsTyped ==
  ASSUME NEW r \in Requests
  PROVE  /\ Ops[r] \in Seq(Operation)
         /\ Len(Ops[r]) \in Nat \ {0}
         /\ DOMAIN Ops[r] = 1 .. Len(Ops[r])
         /\ \A i \in DOMAIN Ops[r] : Ops[r][i] \in Operation
         /\ \A op \in OpsOf(r) : op \in Operation
<1>1. Ops[r] \in Seq(Operation) /\ Ops[r] # << >>
  BY RegistryAssumption
<1>2. QED
  BY <1>1 DEF OpsOf

\* What an operation is, by its kind.
LEMMA Kinds ==
  ASSUME NEW op \in Operation
  PROVE  /\ IsGrant(op) => op.service \in Services /\ op.group \in Groups
                           /\ op.group # None
         /\ ~IsGrant(op) => op.pool \in Pools
         /\ op.ns \in Namespaces \cup {None}
         /\ op.group # None => KeyOf(op) \in RecordedKeys /\ KeyOf(op) \in GroupKeys
BY KeysTyped, RegistryAssumption DEF Operation, IsGrant

LEMMA JobFacts ==
  ASSUME TypeInv, NEW m \in Mons, job[m] # None
  PROVE  /\ job[m] \in Job
         /\ JobTyped(job[m])
         /\ serving[m] \in Clients
         /\ CurrentOp(m) \in Operation
         /\ job[m].at \in 1 .. Len(Ops[job[m].req])
         /\ Len(Ops[job[m].req]) \in Nat
<1>1. job[m] \in Job
  BY DEF TypeInv, TypeOK, RegistryTypeOK
<1>2. job[m].req \in Requests
  BY <1>1 DEF Job
<1>3. JobTyped(job[m]) /\ serving[m] \in Clients
  BY DEF TypeInv
<1>4. QED
  BY <1>1, <1>2, <1>3, OpsTyped DEF JobTyped, CurrentOp

LEMMA EmptyTyped == EmptyGroup \in Group
  BY DEF EmptyGroup, Group

LEMMA OpDoneTyped ==
  ASSUME TypeInv, NEW m \in Mons, job[m] # None,
         NEW ret \in {"none", "ok", "error", "raised"}
  PROVE  OpDone(m, ret) \in Job /\ JobTyped(OpDone(m, ret))
<1>1. /\ job[m] \in Job /\ JobTyped(job[m])
      /\ job[m].at \in 1 .. Len(Ops[job[m].req])
      /\ Len(Ops[job[m].req]) \in Nat
  BY JobFacts
<1>2. job[m].req \in Requests
  BY <1>1 DEF Job
<1>3. CASE job[m].at < Len(Ops[job[m].req])
  <2>1. OpDone(m, ret) =
          [req |-> job[m].req, at |-> job[m].at + 1, group |-> EmptyGroup, names |-> {},
           todo |-> job[m].todo, who |-> job[m].who, perm |-> job[m].perm,
           step |-> "op", ret |-> ret, failed |-> job[m].failed]
    BY <1>1, <1>3 DEF OpDone, Job
  <2>2. QED
    BY <1>1, <1>2, <1>3, <2>1, OpsTyped, EmptyTyped DEF Job, JobTyped
<1>4. CASE ~(job[m].at < Len(Ops[job[m].req]))
  <2>1. OpDone(m, ret) =
          [req |-> job[m].req, at |-> job[m].at, group |-> EmptyGroup, names |-> {},
           todo |-> job[m].todo, who |-> job[m].who, perm |-> job[m].perm,
           step |-> "reply", ret |-> ret, failed |-> job[m].failed]
    BY <1>1, <1>4 DEF OpDone, Job
  <2>2. QED
    BY <1>1, <1>2, <1>4, <2>1, OpsTyped, EmptyTyped DEF Job, JobTyped
<1>5. QED
  BY <1>3, <1>4

LEMMA NextStepTyped ==
  ASSUME TypeInv, NEW m \in Mons, job[m] # None, CurrentOp(m).group # None,
         NEW todo_ \in SUBSET Services
  PROVE  /\ NextStep(m, todo_) \in Job
         /\ JobTyped(NextStep(m, todo_))
         /\ NextStep(m, todo_).req = job[m].req
         /\ NextStep(m, todo_).step \notin {"saveService", "caps"}
<1>1. /\ job[m] \in Job /\ JobTyped(job[m])
      /\ OpDone(m, "ok") \in Job /\ JobTyped(OpDone(m, "ok"))
  BY JobFacts, OpDoneTyped
<1>2. OpDone(m, "ok").req = job[m].req /\ OpDone(m, "ok").step \in {"op", "reply"}
  BY <1>1 DEF OpDone, Job
<1>3. CASE todo_ # {}
  BY <1>1, <1>3 DEF NextStep, Job, JobTyped, CurrentOp
<1>4. CASE todo_ = {} /\ IsGrant(CurrentOp(m))
  <2>1. NextStep(m, todo_) = OpDone(m, "ok")
    BY <1>4 DEF NextStep
  <2>2. QED
    BY <1>1, <1>2, <2>1
<1>5. CASE todo_ = {} /\ ~IsGrant(CurrentOp(m))
  <2>1. NextStep(m, todo_) = [job[m] EXCEPT !.step = "pool", !.todo = {}]
    BY <1>5 DEF NextStep
  <2>2. QED
    BY <1>1, <1>5, <2>1 DEF Job, JobTyped, CurrentOp
<1>6. QED
  BY <1>3, <1>4, <1>5

\* The part of the types that the commands of a request may change.
RegistryTypeInv ==
  /\ RegistryTypeOK
  /\ services \in [Services -> SUBSET RecordedKeys]
  /\ \A m \in Mons : job[m] # None => serving[m] \in Clients /\ JobTyped(job[m])

LEMMA JobReplaced ==
  ASSUME TypeInv, NEW m \in Mons, NEW j \in Job, JobTyped(j),
         job' = [job EXCEPT ![m] = j], serving[m] \in Clients, UNCHANGED serving
  PROVE  /\ job' \in [Mons -> Job \cup {None}]
         /\ \A n \in Mons :
              job'[n] # None => serving'[n] \in Clients /\ JobTyped(job'[n])
BY DEF TypeInv, TypeOK, RegistryTypeOK

\* What replaces a job when the registry stays as it is.
LEMMA OnlyJob ==
  ASSUME TypeInv, NEW m \in Mons, NEW j \in Job, JobTyped(j), job[m] # None,
         job' = [job EXCEPT ![m] = j], UNCHANGED <<registryVars, serving>>
  PROVE  RegistryTypeInv'
<1>1. serving[m] \in Clients
  BY JobFacts
<1>2. /\ job' \in [Mons -> Job \cup {None}]
      /\ \A n \in Mons :
           job'[n] # None => serving'[n] \in Clients /\ JobTyped(job'[n])
  BY <1>1, JobReplaced
<1>3. QED
  BY <1>2 DEF RegistryTypeInv, RegistryTypeOK, TypeInv, TypeOK, registryVars

LEMMA EnrolledTyped ==
  ASSUME TypeInv, NEW m \in Mons, job[m] # None, CurrentOp(m).group # None
  PROVE  Enrolled(m) \in Group
<1>1. /\ job[m] \in Job /\ job[m].group \in Group
      /\ CurrentOp(m) \in Operation
  BY JobFacts DEF Job
<1>2. CASE IsGrant(CurrentOp(m))
  BY <1>1, <1>2, Kinds DEF Enrolled, Group
<1>3. CASE ~IsGrant(CurrentOp(m))
  BY <1>1, <1>3, Kinds DEF Enrolled, Group
<1>4. QED
  BY <1>2, <1>3

LEMMA CapsSetTyped ==
  ASSUME TypeInv, NEW m \in Mons, At(m, "caps")
  PROVE  CapsSet(m) \in Job /\ JobTyped(CapsSet(m))
<1> DEFINE n == NextStep(m, job[m].todo \ {job[m].who})
<1>1. job[m] # None /\ job[m] \in Job /\ JobTyped(job[m]) /\ job[m].step = "caps"
  BY JobFacts DEF At
<1>2. CurrentOp(m).group # None
  BY <1>1 DEF JobTyped, CurrentOp
<1>3. n \in Job /\ JobTyped(n) /\ n.step # "caps"
  <2>1. job[m].todo \ {job[m].who} \in SUBSET Services
    BY <1>1 DEF Job
  <2>2. QED
    BY <1>1, <1>2, <2>1, NextStepTyped
<1> HIDE DEF n
<1>4. [n EXCEPT !.who = None, !.perm = {}] \in Job
  BY <1>3 DEF Job
<1>5. JobTyped([n EXCEPT !.who = None, !.perm = {}])
  BY <1>3 DEF Job, JobTyped
<1>6. QED
  BY <1>4, <1>5 DEF CapsSet, n

LEMMA PermissionsTyped ==
  ASSUME TypeInv, NEW m \in Mons, At(m, "build"), BuildPermissions(m),
         UNCHANGED serving
  PROVE  RegistryTypeInv'
<1> DEFINE op == CurrentOp(m)
           found(s) == {LookupKey(k, op.ns) :
                          k \in IF IsGrant(op) THEN job[m].names ELSE services[s]}
           j(s) == [job[m] EXCEPT !.step = "caps", !.who = s,
                                  !.perm = UNION {groups[k].pools : k \in found(s)}]
<1>1. PICK s \in job[m].todo : job' = [job EXCEPT ![m] = j(s)]
  BY DEF BuildPermissions
<1>2. /\ job[m] \in Job /\ JobTyped(job[m]) /\ job[m] # None
      /\ op \in Operation /\ job[m].step = "build"
  BY JobFacts DEF At
<1>3. s \in Services
  BY <1>1, <1>2 DEF Job
<1>4. (IF IsGrant(op) THEN job[m].names ELSE services[s]) \subseteq RecordedKeys
  BY <1>2, <1>3 DEF TypeInv, JobTyped
<1>5. op.ns \in Namespaces \cup {None}
  BY <1>2, Kinds
<1>6. found(s) \subseteq GroupKeys
  BY <1>4, <1>5, LookupTyped
<1>7. UNION {groups[k].pools : k \in found(s)} \subseteq Pools
  <2> HIDE DEF found
  <2>1. groups \in [GroupKeys -> Group]
    BY DEF TypeInv, TypeOK, RegistryTypeOK
  <2>2. QED
    BY <1>6, <2>1 DEF Group
<1> HIDE DEF found
<1>8. j(s) \in Job
  BY <1>2, <1>3, <1>7 DEF Job
<1>9. JobTyped(j(s))
  BY <1>2, <1>3 DEF Job, JobTyped
<1> HIDE DEF j
<1>10. QED
  BY <1>1, <1>2, <1>8, <1>9, OnlyJob DEF BuildPermissions

LEMMA BeginOpTyped ==
  ASSUME TypeInv, NEW m \in Mons, BeginOp(m) \/ ReadFails(m), UNCHANGED serving
  PROVE  RegistryTypeInv'
<1> DEFINE op == CurrentOp(m)
<1>1. /\ job[m] \in Job /\ JobTyped(job[m]) /\ job[m] # None
      /\ op \in Operation /\ job[m].step = "op"
  BY JobFacts DEF At, BeginOp, ReadFails
<1>2. /\ groups \in [GroupKeys -> Group]
      /\ services \in [Services -> SUBSET RecordedKeys]
  BY DEF TypeInv, TypeOK, RegistryTypeOK
<1>3. ASSUME NEW g \in Group, NEW n \in SUBSET RecordedKeys, op.group # None,
             NEW f \in BOOLEAN,
             NEW j, j = [job[m] EXCEPT !.step = "saveGroup", !.group = g,
                                       !.names = n, !.failed = f]
      PROVE  j \in Job /\ JobTyped(j)
  BY <1>1, <1>3, KeysTyped DEF Job, JobTyped, CurrentOp
<1>4. CASE op.group = None /\ BeginOp(m)
  <2>1. ~IsGrant(op)
    BY <1>1, <1>4, Kinds
  <2>2. job' = [job EXCEPT ![m] = [job[m] EXCEPT !.step = "pool"]]
    BY <1>4 DEF BeginOp
  <2>3. /\ [job[m] EXCEPT !.step = "pool"] \in Job
        /\ JobTyped([job[m] EXCEPT !.step = "pool"])
    BY <1>1, <2>1 DEF Job, JobTyped, CurrentOp
  <2>4. QED
    BY <1>1, <1>4, <2>2, <2>3, OnlyJob DEF BeginOp
<1>5. ASSUME op.group # None
      PROVE  /\ groups[KeyOf(op)] \in Group
             /\ (IF IsGrant(op) THEN services[op.service] ELSE {})
                  \in SUBSET RecordedKeys
  BY <1>1, <1>2, <1>5, Kinds
<1>6. CASE op.group # None /\ BeginOp(m)
  <2> DEFINE g == groups[KeyOf(op)]
             n == IF IsGrant(op) THEN services[op.service] ELSE {}
             j == [job[m] EXCEPT !.step = "saveGroup", !.group = g, !.names = n]
  <2>1. job' = [job EXCEPT ![m] = j]
    BY <1>6 DEF BeginOp
  <2>2. j = [job[m] EXCEPT !.step = "saveGroup", !.group = g, !.names = n,
                           !.failed = job[m].failed]
    BY <1>1 DEF Job
  <2>3. job[m].failed \in BOOLEAN
    BY <1>1 DEF Job
  <2>4. g \in Group /\ n \in SUBSET RecordedKeys
    BY <1>5, <1>6
  <2> HIDE DEF g, n
  <2>5. j \in Job /\ JobTyped(j)
    BY <1>3, <1>6, <2>2, <2>3, <2>4
  <2>6. QED
    BY <1>1, <1>6, <2>1, <2>5, OnlyJob DEF BeginOp
<1>7. CASE ReadFails(m)
  <2>1. PICK g \in {groups[KeyOf(op)], EmptyGroup},
             n \in {IF IsGrant(op) THEN services[op.service] ELSE {}, {}} :
          job' = [job EXCEPT ![m].step = "saveGroup", ![m].group = g,
                             ![m].names = n, ![m].failed = TRUE]
    BY <1>7 DEF ReadFails
  <2> DEFINE j == [job[m] EXCEPT !.step = "saveGroup", !.group = g,
                                 !.names = n, !.failed = TRUE]
  <2>2. op.group # None
    BY <1>7 DEF ReadFails
  <2>3. g \in Group /\ n \in SUBSET RecordedKeys
    BY <1>5, <2>1, <2>2, EmptyTyped
  <2>4. j \in Job /\ JobTyped(j)
    BY <1>3, <2>2, <2>3
  <2>5. job \in [Mons -> Job \cup {None}]
    BY DEF TypeInv, TypeOK, RegistryTypeOK
  <2>6. job' = [job EXCEPT ![m] = j]
    BY <2>1, <2>5
  <2>7. QED
    BY <1>1, <1>7, <2>4, <2>6, OnlyJob DEF ReadFails
<1>8. QED
  BY <1>4, <1>6, <1>7 DEF ReadFails

LEMMA SaveGroupTyped ==
  ASSUME TypeInv, NEW m \in Mons, SaveGroup(m), UNCHANGED serving
  PROVE  RegistryTypeInv'
<1> DEFINE op == CurrentOp(m)
           j == IF IsGrant(op) THEN [job[m] EXCEPT !.step = "saveService"]
                               ELSE NextStep(m, job[m].group.services)
<1>1. /\ job[m] \in Job /\ JobTyped(job[m]) /\ job[m] # None
      /\ op \in Operation /\ job[m].step = "saveGroup" /\ serving[m] \in Clients
  BY JobFacts DEF At, SaveGroup
<1>2. op.group # None
  BY <1>1 DEF JobTyped, CurrentOp
<1>3. j \in Job /\ JobTyped(j)
  <2>1. CASE IsGrant(op)
    BY <1>1, <1>2, <2>1 DEF Job, JobTyped, CurrentOp
  <2>2. CASE ~IsGrant(op)
    <3>1. job[m].group.services \in SUBSET Services
      BY <1>1 DEF Job, Group
    <3>2. QED
      BY <1>1, <1>2, <2>2, <3>1, NextStepTyped
  <2>3. QED
    BY <2>1, <2>2
<1>4. job' = [job EXCEPT ![m] = j]
  BY DEF SaveGroup
<1> HIDE DEF j
<1>5. /\ job' \in [Mons -> Job \cup {None}]
      /\ \A n \in Mons :
           job'[n] # None => serving'[n] \in Clients /\ JobTyped(job'[n])
  BY <1>1, <1>3, <1>4, JobReplaced
<1>6. groups' \in [GroupKeys -> Group]
  <2>1. groups' = [groups EXCEPT ![KeyOf(op)] = Enrolled(m)]
    BY DEF SaveGroup
  <2>2. Enrolled(m) \in Group
    BY <1>1, <1>2, EnrolledTyped
  <2>3. QED
    BY <2>1, <2>2 DEF TypeInv, TypeOK, RegistryTypeOK
<1>7. QED
  BY <1>5, <1>6 DEF SaveGroup, RegistryTypeInv, TypeInv, TypeOK, RegistryTypeOK

LEMMA SaveServiceTyped ==
  ASSUME TypeInv, NEW m \in Mons, SaveService(m), UNCHANGED serving
  PROVE  RegistryTypeInv'
<1> DEFINE op == CurrentOp(m)
           names == job[m].names \cup {KeyOf(op)}
           n == NextStep(m, {op.service})
<1>1. /\ job[m] \in Job /\ JobTyped(job[m]) /\ job[m] # None
      /\ op \in Operation /\ job[m].step = "saveService" /\ serving[m] \in Clients
  BY JobFacts DEF At, SaveService
<1>2. op.group # None /\ IsGrant(op)
  BY <1>1 DEF JobTyped, CurrentOp
<1>3. op.service \in Services /\ names \subseteq RecordedKeys
  BY <1>1, <1>2, Kinds DEF JobTyped
<1>4. n \in Job /\ JobTyped(n) /\ n.step # "saveService"
  BY <1>1, <1>2, <1>3, NextStepTyped
<1>5. /\ job' = [job EXCEPT ![m] = [n EXCEPT !.names = names]]
      /\ services' = [services EXCEPT ![op.service] = names]
      /\ UNCHANGED <<groups, caps, pools>>
  BY DEF SaveService
<1> HIDE DEF n, names
<1>6. [n EXCEPT !.names = names] \in Job /\ JobTyped([n EXCEPT !.names = names])
  BY <1>3, <1>4, KeysTyped DEF Job, JobTyped
<1>7. /\ job' \in [Mons -> Job \cup {None}]
      /\ \A i \in Mons :
           job'[i] # None => serving'[i] \in Clients /\ JobTyped(job'[i])
  BY <1>1, <1>5, <1>6, JobReplaced
<1>8. /\ services' \in [Services -> SUBSET RecordedKeys]
      /\ services' \in [Services -> SUBSET GroupKeys]
  BY <1>3, <1>5, KeysTyped DEF TypeInv, TypeOK, RegistryTypeOK
<1>9. QED
  BY <1>5, <1>7, <1>8 DEF RegistryTypeInv, TypeInv, TypeOK, RegistryTypeOK

LEMMA CommandTyped ==
  ASSUME TypeInv, NEW m \in Mons, Command(m) \/ CommandFails(m), UNCHANGED serving
  PROVE  RegistryTypeInv'
<1>1. CASE BeginOp(m) \/ ReadFails(m)
  BY <1>1, BeginOpTyped
<1>2. CASE SaveGroup(m)
  BY <1>2, SaveGroupTyped
<1>3. CASE SaveService(m)
  BY <1>3, SaveServiceTyped
<1>4. CASE BuildPermissions(m)
  BY <1>4, PermissionsTyped DEF BuildPermissions
<1>5. CASE SetCaps(m)
  <2>1. CapsSet(m) \in Job /\ JobTyped(CapsSet(m))
    BY <1>5, CapsSetTyped DEF SetCaps
  <2>2. job[m] # None /\ job[m] \in Job /\ JobTyped(job[m]) /\ serving[m] \in Clients
        /\ job[m].step = "caps"
    BY <1>5, JobFacts DEF SetCaps, At
  <2>3. /\ job' \in [Mons -> Job \cup {None}]
        /\ \A n \in Mons :
             job'[n] # None => serving'[n] \in Clients /\ JobTyped(job'[n])
    BY <1>5, <2>1, <2>2, JobReplaced DEF SetCaps
  <2>4. caps' \in [Services -> SUBSET Pools]
    BY <1>5, <2>2 DEF SetCaps, Job, JobTyped, TypeInv, TypeOK, RegistryTypeOK
  <2>5. QED
    BY <1>5, <2>3, <2>4 DEF SetCaps, RegistryTypeInv, TypeInv, TypeOK, RegistryTypeOK
<1>6. CASE SetCapsFails(m)
  <2> DEFINE n == CapsSet(m)
  <2>1. n \in Job /\ JobTyped(n)
    BY <1>6, CapsSetTyped DEF SetCapsFails
  <2> HIDE DEF n
  <2>2. [n EXCEPT !.failed = TRUE] \in Job /\ JobTyped([n EXCEPT !.failed = TRUE])
    BY <2>1 DEF Job, JobTyped
  <2>3. job[m] # None /\ job' = [job EXCEPT ![m] = [n EXCEPT !.failed = TRUE]]
    BY <1>6 DEF SetCapsFails, At, n
  <2>4. QED
    BY <1>6, <2>2, <2>3, OnlyJob DEF SetCapsFails
<1>7. CASE CreatePool(m)
  <2>1. job[m] # None /\ job[m] \in Job /\ JobTyped(job[m]) /\ serving[m] \in Clients
        /\ job[m].step = "pool" /\ CurrentOp(m) \in Operation
    BY <1>7, JobFacts DEF CreatePool, At
  <2>2. OpDone(m, "ok") \in Job /\ JobTyped(OpDone(m, "ok"))
    BY <2>1, OpDoneTyped
  <2>3. /\ job' \in [Mons -> Job \cup {None}]
        /\ \A n \in Mons :
             job'[n] # None => serving'[n] \in Clients /\ JobTyped(job'[n])
    BY <1>7, <2>1, <2>2, JobReplaced DEF CreatePool
  <2>4. CurrentOp(m).pool \in Pools
    BY <2>1, Kinds DEF JobTyped, CurrentOp
  <2>5. QED
    BY <1>7, <2>3, <2>4 DEF CreatePool, RegistryTypeInv, TypeInv, TypeOK,
       RegistryTypeOK
<1>8. CASE OpReturnsError(m)
  <2> DEFINE n == OpDone(m, "error")
  <2>1. job[m] # None
    BY <1>8 DEF OpReturnsError, At
  <2>2. n \in Job /\ JobTyped(n)
    BY <2>1, OpDoneTyped
  <2>3. job' = [job EXCEPT ![m] = [n EXCEPT !.failed = TRUE]]
    BY <1>8 DEF OpReturnsError
  <2> HIDE DEF n
  <2>4. [n EXCEPT !.failed = TRUE] \in Job /\ JobTyped([n EXCEPT !.failed = TRUE])
    BY <2>2 DEF Job, JobTyped
  <2>5. QED
    BY <1>8, <2>1, <2>3, <2>4, OnlyJob DEF OpReturnsError
<1>9. CASE OpRaises(m)
  <2> DEFINE j == [job[m] EXCEPT !.step = "reply", !.ret = "raised", !.failed = TRUE,
                                 !.group = EmptyGroup, !.names = {}]
  <2>1. job[m] # None /\ job[m] \in Job /\ JobTyped(job[m])
    BY <1>9, JobFacts DEF OpRaises
  <2>2. job \in [Mons -> Job \cup {None}]
    BY DEF TypeInv, TypeOK, RegistryTypeOK
  <2>3. job' = [job EXCEPT ![m] = j]
    BY <1>9, <2>2 DEF OpRaises
  <2>4. j \in Job /\ JobTyped(j)
    BY <2>1, EmptyTyped DEF Job, JobTyped
  <2>5. QED
    BY <1>9, <2>1, <2>3, <2>4, OnlyJob DEF OpRaises
<1>10. QED
  BY <1>1, <1>2, <1>3, <1>4, <1>5, <1>6, <1>7, <1>8, <1>9 DEF Command, CommandFails

LEMMA TypeInit == Init => TypeInv
<1> SUFFICES ASSUME Init PROVE TypeInv
  OBVIOUS
<1>1. TypeOK
  BY EmptyTyped, BrokerAssumption
     DEF Init, RegistryInit, TypeOK, RegistryTypeOK, Events, Disturbances
<1>2. QED
  BY <1>1 DEF Init, RegistryInit, TypeInv

\* The variables outside the registry.
HookTypeOK ==
  /\ leader \in Mons \cup {None}
  /\ osds \in BOOLEAN /\ bootstrapped \in BOOLEAN
  /\ sent \in [Clients -> Requests]
  /\ rsp \in [Mons -> [Clients -> Response \cup {None}]]
  /\ out \in [Mons -> [Clients -> Response \cup {None}]]
  /\ tell \in [Mons -> BOOLEAN]
  /\ wake \in [Mons -> SUBSET Events]
  /\ event \in [Mons -> Events \cup {None}]
  /\ pc \in [Mons -> {"idle", "run", "failed"}]
  /\ todo \in [Mons -> SUBSET Clients]
  /\ serving \in [Mons -> Clients \cup {None}]
  /\ spent \in [Disturbances -> Nat]

LEMMA TypeParts == HookTypeOK' /\ RegistryTypeInv' => TypeInv'
  BY DEF TypeInv, TypeOK, HookTypeOK, RegistryTypeInv

LEMMA RegistryKept ==
  ASSUME TypeInv, UNCHANGED <<registryVars, job, serving>>
  PROVE  RegistryTypeInv'
  BY DEF TypeInv, TypeOK, RegistryTypeOK, RegistryTypeInv, registryVars

LEMMA WakeTyped ==
  ASSUME TypeInv, NEW ms, NEW e \in Events, WakeAll(ms, e)
  PROVE  wake' \in [Mons -> SUBSET Events]
  BY DEF TypeInv, TypeOK, WakeAll

LEMMA SpendTyped ==
  ASSUME TypeInv, NEW what \in Disturbances, NEW limit, Spend(what, limit)
  PROVE  spent' \in [Disturbances -> Nat]
  BY DEF TypeInv, TypeOK, Spend

LEMMA RunTyped ==
  ASSUME TypeInv, NEW m \in Mons, NEW e \in Events, Run(m, e)
  PROVE  TypeInv'
<1>1. RegistryTypeInv'
  BY RegistryKept DEF Run
<1>2. wake' \in [Mons -> SUBSET Events]
  <2>1. "refresh" \in Events
    BY DEF Events
  <2>2. QED
    BY <2>1 DEF Run, TypeInv, TypeOK
<1>3. todo' \in [Mons -> SUBSET Clients]
  BY DEF Run, Targets, TypeInv, TypeOK
<1>4. bootstrapped' \in BOOLEAN
  BY DEF Run, ReadyForService, TypeInv, TypeOK
<1>5. HookTypeOK'
  BY <1>2, <1>3, <1>4 DEF Run, TypeInv, TypeOK, HookTypeOK
<1>6. QED
  BY <1>1, <1>5, TypeParts

LEMMA HookStepTyped ==
  ASSUME TypeInv, NEW m \in Mons, HookStep(m)
  PROVE  TypeInv'
<1>1. CASE BeginHook(m)
  BY <1>1, RunTyped DEF BeginHook, TypeInv, TypeOK
<1>2. CASE RetryHook(m)
  <2>1. CASE event[m] \in Events
    BY <1>2, <2>1, RunTyped DEF RetryHook
  <2>2. CASE event[m] \notin Events
    <3>1. event[m] = None /\ Targets(None) \subseteq Clients
      BY <2>2 DEF TypeInv, TypeOK, Targets
    <3>2. RegistryTypeInv'
      BY <1>2, RegistryKept DEF Run, RetryHook
    <3>3. "refresh" \in Events
      BY DEF Events
    <3>4. HookTypeOK'
      BY <1>2, <3>1, <3>3
         DEF Run, RetryHook, ReadyForService, TypeInv, TypeOK, HookTypeOK
    <3>5. QED
      BY <3>2, <3>4, TypeParts
  <2>3. QED
    BY <2>1, <2>2
<1>3. ASSUME NEW c \in Clients, IgnoreRequest(m, c) PROVE TypeInv'
  <2>1. RegistryTypeInv'
    BY <1>3, RegistryKept DEF IgnoreRequest
  <2>2. HookTypeOK'
    BY <1>3 DEF IgnoreRequest, Considers, TypeInv, TypeOK, HookTypeOK
  <2>3. QED
    BY <2>1, <2>2, TypeParts
<1>4. ASSUME NEW c \in Clients, ServeRequest(m, c) PROVE TypeInv'
  <2> DEFINE j == [req |-> sent[c], at |-> 1, step |-> "op", group |-> EmptyGroup,
                   names |-> {}, todo |-> {}, who |-> None, perm |-> {},
                   ret |-> "none", failed |-> FALSE]
  <2>1. job' = [job EXCEPT ![m] = j]
    BY <1>4 DEF ServeRequest, StartJob
  <2>2. sent[c] \in Requests
    BY DEF TypeInv, TypeOK
  <2>3. j \in Job /\ JobTyped(j)
    BY <2>2, EmptyTyped, OpsTyped DEF Job, JobTyped
  <2>4. serving' = [serving EXCEPT ![m] = c]
    BY <1>4 DEF ServeRequest
  <2> HIDE DEF j
  <2>5. RegistryTypeInv'
    BY <1>4, <2>1, <2>3, <2>4
       DEF ServeRequest, registryVars, TypeInv, TypeOK, RegistryTypeInv, RegistryTypeOK
  <2>6. HookTypeOK'
    BY <1>4, <2>4 DEF ServeRequest, Considers, TypeInv, TypeOK, HookTypeOK
  <2>7. QED
    BY <2>5, <2>6, TypeParts
<1>5. CASE RunCommand(m)
  <2>1. RegistryTypeInv'
    BY <1>5, CommandTyped DEF RunCommand, hookVars
  <2>2. HookTypeOK'
    BY <1>5 DEF RunCommand, hookVars, TypeInv, TypeOK, HookTypeOK
  <2>3. QED
    BY <2>1, <2>2, TypeParts
<1>6. CASE Respond(m)
  <2>1. job[m] # None /\ job[m].req \in Requests /\ serving[m] \in Clients
    BY <1>6, JobFacts DEF Respond, At, Job
  <2>2. Answer(job[m]) \in Response
    BY <2>1 DEF Response, Answer
  <2>3. RegistryTypeInv'
    BY <1>6 DEF Respond, registryVars, TypeInv, TypeOK, RegistryTypeInv, RegistryTypeOK
  <2>4. out' \in [Mons -> [Clients -> Response \cup {None}]]
    BY <1>6, <2>1, <2>2 DEF Respond, TypeInv, TypeOK
  <2>5. tell' \in [Mons -> BOOLEAN]
    BY <1>6, BrokerAssumption DEF Respond, TypeInv, TypeOK
  <2>6. HookTypeOK'
    BY <1>6, <2>4, <2>5 DEF Respond, TypeInv, TypeOK, HookTypeOK
  <2>7. QED
    BY <2>3, <2>6, TypeParts
<1>7. CASE Commit(m)
  <2>1. RegistryTypeInv'
    BY <1>7, RegistryKept DEF Commit
  <2>2. wake' \in [Mons -> SUBSET Events]
    BY <1>7, WakeTyped DEF Commit, Events, TypeInv, TypeOK
  <2>3. rsp' \in [Mons -> [Clients -> Response \cup {None}]]
    BY <1>7 DEF Commit, TypeInv, TypeOK
  <2>4. HookTypeOK'
    BY <1>7, <2>2, <2>3 DEF Commit, DropWrites, TypeInv, TypeOK, HookTypeOK
  <2>5. QED
    BY <2>1, <2>4, TypeParts
<1>8. QED
  BY <1>1, <1>2, <1>3, <1>4, <1>5, <1>6, <1>7 DEF HookStep

LEMMA EnvironmentTyped ==
  ASSUME TypeInv, Environment
  PROVE  TypeInv'
<1>1. ASSUME NEW c \in Clients, ChangeRequest(c) PROVE TypeInv'
  <2>1. RegistryTypeInv'
    BY <1>1, RegistryKept DEF ChangeRequest, hookVars
  <2>2. sent' \in [Clients -> Requests]
    <3>1. PICK r \in RequestsOf[c] \ {sent[c]} : sent' = [sent EXCEPT ![c] = r]
      BY <1>1 DEF ChangeRequest
    <3>2. r \in Requests
      BY BrokerAssumption
    <3>3. QED
      BY <3>1, <3>2 DEF TypeInv, TypeOK
  <2>3. wake' \in [Mons -> SUBSET Events] /\ spent' \in [Disturbances -> Nat]
    BY <1>1, WakeTyped, SpendTyped DEF ChangeRequest, Events, Disturbances
  <2>4. HookTypeOK'
    BY <1>1, <2>2, <2>3 DEF ChangeRequest, hookVars, TypeInv, TypeOK, HookTypeOK
  <2>5. QED
    BY <2>1, <2>4, TypeParts
<1>2. CASE OsdsBootstrapped
  <2>1. RegistryTypeInv'
    BY <1>2, RegistryKept DEF OsdsBootstrapped, hookVars
  <2>2. wake' \in [Mons -> SUBSET Events]
    BY <1>2, WakeTyped DEF OsdsBootstrapped, Events
  <2>3. HookTypeOK'
    BY <1>2, <2>2 DEF OsdsBootstrapped, hookVars, TypeInv, TypeOK, HookTypeOK
  <2>4. QED
    BY <2>1, <2>3, TypeParts
<1>3. CASE LoseLeader
  <2>1. RegistryTypeInv'
    BY <1>3, RegistryKept DEF LoseLeader, hookVars
  <2>2. spent' \in [Disturbances -> Nat]
    BY <1>3, SpendTyped DEF LoseLeader, Disturbances
  <2>3. HookTypeOK'
    BY <1>3, <2>2 DEF LoseLeader, hookVars, TypeInv, TypeOK, HookTypeOK
  <2>4. QED
    BY <2>1, <2>3, TypeParts
<1>4. ASSUME NEW m \in Mons, UpgradeCharm(m) PROVE TypeInv'
  <2>1. RegistryTypeInv'
    BY <1>4, RegistryKept DEF UpgradeCharm, hookVars
  <2>2. wake' \in [Mons -> SUBSET Events] /\ spent' \in [Disturbances -> Nat]
    BY <1>4, WakeTyped, SpendTyped DEF UpgradeCharm, Events, Disturbances
  <2>3. HookTypeOK'
    BY <1>4, <2>2 DEF UpgradeCharm, hookVars, TypeInv, TypeOK, HookTypeOK
  <2>4. QED
    BY <2>1, <2>3, TypeParts
<1>5. ASSUME NEW m \in Mons, ElectLeader(m) PROVE TypeInv'
  <2>1. RegistryTypeInv'
    BY <1>5, RegistryKept DEF ElectLeader, hookVars
  <2>2. HookTypeOK'
    BY <1>5 DEF ElectLeader, hookVars, TypeInv, TypeOK, HookTypeOK
  <2>3. QED
    BY <2>1, <2>2, TypeParts
<1>6. ASSUME NEW m \in Mons, Crash(m) PROVE TypeInv'
  <2>1. RegistryTypeInv'
    BY <1>6 DEF Crash, registryVars, TypeInv, TypeOK, RegistryTypeInv, RegistryTypeOK
  <2>2. spent' \in [Disturbances -> Nat]
    BY <1>6, SpendTyped DEF Crash, Disturbances
  <2>3. HookTypeOK'
    BY <1>6, <2>2 DEF Crash, DropWrites, TypeInv, TypeOK, HookTypeOK
  <2>4. QED
    BY <2>1, <2>3, TypeParts
<1>7. ASSUME NEW m \in Mons, FailCommand(m) PROVE TypeInv'
  <2>1. RegistryTypeInv'
    BY <1>7, CommandTyped DEF FailCommand, hookVars
  <2>2. spent' \in [Disturbances -> Nat]
    BY <1>7, SpendTyped DEF FailCommand, Disturbances
  <2>3. HookTypeOK'
    BY <1>7, <2>2 DEF FailCommand, hookVars, TypeInv, TypeOK, HookTypeOK
  <2>4. QED
    BY <2>1, <2>3, TypeParts
<1>8. QED
  BY <1>1, <1>2, <1>3, <1>4, <1>5, <1>6, <1>7 DEF Environment

LEMMA TypeStep == TypeInv /\ [Next]_vars => TypeInv'
<1>1. ASSUME TypeInv, UNCHANGED vars PROVE TypeInv'
  <2>1. RegistryTypeInv'
    BY <1>1, RegistryKept DEF vars, hookVars
  <2>2. HookTypeOK'
    BY <1>1 DEF vars, hookVars, TypeInv, TypeOK, HookTypeOK
  <2>3. QED
    BY <2>1, <2>2, TypeParts
<1>2. QED
  BY <1>1, HookStepTyped, EnvironmentTyped DEF Next

\* Every variable of the broker keeps its type; in particular no group is
\* looked up under a name that cannot exist, with or without namespaces.
THEOREM BrokerTyped == Spec => []TypeOK
<1>1. TypeInv => TypeOK
  BY DEF TypeInv
<1>2. QED
  BY <1>1, TypeInit, TypeStep, PTL DEF Spec

--------------------------------------------------------------------------------
(* What each command does to the job of the unit that carries it out, and   *)
(* to the registry.                                                         *)

\* The job comes to a step of the same operation, or to the end of it.
GoesTo(m, step) ==
  job'[m].req = job[m].req /\ job'[m].at = job[m].at /\ job'[m].step = step

Finishes(m, ret) ==
  /\ job'[m].req = job[m].req /\ job'[m].ret = ret
  /\ \/ job'[m].step = "op" /\ job'[m].at = job[m].at + 1
     \/ /\ job'[m].step = "reply" /\ job'[m].at = job[m].at
        /\ job[m].at = Len(Ops[job[m].req])

OthersStay(m) == \A n \in Mons \ {m} : job'[n] = job[n]

LEMMA Replaced ==
  ASSUME TypeInv, NEW m \in Mons, NEW j, job' = [job EXCEPT ![m] = j]
  PROVE  job'[m] = j /\ OthersStay(m)
BY DEF TypeInv, TypeOK, RegistryTypeOK, OthersStay

LEMMA OpDoneFields ==
  ASSUME TypeInv, NEW m \in Mons, job[m] # None, NEW ret
  PROVE  /\ OpDone(m, ret).req = job[m].req
         /\ OpDone(m, ret).ret = ret
         /\ \/ OpDone(m, ret).step = "op" /\ OpDone(m, ret).at = job[m].at + 1
            \/ /\ OpDone(m, ret).step = "reply" /\ OpDone(m, ret).at = job[m].at
               /\ job[m].at = Len(Ops[job[m].req])
<1>1. /\ job[m] \in Job /\ job[m].at \in 1 .. Len(Ops[job[m].req])
      /\ Len(Ops[job[m].req]) \in Nat
  BY JobFacts
<1>2. CASE job[m].at < Len(Ops[job[m].req])
  BY <1>1, <1>2 DEF OpDone, Job
<1>3. CASE ~(job[m].at < Len(Ops[job[m].req]))
  BY <1>1, <1>3 DEF OpDone, Job
<1>4. QED
  BY <1>2, <1>3

LEMMA NextStepFields ==
  ASSUME TypeInv, NEW m \in Mons, job[m] # None, NEW todo_
  PROVE  /\ todo_ # {} =>
              NextStep(m, todo_) = [job[m] EXCEPT !.step = "build", !.todo = todo_]
         /\ todo_ = {} /\ IsGrant(CurrentOp(m)) => NextStep(m, todo_) = OpDone(m, "ok")
         /\ todo_ = {} /\ ~IsGrant(CurrentOp(m)) =>
              NextStep(m, todo_) = [job[m] EXCEPT !.step = "pool", !.todo = {}]
BY DEF NextStep

LEMMA ReadDoes ==
  ASSUME TypeInv, NEW m \in Mons, BeginOp(m) \/ ReadFails(m)
  PROVE  LET op == CurrentOp(m)
             group == groups[KeyOf(op)]
             names == IF IsGrant(op) THEN services[op.service] ELSE {}
         IN /\ job[m] # None /\ job[m].step = "op" /\ OthersStay(m)
            /\ UNCHANGED registryVars
            /\ \/ op.group = None /\ GoesTo(m, "pool")
               \/ /\ op.group # None /\ GoesTo(m, "saveGroup")
                  /\ job'[m].group \in {group, EmptyGroup}
                  /\ job'[m].names \in {names, {}}
                  /\ BeginOp(m) => job'[m].group = group /\ job'[m].names = names
<1> DEFINE op == CurrentOp(m)
           group == groups[KeyOf(op)]
           names == IF IsGrant(op) THEN services[op.service] ELSE {}
<1>1. /\ job[m] # None /\ job[m].step = "op" /\ job[m] \in Job
      /\ UNCHANGED registryVars
  BY JobFacts DEF BeginOp, ReadFails, At
<1>2. CASE BeginOp(m) /\ op.group = None
  <2>1. job' = [job EXCEPT ![m] = [job[m] EXCEPT !.step = "pool"]]
    BY <1>2 DEF BeginOp
  <2>2. job'[m] = [job[m] EXCEPT !.step = "pool"] /\ OthersStay(m)
    BY <2>1, Replaced
  <2>3. GoesTo(m, "pool")
    BY <1>1, <2>2 DEF GoesTo, Job
  <2>4. QED
    BY <1>1, <1>2, <2>2, <2>3
<1>3. CASE BeginOp(m) /\ op.group # None
  <2> DEFINE j == [job[m] EXCEPT !.step = "saveGroup", !.group = group,
                                 !.names = names]
  <2>1. job' = [job EXCEPT ![m] = j]
    BY <1>3 DEF BeginOp
  <2> HIDE DEF group, names
  <2>2. job'[m] = j /\ OthersStay(m)
    BY <2>1, Replaced
  <2>3. GoesTo(m, "saveGroup") /\ job'[m].group = group /\ job'[m].names = names
    BY <1>1, <2>2 DEF GoesTo, Job
  <2>4. QED
    BY <1>1, <1>3, <2>2, <2>3 DEF group, names
<1>4. CASE ReadFails(m)
  <2>1. PICK g \in {group, EmptyGroup}, n \in {names, {}} :
          job' = [job EXCEPT ![m].step = "saveGroup", ![m].group = g,
                             ![m].names = n, ![m].failed = TRUE]
    BY <1>4 DEF ReadFails
  <2> DEFINE j == [job[m] EXCEPT !.step = "saveGroup", !.group = g,
                                 !.names = n, !.failed = TRUE]
  <2>2. job \in [Mons -> Job \cup {None}]
    BY DEF TypeInv, TypeOK, RegistryTypeOK
  <2>3. job' = [job EXCEPT ![m] = j]
    BY <2>1, <2>2
  <2>4. job'[m] = j /\ OthersStay(m)
    BY <2>3, Replaced
  <2>5. GoesTo(m, "saveGroup") /\ job'[m].group = g /\ job'[m].names = n
    BY <1>1, <2>4 DEF GoesTo, Job
  <2>6. \/ op.group # None /\ ~BeginOp(m)
        \/ job'[m].group = group /\ job'[m].names = names
    <3>1. op.group # None
      BY <1>4 DEF ReadFails
    <3>2. CASE BeginOp(m)
      BY <1>3, <3>1, <3>2, <1>1 DEF BeginOp, GoesTo
    <3>3. QED
      BY <3>1, <3>2
  <2>7. QED
    BY <1>1, <1>4, <2>1, <2>4, <2>5, <2>6 DEF ReadFails
<1>5. QED
  BY <1>2, <1>3, <1>4

LEMMA SaveGroupDoes ==
  ASSUME TypeInv, NEW m \in Mons, SaveGroup(m)
  PROVE  LET op == CurrentOp(m)
             k == KeyOf(op)
             read == job[m].group
         IN /\ job[m] # None /\ job[m].step = "saveGroup" /\ OthersStay(m)
            /\ op.group # None /\ k \in RecordedKeys /\ k \in GroupKeys
            /\ read \in Group
            /\ groups'[k].services = IF IsGrant(op) THEN read.services \cup {op.service}
                                                    ELSE read.services
            /\ groups'[k].pools = IF IsGrant(op) THEN read.pools
                                                 ELSE read.pools \cup {op.pool}
            /\ \A i \in GroupKeys \ {k} : groups'[i] = groups[i]
            /\ UNCHANGED <<services, caps, pools>>
            /\ IsGrant(op) => GoesTo(m, "saveService") /\ job'[m].names = job[m].names
            /\ ~IsGrant(op) =>
                 /\ \/ GoesTo(m, "build")
                    \/ GoesTo(m, "pool") /\ read.services = {}
                 /\ job'[m].todo = read.services
<1> DEFINE op == CurrentOp(m)
           k == KeyOf(op)
           read == job[m].group
           j == IF IsGrant(op) THEN [job[m] EXCEPT !.step = "saveService"]
                               ELSE NextStep(m, read.services)
<1>1. /\ job[m] # None /\ job[m] \in Job /\ JobTyped(job[m])
      /\ op \in Operation /\ job[m].step = "saveGroup"
  BY JobFacts DEF At, SaveGroup
<1>2. op.group # None /\ k \in RecordedKeys /\ k \in GroupKeys /\ read \in Group
  BY <1>1, Kinds DEF JobTyped, CurrentOp, Job
<1>3. /\ groups' = [groups EXCEPT ![k] = Enrolled(m)] /\ job' = [job EXCEPT ![m] = j]
      /\ UNCHANGED <<services, caps, pools>>
  BY DEF SaveGroup
<1>4. groups'[k] = Enrolled(m) /\ \A i \in GroupKeys \ {k} : groups'[i] = groups[i]
  BY <1>2, <1>3 DEF TypeInv, TypeOK, RegistryTypeOK
<1>5. /\ groups'[k].services = IF IsGrant(op) THEN read.services \cup {op.service}
                                              ELSE read.services
      /\ groups'[k].pools = IF IsGrant(op) THEN read.pools ELSE read.pools \cup {op.pool}
  <2>1. groups'[k] = IF IsGrant(op) THEN [read EXCEPT !.services = @ \cup {op.service}]
                                    ELSE [read EXCEPT !.pools = @ \cup {op.pool}]
    BY <1>4 DEF Enrolled
  <2> HIDE DEF k, op, read
  <2>2. QED
    BY <1>2, <2>1 DEF Group
<1>6. job'[m] = j /\ OthersStay(m)
  BY <1>3, Replaced
<1>7. CASE IsGrant(op)
  <2>1. job'[m] = [job[m] EXCEPT !.step = "saveService"]
    BY <1>6, <1>7
  <2>2. GoesTo(m, "saveService") /\ job'[m].names = job[m].names
    BY <1>1, <2>1 DEF GoesTo, Job
  <2>3. QED
    BY <1>1, <1>2, <1>3, <1>4, <1>5, <1>6, <1>7, <2>2
<1>8. CASE ~IsGrant(op)
  <2>1. /\ read.services # {} =>
             job'[m] = [job[m] EXCEPT !.step = "build", !.todo = read.services]
        /\ read.services = {} =>
             job'[m] = [job[m] EXCEPT !.step = "pool", !.todo = {}]
    BY <1>1, <1>6, <1>8, NextStepFields
  <2>2. /\ \/ GoesTo(m, "build")
           \/ GoesTo(m, "pool") /\ read.services = {}
        /\ job'[m].todo = read.services
    <3> HIDE DEF read
    <3>1. QED
      BY <1>1, <2>1 DEF GoesTo, Job
  <2>3. QED
    BY <1>1, <1>2, <1>3, <1>4, <1>5, <1>6, <1>8, <2>2
<1>9. QED
  BY <1>7, <1>8

LEMMA SaveServiceDoes ==
  ASSUME TypeInv, NEW m \in Mons, SaveService(m)
  PROVE  LET op == CurrentOp(m)
             k == KeyOf(op)
         IN /\ job[m] # None /\ job[m].step = "saveService" /\ OthersStay(m)
            /\ IsGrant(op) /\ op.service \in Services /\ k \in RecordedKeys
            /\ services'[op.service] = job[m].names \cup {k}
            /\ \A s \in Services \ {op.service} : services'[s] = services[s]
            /\ UNCHANGED <<groups, caps, pools>>
            /\ GoesTo(m, "build") /\ job'[m].todo = {op.service}
            /\ job'[m].names = job[m].names \cup {k}
<1> DEFINE op == CurrentOp(m)
           k == KeyOf(op)
           names == job[m].names \cup {k}
           n == NextStep(m, {op.service})
           j == [n EXCEPT !.names = names]
<1>1. /\ job[m] # None /\ job[m] \in Job /\ JobTyped(job[m])
      /\ op \in Operation /\ job[m].step = "saveService"
  BY JobFacts DEF At, SaveService
<1>2. IsGrant(op) /\ op.service \in Services /\ k \in RecordedKeys
  BY <1>1, Kinds DEF JobTyped, CurrentOp
<1>3. /\ services' = [services EXCEPT ![op.service] = names]
      /\ job' = [job EXCEPT ![m] = j]
      /\ UNCHANGED <<groups, caps, pools>>
  BY DEF SaveService
<1>4. /\ services'[op.service] = names
      /\ \A s \in Services \ {op.service} : services'[s] = services[s]
  BY <1>2, <1>3 DEF TypeInv, TypeOK, RegistryTypeOK
<1>5. n = [job[m] EXCEPT !.step = "build", !.todo = {op.service}]
  BY <1>1, NextStepFields
<1>6. job'[m] = j /\ OthersStay(m)
  BY <1>3, Replaced
<1>7. /\ GoesTo(m, "build") /\ job'[m].todo = {op.service} /\ job'[m].names = names
  <2> HIDE DEF names, op, n
  <2>1. QED
    BY <1>1, <1>5, <1>6 DEF GoesTo, Job
<1>8. QED
  BY <1>1, <1>2, <1>3, <1>4, <1>6, <1>7

LEMMA BuildDoes ==
  ASSUME TypeInv, NEW m \in Mons, BuildPermissions(m)
  PROVE  LET op == CurrentOp(m)
             who == job'[m].who
             names == IF IsGrant(op) THEN job[m].names ELSE services[who]
         IN /\ job[m] # None /\ job[m].step = "build" /\ OthersStay(m)
            /\ op.group # None /\ UNCHANGED registryVars
            /\ GoesTo(m, "caps") /\ job'[m].todo = job[m].todo
            /\ job'[m].names = job[m].names
            /\ who \in job[m].todo /\ who \in Services
            /\ job'[m].perm = PoolsFor({LookupKey(i, op.ns) : i \in names})
<1> DEFINE op == CurrentOp(m)
           names(s) == IF IsGrant(op) THEN job[m].names ELSE services[s]
           perm(s) == PoolsFor({LookupKey(i, op.ns) : i \in names(s)})
           j(s) == [job[m] EXCEPT !.step = "caps", !.who = s, !.perm = perm(s)]
<1>1. /\ job[m] # None /\ job[m] \in Job /\ JobTyped(job[m])
      /\ op \in Operation /\ job[m].step = "build" /\ UNCHANGED registryVars
  BY JobFacts DEF At, BuildPermissions
<1>2. PICK s \in job[m].todo : job' = [job EXCEPT ![m] = j(s)]
  BY DEF BuildPermissions, PoolsFor
<1>3. s \in Services /\ op.group # None
  BY <1>1, <1>2 DEF Job, JobTyped, CurrentOp
<1> HIDE DEF perm
<1>4. job'[m] = j(s) /\ OthersStay(m)
  BY <1>2, Replaced
<1>5. /\ GoesTo(m, "caps") /\ job'[m].todo = job[m].todo
      /\ job'[m].names = job[m].names
      /\ job'[m].who = s /\ job'[m].perm = perm(s)
  BY <1>1, <1>4 DEF GoesTo, Job
<1>6. QED
  BY <1>1, <1>2, <1>3, <1>4, <1>5 DEF perm

LEMMA CapsDoes ==
  ASSUME TypeInv, NEW m \in Mons, SetCaps(m) \/ SetCapsFails(m)
  PROVE  LET op == CurrentOp(m)
             who == job[m].who
             rest == job[m].todo \ {who}
         IN /\ job[m] # None /\ job[m].step = "caps" /\ OthersStay(m)
            /\ op.group # None /\ who \in Services
            /\ UNCHANGED <<groups, services, pools>>
            /\ \/ SetCapsFails(m) /\ UNCHANGED caps
               \/ /\ SetCaps(m) /\ caps'[who] = job[m].perm
                  /\ \A s \in Services \ {who} : caps'[s] = caps[s]
            /\ rest # {} => /\ GoesTo(m, "build") /\ job'[m].todo = rest
                            /\ job'[m].names = job[m].names
            /\ rest = {} /\ IsGrant(op) => Finishes(m, "ok")
            /\ rest = {} /\ ~IsGrant(op) => GoesTo(m, "pool") /\ job'[m].todo = {}
<1> DEFINE op == CurrentOp(m)
           who == job[m].who
           rest == job[m].todo \ {who}
           n == NextStep(m, rest)
           c == CapsSet(m)
<1>1. /\ job[m] # None /\ job[m] \in Job /\ JobTyped(job[m])
      /\ job[m].step = "caps" /\ At(m, "caps")
      /\ op \in Operation /\ op.group # None /\ who \in Services
  BY JobFacts DEF At, SetCaps, SetCapsFails, JobTyped, CurrentOp
<1>2. rest \in SUBSET Services
  BY <1>1 DEF Job
<1>3. n \in Job /\ c \in Job
  BY <1>1, <1>2, NextStepTyped, CapsSetTyped
<1>4. c.req = n.req /\ c.at = n.at /\ c.step = n.step /\ c.ret = n.ret
      /\ c.todo = n.todo /\ c.names = n.names
  <2> HIDE DEF n
  <2>1. c = [n EXCEPT !.who = None, !.perm = {}]
    BY DEF CapsSet, n
  <2>2. QED
    BY <1>3, <2>1 DEF Job
<1>5. /\ job'[m] \in {c, [c EXCEPT !.failed = TRUE]} /\ OthersStay(m)
      /\ UNCHANGED <<groups, services, pools>>
      /\ \/ SetCapsFails(m) /\ UNCHANGED caps
         \/ /\ SetCaps(m) /\ caps'[who] = job[m].perm
            /\ \A s \in Services \ {who} : caps'[s] = caps[s]
  <2>1. CASE SetCaps(m)
    <3>1. /\ caps' = [caps EXCEPT ![who] = job[m].perm] /\ job' = [job EXCEPT ![m] = c]
          /\ UNCHANGED <<groups, services, pools>>
      BY <2>1 DEF SetCaps
    <3> HIDE DEF c
    <3>2. job'[m] = c /\ OthersStay(m)
      BY <3>1, Replaced
    <3>3. /\ caps'[who] = job[m].perm
          /\ \A s \in Services \ {who} : caps'[s] = caps[s]
      BY <1>1, <3>1 DEF TypeInv, TypeOK, RegistryTypeOK
    <3>4. QED
      BY <2>1, <3>1, <3>2, <3>3
  <2>2. CASE SetCapsFails(m)
    <3>1. /\ job' = [job EXCEPT ![m] = [c EXCEPT !.failed = TRUE]]
          /\ UNCHANGED registryVars
      BY <2>2 DEF SetCapsFails
    <3>2. job'[m] = [c EXCEPT !.failed = TRUE] /\ OthersStay(m)
      BY <3>1, Replaced
    <3>3. QED
      BY <2>2, <3>1, <3>2 DEF registryVars
  <2>3. QED
    BY <2>1, <2>2
<1>6. job'[m].req = n.req /\ job'[m].at = n.at /\ job'[m].step = n.step
      /\ job'[m].ret = n.ret /\ job'[m].todo = n.todo /\ job'[m].names = n.names
  <2> HIDE DEF n, c
  <2>1. QED
    BY <1>3, <1>4, <1>5 DEF Job
<1>7. rest # {} => /\ GoesTo(m, "build") /\ job'[m].todo = rest
                   /\ job'[m].names = job[m].names
  <2> SUFFICES ASSUME rest # {}
               PROVE  /\ GoesTo(m, "build") /\ job'[m].todo = rest
                      /\ job'[m].names = job[m].names
    OBVIOUS
  <2>1. n = [job[m] EXCEPT !.step = "build", !.todo = rest]
    BY <1>1, NextStepFields
  <2> HIDE DEF n, rest
  <2>2. QED
    BY <1>1, <1>6, <2>1 DEF GoesTo, Job
<1>8. rest = {} /\ IsGrant(op) => Finishes(m, "ok")
  <2> SUFFICES ASSUME rest = {}, IsGrant(op) PROVE Finishes(m, "ok")
    OBVIOUS
  <2>1. n = OpDone(m, "ok")
    BY <1>1, NextStepFields
  <2> HIDE DEF n
  <2>2. QED
    BY <1>1, <1>6, <2>1, OpDoneFields DEF Finishes
<1>9. rest = {} /\ ~IsGrant(op) => GoesTo(m, "pool") /\ job'[m].todo = {}
  <2> SUFFICES ASSUME rest = {}, ~IsGrant(op)
               PROVE  GoesTo(m, "pool") /\ job'[m].todo = {}
    OBVIOUS
  <2>1. n = [job[m] EXCEPT !.step = "pool", !.todo = {}]
    BY <1>1, NextStepFields
  <2> HIDE DEF n
  <2>2. QED
    BY <1>1, <1>6, <2>1 DEF GoesTo, Job
<1>10. QED
  BY <1>1, <1>5, <1>7, <1>8, <1>9

LEMMA PoolDoes ==
  ASSUME TypeInv, NEW m \in Mons, CreatePool(m) \/ OpReturnsError(m)
  PROVE  /\ job[m] # None /\ job[m].step = "pool" /\ OthersStay(m)
         /\ ~IsGrant(CurrentOp(m))
         /\ UNCHANGED <<groups, services, caps>> /\ pools \subseteq pools'
         /\ \/ Finishes(m, "ok") /\ CurrentOp(m).pool \in pools'
            \/ Finishes(m, "error")
<1>1. /\ job[m] # None /\ job[m] \in Job /\ job[m].step = "pool"
      /\ ~IsGrant(CurrentOp(m))
  BY JobFacts DEF At, CreatePool, OpReturnsError, JobTyped, CurrentOp
<1>2. CASE CreatePool(m)
  <2>1. job'[m] = OpDone(m, "ok") /\ OthersStay(m)
    BY <1>2, Replaced DEF CreatePool
  <2>2. Finishes(m, "ok")
    BY <1>1, <2>1, OpDoneFields DEF Finishes
  <2>3. QED
    BY <1>1, <1>2, <2>1, <2>2 DEF CreatePool
<1>3. CASE OpReturnsError(m)
  <2> DEFINE d == OpDone(m, "error")
  <2>1. job'[m] = [d EXCEPT !.failed = TRUE] /\ OthersStay(m)
    BY <1>3, Replaced DEF OpReturnsError
  <2>2. d \in Job
    BY <1>1, OpDoneTyped
  <2>3. /\ job'[m].req = d.req /\ job'[m].at = d.at
        /\ job'[m].step = d.step /\ job'[m].ret = d.ret
    <3> HIDE DEF d
    <3>1. QED
      BY <2>1, <2>2 DEF Job
  <2>4. Finishes(m, "error")
    BY <1>1, <2>3, OpDoneFields DEF Finishes
  <2>5. QED
    BY <1>1, <1>3, <2>1, <2>4 DEF OpReturnsError, registryVars
<1>4. QED
  BY <1>2, <1>3

LEMMA RaiseDoes ==
  ASSUME TypeInv, NEW m \in Mons, OpRaises(m)
  PROVE  /\ job[m] # None /\ job[m].step # "reply" /\ OthersStay(m)
         /\ UNCHANGED registryVars
         /\ GoesTo(m, "reply") /\ job'[m].ret = "raised"
<1> DEFINE j == [job[m] EXCEPT !.step = "reply", !.ret = "raised", !.failed = TRUE,
                               !.group = EmptyGroup, !.names = {}]
<1>1. job[m] # None /\ job[m] \in Job /\ job[m].step # "reply"
  BY JobFacts DEF OpRaises
<1>2. job \in [Mons -> Job \cup {None}]
  BY DEF TypeInv, TypeOK, RegistryTypeOK
<1>3. job' = [job EXCEPT ![m] = j] /\ UNCHANGED registryVars
  BY <1>2 DEF OpRaises
<1>4. job'[m] = j /\ OthersStay(m)
  BY <1>3, Replaced
<1>5. GoesTo(m, "reply") /\ job'[m].ret = "raised"
  BY <1>1, <1>4 DEF GoesTo, Job
<1>6. QED
  BY <1>1, <1>3, <1>4, <1>5
--------------------------------------------------------------------------------
(* What was carried out.                                                    *)

\* A step within an operation leaves what is done.
LEMMA DoneKept ==
  ASSUME NEW m \in Mons, job[m] # None, job[m].step # "reply", NEW step,
         GoesTo(m, step), step # "reply" \/ job'[m].ret = "raised"
  PROVE  Done(m)' \subseteq Done(m)
BY DEF Done, GoesTo

\* The end of an operation adds that operation.
LEMMA DoneAdvanced ==
  ASSUME TypeInv, NEW m \in Mons, job[m] # None, job[m].step # "reply",
         NEW ret, Finishes(m, ret)
  PROVE  Done(m)' \subseteq Done(m) \cup {CurrentOp(m)}
<1>1. /\ job[m].req \in Requests /\ job[m].at \in 1 .. Len(Ops[job[m].req])
      /\ Len(Ops[job[m].req]) \in Nat
  BY JobFacts DEF Job
<1>2. DOMAIN Ops[job[m].req] = 1 .. Len(Ops[job[m].req])
  BY <1>1, OpsTyped
<1>3. \A i \in 1 .. job[m].at : i \in 1 .. job[m].at - 1 \/ i = job[m].at
  BY <1>1
<1>4. job'[m].req = job[m].req
  BY DEF Finishes
<1>5. CASE job'[m].step = "op" /\ job'[m].at = job[m].at + 1
  <2>1. job'[m].at - 1 = job[m].at
    BY <1>1, <1>5
  <2>2. QED
    BY <1>3, <1>4, <1>5, <2>1 DEF Done, CurrentOp
<1>6. CASE job'[m].step = "reply" /\ job[m].at = Len(Ops[job[m].req])
  <2>1. OpsOf(job[m].req) = {Ops[job[m].req][i] : i \in 1 .. job[m].at}
    BY <1>2, <1>6 DEF OpsOf
  <2>2. QED
    BY <1>3, <1>4, <1>6, <2>1 DEF Done, CurrentOp
<1>7. QED
  BY <1>5, <1>6 DEF Finishes

LEMMA CarriedGrows ==
  ASSUME NEW m \in Mons, NEW S, UNCHANGED <<rsp, out>>, OthersStay(m),
         Done(m)' \subseteq Done(m) \cup S
  PROVE  CarriedOut' \subseteq CarriedOut \cup S
<1>1. Promised' = Promised
  BY DEF Promised
<1>2. \A n \in Mons \ {m} : Done(n)' = Done(n)
  BY DEF Done, OthersStay
<1>3. ASSUME NEW op \in CarriedOut' PROVE op \in CarriedOut \cup S
  <2>1. /\ op \in Operation
        /\ \/ \E r \in Promised' : op \in OpsOf(r)
           \/ \E n \in Mons : op \in Done(n)'
    BY DEF CarriedOut, OpsOf
  <2>2. \/ \E r \in Promised : op \in OpsOf(r)
        \/ \E n \in Mons : op \in Done(n)
        \/ op \in S
    BY <1>1, <1>2, <2>1
  <2>3. QED
    BY <2>1, <2>2 DEF CarriedOut
<1>4. QED
  BY <1>3

LEMMA CarriedKept ==
  ASSUME NEW m \in Mons, job[m] # None, job[m].step # "reply", NEW step,
         GoesTo(m, step), step # "reply" \/ job'[m].ret = "raised",
         UNCHANGED <<rsp, out>>, OthersStay(m)
  PROVE  CarriedOut' \subseteq CarriedOut
<1>1. Done(m)' \subseteq Done(m) \cup {}
  BY DoneKept
<1>2. QED
  BY <1>1, CarriedGrows

LEMMA CarriedAdvanced ==
  ASSUME TypeInv, NEW m \in Mons, job[m] # None, job[m].step # "reply",
         NEW ret, Finishes(m, ret), UNCHANGED <<rsp, out>>, OthersStay(m)
  PROVE  CarriedOut' \subseteq CarriedOut \cup {CurrentOp(m)}
<1>1. Done(m)' \subseteq Done(m) \cup {CurrentOp(m)}
  BY DoneAdvanced
<1>2. QED
  BY <1>1, CarriedGrows

\* Every command but the last of an operation leaves what was carried out; the
\* last adds that operation.
LEMMA CommandCarries ==
  ASSUME TypeInv, NEW m \in Mons, Command(m) \/ CommandFails(m),
         UNCHANGED <<rsp, out>>
  PROVE  /\ CarriedOut' \subseteq CarriedOut \cup {CurrentOp(m)}
         /\ \/ CarriedOut' \subseteq CarriedOut
            \/ /\ job[m].step = "pool" /\ ~IsGrant(CurrentOp(m))
               /\ CreatePool(m) \/ OpReturnsError(m)
            \/ /\ job[m].step = "caps" /\ IsGrant(CurrentOp(m))
               /\ SetCaps(m) \/ SetCapsFails(m)
<1>1. CASE BeginOp(m) \/ ReadFails(m)
  BY <1>1, ReadDoes, CarriedKept
<1>2. CASE SaveGroup(m)
  <2>1. job[m] # None /\ job[m].step = "saveGroup" /\ OthersStay(m)
    BY <1>2, SaveGroupDoes
  <2>2. GoesTo(m, "saveService") \/ GoesTo(m, "build") \/ GoesTo(m, "pool")
    BY <1>2, SaveGroupDoes
  <2>3. CarriedOut' \subseteq CarriedOut
    BY <2>1, <2>2, CarriedKept
  <2>4. QED
    BY <2>3
<1>3. CASE SaveService(m)
  <2>1. /\ job[m] # None /\ job[m].step = "saveService" /\ OthersStay(m)
        /\ GoesTo(m, "build")
    BY <1>3, SaveServiceDoes
  <2>2. CarriedOut' \subseteq CarriedOut
    BY <2>1, CarriedKept
  <2>3. QED
    BY <2>2
<1>4. CASE BuildPermissions(m)
  <2>1. /\ job[m] # None /\ job[m].step = "build" /\ OthersStay(m)
        /\ GoesTo(m, "caps")
    BY <1>4, BuildDoes
  <2>2. CarriedOut' \subseteq CarriedOut
    BY <2>1, CarriedKept
  <2>3. QED
    BY <2>2
<1>5. CASE SetCaps(m) \/ SetCapsFails(m)
  <2>1. job[m] # None /\ job[m].step = "caps" /\ OthersStay(m)
    BY <1>5, CapsDoes
  <2>2. \/ GoesTo(m, "build") \/ GoesTo(m, "pool")
        \/ IsGrant(CurrentOp(m)) /\ Finishes(m, "ok")
    BY <1>5, CapsDoes
  <2>3. CASE GoesTo(m, "build") \/ GoesTo(m, "pool")
    <3>1. CarriedOut' \subseteq CarriedOut
      BY <2>1, <2>3, CarriedKept
    <3>2. QED
      BY <3>1
  <2>4. CASE IsGrant(CurrentOp(m)) /\ Finishes(m, "ok")
    <3>1. CarriedOut' \subseteq CarriedOut \cup {CurrentOp(m)}
      BY <2>1, <2>4, CarriedAdvanced
    <3>2. QED
      BY <1>5, <2>1, <2>4, <3>1
  <2>5. QED
    BY <2>2, <2>3, <2>4
<1>6. CASE CreatePool(m) \/ OpReturnsError(m)
  <2>1. /\ job[m] # None /\ job[m].step = "pool" /\ OthersStay(m)
        /\ ~IsGrant(CurrentOp(m))
        /\ Finishes(m, "ok") \/ Finishes(m, "error")
    BY <1>6, PoolDoes
  <2>2. CarriedOut' \subseteq CarriedOut \cup {CurrentOp(m)}
    BY <2>1, CarriedAdvanced
  <2>3. QED
    BY <1>6, <2>1, <2>2
<1>7. CASE OpRaises(m)
  BY <1>7, RaiseDoes, CarriedKept
<1>8. QED
  BY <1>1, <1>2, <1>3, <1>4, <1>5, <1>6, <1>7 DEF Command, CommandFails

\* The steps that carry out no command: hooks begin, give answers, commit them
\* or die.
Elsewhere ==
  \/ \E m \in Mons : \/ BeginHook(m) \/ RetryHook(m) \/ Respond(m) \/ Commit(m)
                     \/ UpgradeCharm(m) \/ ElectLeader(m) \/ Crash(m)
                     \/ \E c \in Clients : IgnoreRequest(m, c) \/ ServeRequest(m, c)
  \/ \E c \in Clients : ChangeRequest(c)
  \/ OsdsBootstrapped \/ LoseLeader
  \/ UNCHANGED vars

LEMMA NextCases ==
  ASSUME [Next]_vars
  PROVE  \/ Elsewhere
         \/ \E m \in Mons : /\ Command(m) \/ CommandFails(m)
                            /\ UNCHANGED <<rsp, out, leader>>
<1>1. ASSUME NEW m \in Mons, HookStep(m), ~Elsewhere
      PROVE  Command(m) /\ UNCHANGED <<rsp, out, leader>>
  BY <1>1 DEF HookStep, Elsewhere, RunCommand, hookVars
<1>2. ASSUME Environment, ~Elsewhere
      PROVE  \E m \in Mons : CommandFails(m) /\ UNCHANGED <<rsp, out, leader>>
  BY <1>2 DEF Environment, Elsewhere, FailCommand, hookVars
<1>3. UNCHANGED vars => Elsewhere
  BY DEF Elsewhere
<1>4. QED
  BY <1>1, <1>2, <1>3 DEF Next

\* A job that goes on elsewhere is the job it was, or a new one.
NewJob(j) == j.step = "op" /\ j.at = 1

LEMMA ElsewhereDoes ==
  ASSUME TypeInv, Elsewhere
  PROVE  /\ UNCHANGED registryVars
         /\ \A n \in Mons : \/ job'[n] \in {job[n], None}
                            \/ job[n] = None /\ NewJob(job'[n])
         /\ CarriedOut' \subseteq CarriedOut
         /\ PoolsThere => PoolsThere'
<1>1. CASE UNCHANGED <<registryVars, job, rsp, out>>
  <2>1. CarriedOut' = CarriedOut
    BY <1>1 DEF CarriedOut, Promised, Done
  <2>2. PoolsThere => PoolsThere'
    BY <1>1 DEF PoolsThere, Promised, At, registryVars
  <2>3. QED
    BY <1>1, <2>1, <2>2
<1>2. ASSUME NEW m \in Mons, NEW c \in Clients, ServeRequest(m, c)
      PROVE  /\ UNCHANGED <<registryVars, rsp, out>>
             /\ OthersStay(m) /\ job[m] = None /\ NewJob(job'[m])
  <2> DEFINE j == [req |-> sent[c], at |-> 1, step |-> "op", group |-> EmptyGroup,
                   names |-> {}, todo |-> {}, who |-> None, perm |-> {},
                   ret |-> "none", failed |-> FALSE]
  <2>1. /\ job' = [job EXCEPT ![m] = j] /\ job[m] = None
        /\ UNCHANGED <<registryVars, rsp, out>>
    BY <1>2 DEF ServeRequest, StartJob, Considers
  <2>2. j.step = "op" /\ j.at = 1
    OBVIOUS
  <2> HIDE DEF j
  <2>3. QED
    BY <2>1, <2>2, Replaced DEF NewJob
<1>3. ASSUME NEW m \in Mons, NEW c \in Clients, ServeRequest(m, c)
      PROVE  /\ CarriedOut' \subseteq CarriedOut
             /\ PoolsThere => PoolsThere'
  <2>1. Done(m)' \subseteq Done(m) \cup {}
    BY <1>2, <1>3 DEF Done, NewJob
  <2>2. CarriedOut' \subseteq CarriedOut \cup {}
    BY <1>2, <1>3, <2>1, CarriedGrows
  <2>3. PoolsThere => PoolsThere'
    BY <1>2, <1>3 DEF PoolsThere, Promised, At, NewJob, OthersStay, registryVars
  <2>4. QED
    BY <2>2, <2>3
<1>4. ASSUME NEW m \in Mons, Respond(m)
      PROVE  /\ UNCHANGED registryVars /\ OthersStay(m) /\ job'[m] = None
             /\ job[m] # None /\ job[m].step = "reply" /\ job[m].req \in Requests
             /\ \A r \in Promised' :
                  r \in Promised \/ (r = job[m].req /\ job[m].ret = "ok")
  <2> DEFINE c == serving[m]
             a == Answer(job[m])
  <2>1. /\ job[m] # None /\ job[m].step = "reply"
        /\ job' = [job EXCEPT ![m] = None] /\ out' = [out EXCEPT ![m][c] = a]
        /\ UNCHANGED <<registryVars, rsp>>
    BY <1>4 DEF Respond, At
  <2>2. c \in Clients /\ job[m].req \in Requests
    BY <2>1, JobFacts DEF Job
  <2>3. \A n \in Mons, d \in Clients : out'[n][d] = out[n][d] \/ out'[n][d] = a
    BY <2>1, <2>2 DEF TypeInv, TypeOK
  <2>4. ASSUME NEW r \in Promised'
        PROVE  r \in Promised \/ (r = job[m].req /\ job[m].ret = "ok")
    <3>1. PICK n \in Mons, d \in Clients :
            [req |-> r, ok |-> TRUE] \in {rsp'[n][d], out'[n][d]}
      BY DEF Promised
    <3>2. r \in Requests
      BY DEF Promised
    <3>3. CASE [req |-> r, ok |-> TRUE] \in {rsp[n][d], out[n][d]}
      BY <3>2, <3>3 DEF Promised
    <3>4. CASE [req |-> r, ok |-> TRUE] = a
      <4>1. r = a.req /\ a.ok = TRUE
        BY <3>4
      <4>2. job[m].ret = "ok" /\ r = job[m].req
        BY <4>1 DEF Answer
      <4>3. QED
        BY <4>2
    <3>5. QED
      BY <2>1, <2>3, <3>1, <3>3, <3>4
  <2>5. job'[m] = None /\ OthersStay(m)
    BY <2>1, Replaced
  <2>6. QED
    BY <2>1, <2>2, <2>4, <2>5
<1>5. ASSUME NEW m \in Mons, Respond(m)
      PROVE  /\ CarriedOut' \subseteq CarriedOut
             /\ PoolsThere => PoolsThere'
  <2>1. ASSUME NEW op \in CarriedOut' PROVE op \in CarriedOut
    <3>1. /\ op \in Operation
          /\ \/ \E r \in Promised' : op \in OpsOf(r)
             \/ \E n \in Mons : op \in Done(n)'
      BY DEF CarriedOut, OpsOf
    <3>2. CASE \E n \in Mons : op \in Done(n)'
      <4>1. PICK n \in Mons : op \in Done(n)'
        BY <3>2
      <4>2. n # m
        BY <1>4, <1>5, <4>1 DEF Done
      <4>3. op \in Done(n)
        BY <1>4, <1>5, <4>1, <4>2 DEF Done, OthersStay
      <4>4. QED
        BY <3>1, <4>3 DEF CarriedOut
    <3>3. CASE \E r \in Promised' : op \in OpsOf(r)
      <4>1. PICK r \in Promised' : op \in OpsOf(r)
        BY <3>3
      <4>2. CASE r \in Promised
        BY <3>1, <4>1, <4>2 DEF CarriedOut
      <4>3. CASE r = job[m].req /\ job[m].ret = "ok"
        <5>1. op \in Done(m)
          BY <1>4, <1>5, <4>1, <4>3 DEF Done
        <5>2. QED
          BY <3>1, <5>1 DEF CarriedOut
      <4>4. QED
        BY <1>4, <1>5, <4>2, <4>3
    <3>4. QED
      BY <3>1, <3>2, <3>3
  <2>2. ASSUME PoolsThere PROVE PoolsThere'
    <3>1. \A r \in Promised' : ~IsGrant(LastOf(r)) => LastOf(r).pool \in pools
      BY <1>4, <1>5, <2>2 DEF PoolsThere, At
    <3>2. QED
      BY <1>4, <1>5, <2>2, <3>1 DEF PoolsThere, At, OthersStay, registryVars
  <2>3. QED
    BY <2>1, <2>2
<1>6. ASSUME NEW m \in Mons, Commit(m) \/ Crash(m)
      PROVE  /\ UNCHANGED registryVars
             /\ \A n \in Mons : job'[n] \in {job[n], None}
             /\ \A r \in Promised' : r \in Promised
  <2>1. /\ UNCHANGED registryVars
        /\ \A n \in Mons : job'[n] \in {job[n], None}
        /\ \A n \in Mons, c \in Clients :
             /\ out'[n][c] \in {out[n][c], None}
             /\ rsp'[n][c] \in {rsp[n][c], out[n][c]}
    <3>1. /\ job \in [Mons -> Job \cup {None}]
          /\ out \in [Mons -> [Clients -> Response \cup {None}]]
          /\ rsp \in [Mons -> [Clients -> Response \cup {None}]]
      BY DEF TypeInv, TypeOK, RegistryTypeOK
    <3>2. CASE Commit(m)
      <4>1. /\ out' = [out EXCEPT ![m] = [c \in Clients |-> None]]
            /\ rsp' = [rsp EXCEPT ![m] =
                         [c \in Clients |-> IF out[m][c] # None THEN out[m][c]
                                                               ELSE rsp[m][c]]]
        BY <3>2 DEF Commit, DropWrites
      <4>2. QED
        BY <3>1, <3>2, <4>1 DEF Commit
    <3>3. CASE Crash(m)
      <4>1. out' = [out EXCEPT ![m] = [c \in Clients |-> None]]
        BY <3>3 DEF Crash, DropWrites
      <4>2. QED
        BY <3>1, <3>3, <4>1 DEF Crash
    <3>4. QED
      BY <1>6, <3>2, <3>3
  <2>2. ASSUME NEW r \in Promised' PROVE r \in Promised
    <3>1. r \in Requests
      BY DEF Promised
    <3>2. PICK n \in Mons, c \in Clients :
            [req |-> r, ok |-> TRUE] \in {rsp'[n][c], out'[n][c]}
      BY DEF Promised
    <3>3. [req |-> r, ok |-> TRUE] # None
      <4>1. [req |-> r, ok |-> TRUE] \in Response
        BY <3>1 DEF Response
      <4>2. QED
        BY <4>1, BrokerAssumption
    <3>4. QED
      BY <2>1, <3>1, <3>2, <3>3 DEF Promised
  <2>3. QED
    BY <2>1, <2>2
<1>7. ASSUME NEW m \in Mons, Commit(m) \/ Crash(m)
      PROVE  /\ CarriedOut' \subseteq CarriedOut
             /\ PoolsThere => PoolsThere'
  <2>1. \A n \in Mons : Done(n)' \subseteq Done(n)
    BY <1>6, <1>7 DEF Done
  <2>2. ASSUME NEW op \in CarriedOut' PROVE op \in CarriedOut
    <3>1. /\ op \in Operation
          /\ \/ \E r \in Promised' : op \in OpsOf(r)
             \/ \E n \in Mons : op \in Done(n)'
      BY DEF CarriedOut, OpsOf
    <3>2. QED
      BY <1>6, <1>7, <2>1, <3>1 DEF CarriedOut
  <2>3. PoolsThere => PoolsThere'
    BY <1>6, <1>7 DEF PoolsThere, At, registryVars
  <2>4. QED
    BY <2>2, <2>3
<1>8. ASSUME NEW m \in Mons, \/ BeginHook(m) \/ RetryHook(m)
                             \/ UpgradeCharm(m) \/ ElectLeader(m)
      PROVE  UNCHANGED <<registryVars, job, rsp, out>>
  BY <1>8 DEF BeginHook, RetryHook, Run, UpgradeCharm, ElectLeader, hookVars
<1>9. ASSUME NEW c \in Clients, \/ ChangeRequest(c)
                                \/ \E m \in Mons : IgnoreRequest(m, c)
      PROVE  UNCHANGED <<registryVars, job, rsp, out>>
  BY <1>9 DEF ChangeRequest, IgnoreRequest, hookVars
<1>10. OsdsBootstrapped \/ LoseLeader \/ UNCHANGED vars
         => UNCHANGED <<registryVars, job, rsp, out>>
  BY DEF OsdsBootstrapped, LoseLeader, vars, hookVars
<1>11. ASSUME NEW m \in Mons, NEW c \in Clients, ServeRequest(m, c)
       PROVE  \A n \in Mons : \/ job'[n] \in {job[n], None}
                              \/ job[n] = None /\ NewJob(job'[n])
  BY <1>2, <1>11 DEF OthersStay
<1>12. ASSUME NEW m \in Mons, Respond(m)
       PROVE  \A n \in Mons : job'[n] \in {job[n], None}
  BY <1>4, <1>12 DEF OthersStay
<1>13. QED
  BY <1>1, <1>2, <1>3, <1>4, <1>5, <1>6, <1>7, <1>8, <1>9, <1>10, <1>11, <1>12
     DEF Elsewhere
--------------------------------------------------------------------------------
(* What is recorded stays recorded.                                         *)

LEMMA RecordedKept ==
  ASSUME Keeps, NEW op \in Operation, Recorded(op)
  PROVE  RecordedIn(op, groups', services')
<1>1. CASE op.group = None
  BY <1>1 DEF Recorded, RecordedIn
<1>2. CASE op.group # None
  BY <1>2, Kinds DEF Recorded, RecordedIn, Keeps
<1>3. QED
  BY <1>1, <1>2

\* What a job has written stays, too.
LEMMA WorkKept ==
  ASSUME Keeps, NEW j \in Job, JobTyped(j), Work(j)
  PROVE  WorkIn(j, groups', services')
<1> DEFINE op == Ops[j.req][j.at]
           k == KeyOf(op)
<1>1. j.names \subseteq GroupKeys
  BY KeysTyped DEF JobTyped
<1>2. op \in Operation
  BY OpsTyped DEF Job, JobTyped
<1>3. j.step = "saveService" \/ j.step = "build" \/ j.step = "caps" => k \in GroupKeys
  BY <1>2, Kinds DEF JobTyped
<1>4. IsGrant(op) => op.service \in Services
  BY <1>2, Kinds
<1>5. op.group # None => k \in GroupKeys
  BY <1>2, Kinds
<1> HIDE DEF op, k
<1>6. /\ IsGrant(op) /\ j.step \in {"saveGroup", "saveService"}
           => \A i \in j.names : op.service \in groups'[i].services
      /\ IsGrant(op) /\ j.step \in {"saveService", "build", "caps"}
           => op.service \in groups'[k].services
      /\ IsGrant(op) /\ j.step \in {"build", "caps"}
           => /\ j.todo = {op.service}
              /\ k \in j.names /\ j.names \subseteq services'[op.service]
      /\ ~IsGrant(op) /\ op.group # None /\ j.step \in {"build", "caps", "pool"}
           => op.pool \in groups'[k].pools
      /\ j.step = "caps" => j.who \in j.todo
  BY <1>1, <1>3, <1>4, <1>5 DEF Work, WorkIn, Keeps, op, k
<1>7. QED
  BY <1>6 DEF Work, WorkIn, op, k

LEMMA NothingLost == UNCHANGED registryVars => Keeps
  BY DEF registryVars, Keeps

\* The job after a command has its work recorded, and the registry its members.
LEMMA CommandRecords ==
  ASSUME RecordInv, TypeInv', Keeps, NEW m \in Mons, Command(m) \/ CommandFails(m)
  PROVE  WorkIn(job'[m], groups', services') /\ OthersStay(m) /\ GroupsListMembers'
<1> DEFINE op == CurrentOp(m)
           k == KeyOf(op)
<1>1. /\ TypeInv /\ GroupsListMembers
      /\ job[m] # None => /\ Work(job[m]) /\ job[m] \in Job /\ JobTyped(job[m])
                          /\ op \in Operation
  BY JobFacts DEF RecordInv
<1>2. ASSUME NEW step, GoesTo(m, step)
      PROVE  /\ Ops[job'[m].req][job'[m].at] = op /\ job'[m].step = step
  BY <1>2 DEF GoesTo, CurrentOp
<1>3. services \in [Services -> SUBSET RecordedKeys] /\ RecordedKeys \subseteq GroupKeys
  BY <1>1, KeysTyped DEF TypeInv
<1>4. ASSUME UNCHANGED services PROVE GroupsListMembers'
  BY <1>1, <1>3, <1>4 DEF GroupsListMembers, Keeps
<1>5. CASE BeginOp(m) \/ ReadFails(m)
  <2>1. /\ job[m] # None /\ OthersStay(m) /\ UNCHANGED registryVars
        /\ \/ op.group = None /\ GoesTo(m, "pool")
           \/ /\ op.group # None /\ GoesTo(m, "saveGroup")
              /\ job'[m].names \in {IF IsGrant(op) THEN services[op.service] ELSE {}, {}}
    BY <1>1, <1>5, ReadDoes
  <2>2. GroupsListMembers'
    BY <1>4, <2>1 DEF registryVars
  <2>3. CASE op.group = None /\ GoesTo(m, "pool")
    <3>1. ~IsGrant(op)
      BY <1>1, <2>1, <2>3, Kinds
    <3>2. QED
      BY <1>2, <2>1, <2>2, <2>3, <3>1 DEF Work, WorkIn
  <2>4. CASE op.group # None /\ GoesTo(m, "saveGroup")
    <3>1. IsGrant(op) => op.service \in Services
      BY <1>1, <2>1, Kinds
    <3>2. IsGrant(op) => \A i \in job'[m].names : op.service \in groups'[i].services
      BY <1>1, <2>1, <2>4, <3>1 DEF GroupsListMembers, registryVars, GoesTo
    <3>3. /\ Ops[job'[m].req][job'[m].at] = op /\ job'[m].step = "saveGroup"
      BY <1>2, <2>4
    <3> HIDE DEF op, k
    <3>4. WorkIn(job'[m], groups', services')
      BY <3>2, <3>3 DEF Work, WorkIn
    <3>5. QED
      BY <2>1, <2>2, <3>4
  <2>5. QED
    BY <2>1, <2>3, <2>4
<1>6. CASE SaveGroup(m)
  <2>1. /\ job[m] # None /\ job[m].step = "saveGroup" /\ OthersStay(m)
        /\ op.group # None /\ k \in GroupKeys /\ UNCHANGED services
        /\ groups'[k].services = IF IsGrant(op) THEN job[m].group.services \cup {op.service}
                                                ELSE job[m].group.services
        /\ groups'[k].pools = IF IsGrant(op) THEN job[m].group.pools
                                             ELSE job[m].group.pools \cup {op.pool}
        /\ IsGrant(op) => GoesTo(m, "saveService") /\ job'[m].names = job[m].names
        /\ ~IsGrant(op) => GoesTo(m, "build") \/ GoesTo(m, "pool")
    BY <1>1, <1>6, SaveGroupDoes
  <2>2. GroupsListMembers'
    BY <1>4, <2>1
  <2>3. CASE IsGrant(op)
    <3>1. \A i \in job[m].names : i \in GroupKeys /\ op.service \in groups[i].services
      BY <1>1, <1>3, <2>1, <2>3 DEF Work, WorkIn, CurrentOp, JobTyped
    <3>2. \A i \in job'[m].names : op.service \in groups'[i].services
      BY <2>1, <2>3, <3>1 DEF Keeps
    <3>3. op.service \in groups'[k].services
      BY <2>1, <2>3
    <3>4. /\ Ops[job'[m].req][job'[m].at] = op /\ job'[m].step = "saveService"
      BY <1>2, <2>1, <2>3
    <3> HIDE DEF op
    <3>5. WorkIn(job'[m], groups', services')
      BY <2>3, <3>2, <3>3, <3>4 DEF Work, WorkIn
    <3>6. QED
      BY <2>1, <2>2, <3>5
  <2>4. CASE ~IsGrant(op)
    <3>1. op.pool \in groups'[k].pools
      BY <2>1, <2>4
    <3>2. /\ Ops[job'[m].req][job'[m].at] = op /\ job'[m].step \in {"build", "pool"}
      BY <1>2, <2>1, <2>4
    <3> HIDE DEF op
    <3>3. WorkIn(job'[m], groups', services')
      BY <2>4, <3>1, <3>2 DEF Work, WorkIn
    <3>4. QED
      BY <2>1, <2>2, <3>3
  <2>5. QED
    BY <2>3, <2>4
<1>7. CASE SaveService(m)
  <2>1. /\ job[m] # None /\ job[m].step = "saveService" /\ OthersStay(m)
        /\ IsGrant(op) /\ op.service \in Services
        /\ services'[op.service] = job[m].names \cup {k}
        /\ \A s \in Services \ {op.service} : services'[s] = services[s]
        /\ UNCHANGED groups
        /\ GoesTo(m, "build") /\ job'[m].todo = {op.service}
        /\ job'[m].names = job[m].names \cup {k}
    BY <1>1, <1>7, SaveServiceDoes
  <2>2. /\ op.service \in groups[k].services
        /\ \A i \in job[m].names : op.service \in groups[i].services
    BY <1>1, <2>1 DEF Work, WorkIn, CurrentOp
  <2>3. GroupsListMembers'
    BY <1>1, <2>1, <2>2 DEF GroupsListMembers
  <2>4. /\ Ops[job'[m].req][job'[m].at] = op /\ job'[m].step = "build"
    BY <1>2, <2>1
  <2> HIDE DEF op
  <2>5. WorkIn(job'[m], groups', services')
    BY <2>1, <2>2, <2>4 DEF Work, WorkIn, k
  <2>6. QED
    BY <2>1, <2>3, <2>5
<1>8. CASE BuildPermissions(m)
  <2>1. /\ job[m] # None /\ job[m].step = "build" /\ OthersStay(m)
        /\ UNCHANGED registryVars
        /\ GoesTo(m, "caps") /\ job'[m].todo = job[m].todo
        /\ job'[m].names = job[m].names /\ job'[m].who \in job[m].todo
    BY <1>1, <1>8, BuildDoes
  <2>2. GroupsListMembers'
    BY <1>4, <2>1 DEF registryVars
  <2>3. /\ Ops[job'[m].req][job'[m].at] = op /\ job'[m].step = "caps"
    BY <1>2, <2>1
  <2>4. WorkIn(job'[m], groups', services')
    BY <1>1, <2>1, <2>3 DEF Work, WorkIn, registryVars, CurrentOp
  <2>5. QED
    BY <2>1, <2>2, <2>4
<1>9. CASE SetCaps(m) \/ SetCapsFails(m)
  <2> DEFINE rest == job[m].todo \ {job[m].who}
  <2>1. /\ job[m] # None /\ job[m].step = "caps" /\ OthersStay(m)
        /\ UNCHANGED <<groups, services>>
        /\ rest # {} => /\ GoesTo(m, "build") /\ job'[m].todo = rest
                        /\ job'[m].names = job[m].names
        /\ rest = {} /\ IsGrant(op) => Finishes(m, "ok")
        /\ rest = {} /\ ~IsGrant(op) => GoesTo(m, "pool")
    BY <1>1, <1>9, CapsDoes
  <2>2. GroupsListMembers'
    BY <1>4, <2>1
  <2>3. job[m].who \in job[m].todo /\ (IsGrant(op) => rest = {})
    BY <1>1, <2>1 DEF Work, WorkIn, CurrentOp
  <2>4. CASE rest # {} \/ ~IsGrant(op)
    <3>1. /\ ~IsGrant(op)
          /\ Ops[job'[m].req][job'[m].at] = op /\ job'[m].step \in {"build", "pool"}
      BY <1>2, <2>1, <2>3, <2>4
    <3>2. op.group # None => op.pool \in groups'[k].pools
      BY <1>1, <2>1, <3>1 DEF Work, WorkIn, CurrentOp
    <3> HIDE DEF op
    <3>3. WorkIn(job'[m], groups', services')
      BY <3>1, <3>2 DEF Work, WorkIn, k
    <3>4. QED
      BY <2>1, <2>2, <3>3
  <2>5. CASE rest = {} /\ IsGrant(op)
    <3>1. job'[m].step \in {"op", "reply"}
      BY <2>1, <2>5 DEF Finishes
    <3>2. WorkIn(job'[m], groups', services')
      BY <3>1 DEF Work, WorkIn
    <3>3. QED
      BY <2>1, <2>2, <3>2
  <2>6. QED
    BY <2>4, <2>5
<1>10. CASE CreatePool(m) \/ OpReturnsError(m)
  <2>1. /\ OthersStay(m) /\ UNCHANGED services
        /\ Finishes(m, "ok") \/ Finishes(m, "error")
    BY <1>1, <1>10, PoolDoes
  <2>2. job'[m].step \in {"op", "reply"}
    BY <2>1 DEF Finishes
  <2>3. WorkIn(job'[m], groups', services')
    BY <2>2 DEF Work, WorkIn
  <2>4. QED
    BY <1>4, <2>1, <2>3
<1>11. CASE OpRaises(m)
  <2>1. OthersStay(m) /\ UNCHANGED registryVars /\ GoesTo(m, "reply")
    BY <1>1, <1>11, RaiseDoes
  <2>2. WorkIn(job'[m], groups', services')
    BY <2>1 DEF Work, WorkIn, GoesTo
  <2>3. QED
    BY <1>4, <2>1, <2>2 DEF registryVars
<1>12. QED
  BY <1>5, <1>6, <1>7, <1>8, <1>9, <1>10, <1>11 DEF Command, CommandFails

\* Pools are created before a request that ends with one succeeds.
LEMMA CommandPools ==
  ASSUME RecordInv, NEW m \in Mons, Command(m) \/ CommandFails(m),
         UNCHANGED <<rsp, out>>
  PROVE  PoolsThere'
<1> DEFINE op == CurrentOp(m)
<1>1. TypeInv /\ PoolsThere
  BY DEF RecordInv
<1>2. Promised' = Promised
  BY DEF Promised
<1>3. ASSUME OthersStay(m), pools \subseteq pools', job[m] # None,
             job'[m].step = "reply" /\ job'[m].ret = "ok"
               => /\ job'[m].req = job[m].req /\ job[m].at = Len(Ops[job[m].req])
                  /\ IsGrant(op) \/ op.pool \in pools'
      PROVE  PoolsThere'
  <2>1. ASSUME NEW n \in Mons, At(n, "reply")', job'[n].ret = "ok",
               ~IsGrant(LastOf(job'[n].req))
        PROVE  LastOf(job'[n].req).pool \in pools'
    <3>1. CASE n = m
      <4>1. LastOf(job'[m].req) = op
        BY <1>3, <2>1, <3>1 DEF LastOf, CurrentOp, At
      <4>2. QED
        BY <1>3, <2>1, <3>1, <4>1 DEF At
    <3>2. CASE n # m
      BY <1>1, <1>3, <2>1, <3>2 DEF PoolsThere, At, OthersStay
    <3>3. QED
      BY <3>1, <3>2
  <2>2. \A r \in Promised' : ~IsGrant(LastOf(r)) => LastOf(r).pool \in pools'
    BY <1>1, <1>2, <1>3 DEF PoolsThere
  <2>3. QED
    BY <2>1, <2>2 DEF PoolsThere
<1>4. ASSUME OthersStay(m), pools \subseteq pools', job[m] # None,
             NEW step, step # "reply" \/ job'[m].ret = "raised", GoesTo(m, step)
      PROVE  PoolsThere'
  BY <1>3, <1>4 DEF GoesTo
<1>5. CASE BeginOp(m) \/ ReadFails(m)
  BY <1>1, <1>4, <1>5, ReadDoes DEF registryVars
<1>6. CASE SaveGroup(m)
  <2>1. /\ job[m] # None /\ OthersStay(m) /\ pools \subseteq pools'
        /\ GoesTo(m, "saveService") \/ GoesTo(m, "build") \/ GoesTo(m, "pool")
    BY <1>1, <1>6, SaveGroupDoes
  <2>2. QED
    BY <1>4, <2>1
<1>7. CASE SaveService(m)
  <2>1. /\ job[m] # None /\ OthersStay(m) /\ pools \subseteq pools'
        /\ GoesTo(m, "build")
    BY <1>1, <1>7, SaveServiceDoes
  <2>2. QED
    BY <1>4, <2>1
<1>8. CASE BuildPermissions(m)
  <2>1. /\ job[m] # None /\ OthersStay(m) /\ pools \subseteq pools'
        /\ GoesTo(m, "caps")
    BY <1>1, <1>8, BuildDoes DEF registryVars
  <2>2. QED
    BY <1>4, <2>1
<1>9. CASE SetCaps(m) \/ SetCapsFails(m)
  <2>1. /\ job[m] # None /\ OthersStay(m) /\ pools \subseteq pools'
        /\ \/ GoesTo(m, "build") \/ GoesTo(m, "pool")
           \/ IsGrant(op) /\ Finishes(m, "ok")
    BY <1>1, <1>9, CapsDoes
  <2>2. CASE IsGrant(op) /\ Finishes(m, "ok")
    <3> HIDE DEF op
    <3>1. QED
      BY <1>3, <2>1, <2>2 DEF Finishes
  <2>3. QED
    BY <1>4, <2>1, <2>2
<1>10. CASE CreatePool(m) \/ OpReturnsError(m)
  <2>1. /\ job[m] # None /\ OthersStay(m) /\ pools \subseteq pools'
        /\ \/ Finishes(m, "ok") /\ op.pool \in pools'
           \/ Finishes(m, "error")
    BY <1>1, <1>10, PoolDoes
  <2> HIDE DEF op
  <2>2. QED
    BY <1>3, <2>1 DEF Finishes
<1>11. CASE OpRaises(m)
  <2>1. /\ job[m] # None /\ OthersStay(m) /\ pools \subseteq pools'
        /\ GoesTo(m, "reply") /\ job'[m].ret = "raised"
    BY <1>1, <1>11, RaiseDoes DEF registryVars
  <2>2. QED
    BY <1>4, <2>1
<1>12. QED
  BY <1>5, <1>6, <1>7, <1>8, <1>9, <1>10, <1>11 DEF Command, CommandFails

LEMMA RecordStep == RecordInv /\ [Next]_vars /\ Keeps => RecordInv'
<1> SUFFICES ASSUME RecordInv, [Next]_vars, Keeps PROVE RecordInv'
  OBVIOUS
<1>1. TypeInv /\ TypeInv'
  BY TypeStep DEF RecordInv
<1>2. \A op \in CarriedOut : op \in Operation /\ Recorded(op) /\ RecordedIn(op, groups', services')
  BY RecordedKept DEF RecordInv, CarriedOut
<1>3. ASSUME NEW n \in Mons, job[n] # None PROVE WorkIn(job[n], groups', services')
  <2>1. job[n] \in Job /\ JobTyped(job[n]) /\ Work(job[n])
    BY <1>1, <1>3, JobFacts DEF RecordInv
  <2> DEFINE j == job[n]
  <2>2. QED
    BY <2>1, WorkKept
<1>4. CASE Elsewhere
  <2>1. /\ UNCHANGED registryVars
        /\ \A n \in Mons : \/ job'[n] \in {job[n], None}
                           \/ job[n] = None /\ NewJob(job'[n])
        /\ CarriedOut' \subseteq CarriedOut /\ PoolsThere'
    BY <1>1, <1>4, ElsewhereDoes DEF RecordInv
  <2>2. GroupsListMembers'
    BY <2>1 DEF GroupsListMembers, RecordInv, registryVars
  <2>3. ASSUME NEW n \in Mons, job'[n] # None PROVE WorkIn(job'[n], groups', services')
    <3>1. CASE NewJob(job'[n])
      BY <3>1 DEF Work, WorkIn, NewJob
    <3>2. CASE job'[n] = job[n]
      <4>1. Work(job[n])
        BY <2>3, <3>2 DEF RecordInv
      <4>2. QED
        BY <2>1, <3>2, <4>1 DEF Work, WorkIn, registryVars
    <3>3. QED
      BY <2>1, <2>3, <3>1, <3>2
  <2>4. QED
    BY <1>1, <1>2, <2>1, <2>2, <2>3 DEF RecordInv, Recorded, Work
<1>5. ASSUME NEW m \in Mons, Command(m) \/ CommandFails(m), UNCHANGED <<rsp, out>>
      PROVE  RecordInv'
  <2> DEFINE op == CurrentOp(m)
  <2>1. WorkIn(job'[m], groups', services') /\ OthersStay(m) /\ GroupsListMembers'
    BY <1>1, <1>5, CommandRecords
  <2>2. ASSUME NEW n \in Mons, job'[n] # None PROVE WorkIn(job'[n], groups', services')
    <3>1. CASE n = m
      BY <2>1, <3>1
    <3>2. CASE n # m
      <4>1. job'[n] = job[n]
        BY <2>1, <3>2 DEF OthersStay
      <4>2. Work(job[n])
        BY <2>2, <4>1 DEF RecordInv
      <4>3. job[n] \in Job /\ JobTyped(job[n])
        BY <1>1, <2>2, <4>1, JobFacts
      <4> DEFINE j == job[n]
      <4>4. QED
        BY <4>1, <4>2, <4>3, <1>3, <2>2
    <3>3. QED
      BY <3>1, <3>2
  <2>3. PoolsThere'
    BY <1>5, CommandPools
  <2>4. /\ CarriedOut' \subseteq CarriedOut \cup {op}
        /\ \/ CarriedOut' \subseteq CarriedOut
           \/ job[m].step = "pool" /\ ~IsGrant(op)
           \/ job[m].step = "caps" /\ IsGrant(op)
    BY <1>1, <1>5, CommandCarries
  <2>5. CASE CarriedOut' \subseteq CarriedOut
    BY <1>1, <1>2, <2>1, <2>2, <2>3, <2>5 DEF RecordInv, Recorded, Work
  <2>6. CASE \/ job[m].step = "pool" /\ ~IsGrant(op)
             \/ job[m].step = "caps" /\ IsGrant(op)
    <3>1. job[m] # None
      BY <1>1, <1>5, ReadDoes, SaveGroupDoes, SaveServiceDoes, BuildDoes, CapsDoes,
         PoolDoes, RaiseDoes DEF Command, CommandFails
    <3>2. Work(job[m]) /\ op \in Operation
      BY <1>1, <3>1, JobFacts DEF RecordInv
    <3>3. Recorded(op)
      BY <2>6, <3>2 DEF Work, WorkIn, CurrentOp, Recorded, RecordedIn
    <3>4. RecordedIn(op, groups', services')
      BY <3>2, <3>3, RecordedKept
    <3>5. QED
      BY <1>1, <1>2, <2>1, <2>2, <2>3, <2>4, <3>4 DEF RecordInv, Recorded, Work
  <2>7. QED
    BY <2>4, <2>5, <2>6
<1>6. QED
  BY <1>4, <1>5, NextCases

LEMMA RecordInit == Init => RecordInv
<1> SUFFICES ASSUME Init PROVE RecordInv
  OBVIOUS
<1>1. TypeInv
  BY TypeInit
<1>2. \A m \in Mons : job[m] = None /\ Done(m) = {}
  BY DEF Init, RegistryInit, Done
<1>3. Promised = {}
  <2>1. ASSUME NEW r \in Promised PROVE FALSE
    <3>1. r \in Requests /\ [req |-> r, ok |-> TRUE] = None
      BY DEF Promised, Init
    <3>2. [req |-> r, ok |-> TRUE] \in Response
      BY <3>1 DEF Response
    <3>3. QED
      BY <3>1, <3>2, BrokerAssumption
  <2>2. QED
    BY <2>1
<1>4. CarriedOut = {}
  BY <1>2, <1>3 DEF CarriedOut
<1>5. GroupsListMembers
  BY DEF Init, RegistryInit, GroupsListMembers
<1>6. PoolsThere
  BY <1>2, <1>3 DEF PoolsThere, At
<1>7. QED
  BY <1>1, <1>2, <1>4, <1>5, <1>6 DEF RecordInv

\* Where no step takes anything from the registry, every group lists the
\* services that are recorded as its users: the group is written before the
\* service, and a hook that dies in between leaves a group that lists too many.
\* No error of a command breaks this, other than through Keeps.
THEOREM MembersListed == Spec /\ [][Keeps]_vars => []GroupsListMembers
<1>1. RecordInv => GroupsListMembers
  BY DEF RecordInv
<1>2. UNCHANGED vars => Keeps
  BY NothingLost DEF vars, registryVars
<1>3. RecordInv /\ [Next]_vars /\ [Keeps]_vars => RecordInv'
  BY <1>2, RecordStep
<1>4. QED
  BY RecordInit, <1>1, <1>3, PTL DEF Spec

\* Where no step takes anything from the registry, an answer of success is true
\* of all operations of its request, whatever hooks die or commands fail before,
\* and although it reports the last operation only.
THEOREM AnswersTrue == Spec /\ [][Keeps]_vars => []AnswersTruthful
<1>1. RecordInv => AnswersTruthful
  <2> SUFFICES ASSUME RecordInv, NEW r \in Granted
               PROVE  /\ ~IsGrant(LastOf(r)) => LastOf(r).pool \in pools
                      /\ \A op \in OpsOf(r) : op.group # None =>
                           IF IsGrant(op) THEN KeyOf(op) \in services[op.service]
                                          ELSE op.pool \in groups[KeyOf(op)].pools
    BY DEF AnswersTruthful, LastOf
  <2>1. r \in Requests /\ r \in Promised
    BY DEF Granted, Promised
  <2>2. \A op \in OpsOf(r) : op \in CarriedOut
    BY <2>1, OpsTyped DEF CarriedOut
  <2>3. QED
    BY <2>1, <2>2 DEF RecordInv, Recorded, RecordedIn, PoolsThere
<1>2. UNCHANGED vars => Keeps
  BY NothingLost DEF vars, registryVars
<1>3. RecordInv /\ [Next]_vars /\ [Keeps]_vars => RecordInv'
  BY <1>2, RecordStep
<1>4. QED
  BY RecordInit, <1>1, <1>3, PTL DEF Spec

--------------------------------------------------------------------------------
(* Where updates are kept: with a Ceph leader that waits for the request at *)
(* hand, and reads that do not fail, a whole value that is written back is  *)
(* the one that is there, and what the operation adds to it.                *)

\* What a job has read, at the steps that write it back.
Fresh(j, gs, ss) ==
  LET op == Ops[j.req][j.at]
  IN /\ j.step = "saveGroup" => j.group = gs[KeyOf(op)]
     /\ IsGrant(op) /\ j.step \in {"saveGroup", "saveService"}
          => j.names = ss[op.service]

FreshInv ==
  /\ TypeInv
  /\ \A m \in Mons : job[m] # None => leader = m /\ Fresh(job[m], groups, services)

ReadsSucceed == "read" \notin MayFail

LEMMA FreshCommand ==
  ASSUME ReadsSucceed, FreshInv, NEW m \in Mons, Command(m) \/ CommandFails(m)
  PROVE  /\ job[m] # None /\ OthersStay(m) /\ Keeps
         /\ job'[m] # None => Fresh(job'[m], groups', services')
<1> DEFINE op == CurrentOp(m)
           k == KeyOf(op)
<1>1. /\ TypeInv
      /\ job[m] # None => Fresh(job[m], groups, services) /\ op \in Operation
  BY JobFacts DEF FreshInv
<1>2. ASSUME NEW step, GoesTo(m, step)
      PROVE  /\ Ops[job'[m].req][job'[m].at] = op /\ job'[m].step = step
  BY <1>2 DEF GoesTo, CurrentOp
<1>3. ASSUME job'[m].step \notin {"saveGroup", "saveService"}
      PROVE  Fresh(job'[m], groups', services')
  BY <1>3 DEF Fresh
<1>4. CASE BeginOp(m)
  <2>1. /\ job[m] # None /\ OthersStay(m) /\ UNCHANGED registryVars
        /\ \/ op.group = None /\ GoesTo(m, "pool")
           \/ /\ op.group # None /\ GoesTo(m, "saveGroup")
              /\ job'[m].group = groups[k]
              /\ job'[m].names = IF IsGrant(op) THEN services[op.service] ELSE {}
    BY <1>1, <1>4, ReadDoes
  <2>2. CASE GoesTo(m, "pool")
    BY <1>2, <1>3, <2>1, <2>2, NothingLost
  <2>3. CASE /\ GoesTo(m, "saveGroup") /\ job'[m].group = groups[k]
             /\ job'[m].names = IF IsGrant(op) THEN services[op.service] ELSE {}
    <3>1. Ops[job'[m].req][job'[m].at] = op /\ UNCHANGED <<groups, services>>
      BY <1>2, <2>1, <2>3 DEF registryVars
    <3> HIDE DEF op
    <3>2. Fresh(job'[m], groups', services')
      BY <2>3, <3>1 DEF Fresh, k
    <3>3. QED
      BY <2>1, <3>2, NothingLost
  <2>4. QED
    BY <2>1, <2>2, <2>3
<1>5. CASE SaveGroup(m)
  <2>1. /\ job[m] # None /\ job[m].step = "saveGroup" /\ OthersStay(m)
        /\ k \in GroupKeys /\ UNCHANGED services
        /\ job[m].group.services \subseteq groups'[k].services
        /\ job[m].group.pools \subseteq groups'[k].pools
        /\ \A i \in GroupKeys \ {k} : groups'[i] = groups[i]
        /\ IsGrant(op) => GoesTo(m, "saveService") /\ job'[m].names = job[m].names
        /\ ~IsGrant(op) => GoesTo(m, "build") \/ GoesTo(m, "pool")
    BY <1>1, <1>5, SaveGroupDoes
  <2>2. /\ job[m].group = groups[k]
        /\ IsGrant(op) => job[m].names = services[op.service]
    BY <1>1, <2>1 DEF Fresh, CurrentOp
  <2>3. Keeps
    BY <2>1, <2>2 DEF Keeps
  <2>4. CASE ~IsGrant(op)
    BY <1>2, <1>3, <2>1, <2>3, <2>4
  <2>5. CASE IsGrant(op)
    <3>1. /\ Ops[job'[m].req][job'[m].at] = op /\ job'[m].step = "saveService"
          /\ job'[m].names = services'[op.service]
      BY <1>2, <2>1, <2>2, <2>5
    <3> HIDE DEF op
    <3>2. Fresh(job'[m], groups', services')
      BY <2>5, <3>1 DEF Fresh
    <3>3. QED
      BY <2>1, <2>3, <3>2
  <2>6. QED
    BY <2>4, <2>5
<1>6. CASE SaveService(m)
  <2>1. /\ job[m] # None /\ job[m].step = "saveService" /\ OthersStay(m)
        /\ IsGrant(op) /\ job[m].names \subseteq services'[op.service]
        /\ \A s \in Services \ {op.service} : services'[s] = services[s]
        /\ UNCHANGED groups /\ GoesTo(m, "build")
    BY <1>1, <1>6, SaveServiceDoes
  <2>2. job[m].names = services[op.service]
    BY <1>1, <2>1 DEF Fresh, CurrentOp
  <2>3. Keeps
    BY <2>1, <2>2 DEF Keeps
  <2>4. QED
    BY <1>2, <1>3, <2>1, <2>3
<1>7. CASE BuildPermissions(m)
  <2>1. /\ job[m] # None /\ OthersStay(m) /\ UNCHANGED registryVars
        /\ GoesTo(m, "caps")
    BY <1>1, <1>7, BuildDoes
  <2>2. QED
    BY <1>2, <1>3, <2>1, NothingLost
<1>8. CASE SetCaps(m) \/ SetCapsFails(m)
  <2>1. /\ job[m] # None /\ OthersStay(m) /\ UNCHANGED <<groups, services>>
        /\ GoesTo(m, "build") \/ Finishes(m, "ok") \/ GoesTo(m, "pool")
    BY <1>1, <1>8, CapsDoes
  <2>2. Keeps
    BY <2>1 DEF Keeps
  <2>3. QED
    BY <1>3, <2>1, <2>2 DEF GoesTo, Finishes
<1>9. CASE CreatePool(m) \/ OpReturnsError(m)
  <2>1. /\ job[m] # None /\ OthersStay(m) /\ UNCHANGED <<groups, services>>
        /\ Finishes(m, "ok") \/ Finishes(m, "error")
    BY <1>1, <1>9, PoolDoes
  <2>2. Keeps
    BY <2>1 DEF Keeps
  <2>3. QED
    BY <1>3, <2>1, <2>2 DEF Finishes
<1>10. CASE OpRaises(m)
  <2>1. /\ job[m] # None /\ OthersStay(m) /\ UNCHANGED registryVars
        /\ GoesTo(m, "reply")
    BY <1>1, <1>10, RaiseDoes
  <2>2. QED
    BY <1>2, <1>3, <2>1, NothingLost
<1>11. QED
  BY <1>4, <1>5, <1>6, <1>7, <1>8, <1>9, <1>10 DEF Command, CommandFails, ReadsSucceed

\* The leader while a step is taken elsewhere.
LEMMA LeaderStays ==
  ASSUME HandoverWaits, FreshInv, Elsewhere, NEW n \in Mons, job'[n] # None
  PROVE  leader' = n
<1>1. TypeInv /\ \A m \in Mons : job[m] # None => leader = m
  BY DEF FreshInv
<1>2. /\ UNCHANGED registryVars
      /\ \/ job'[n] = job[n] /\ job[n] # None
         \/ job[n] = None
  BY <1>1, ElsewhereDoes
<1>3. CASE job[n] # None
  <2>1. leader = n /\ leader # None
    BY <1>1, <1>3, BrokerAssumption
  <2>2. ~LoseLeader /\ \A m \in Mons : ~ElectLeader(m)
    BY <1>3, <2>1 DEF LoseLeader, ElectLeader, Busy
  <2>3. UNCHANGED leader
    BY <2>2 DEF Elsewhere, BeginHook, RetryHook, Run, Respond, Commit, UpgradeCharm,
                Crash, IgnoreRequest, ServeRequest, ChangeRequest, OsdsBootstrapped,
                vars
  <2>4. QED
    BY <2>1, <2>3
<1>4. CASE job[n] = None
  <2>1. job' # job
    BY <1>4
  <2>2. PICK m \in Mons : \/ \E c \in Clients : ServeRequest(m, c)
                          \/ Respond(m) \/ Crash(m)
    BY <2>1 DEF Elsewhere, BeginHook, RetryHook, Run, Commit, UpgradeCharm, ElectLeader,
                IgnoreRequest, ChangeRequest, OsdsBootstrapped, LoseLeader, vars
  <2>3. job \in [Mons -> Job \cup {None}]
    BY <1>1 DEF TypeInv, TypeOK, RegistryTypeOK
  <2>4. ~Respond(m) /\ ~Crash(m)
    BY <1>4, <2>3 DEF Respond, Crash
  <2>5. \E c \in Clients : ServeRequest(m, c)
    BY <2>2, <2>4
  <2>6. leader = m /\ UNCHANGED leader
    BY <2>5 DEF ServeRequest, ToServe
  <2>7. n = m
    BY <1>4, <2>3, <2>5 DEF ServeRequest, StartJob
  <2>8. QED
    BY <2>6, <2>7
<1>5. QED
  BY <1>3, <1>4

LEMMA FreshStep ==
  ASSUME HandoverWaits, ReadsSucceed
  PROVE  FreshInv /\ [Next]_vars => FreshInv' /\ Keeps
<1> SUFFICES ASSUME FreshInv, [Next]_vars PROVE FreshInv' /\ Keeps
  OBVIOUS
<1>1. TypeInv /\ TypeInv'
  BY TypeStep DEF FreshInv
<1>2. CASE Elsewhere
  <2>1. /\ UNCHANGED registryVars
        /\ \A n \in Mons : \/ job'[n] \in {job[n], None}
                           \/ job[n] = None /\ NewJob(job'[n])
    BY <1>1, <1>2, ElsewhereDoes
  <2>2. ASSUME NEW n \in Mons, job'[n] # None
        PROVE  Fresh(job'[n], groups', services')
    <3>1. CASE NewJob(job'[n])
      BY <3>1 DEF NewJob, Fresh
    <3>2. CASE job'[n] = job[n]
      <4>1. Fresh(job[n], groups, services)
        BY <2>2, <3>2 DEF FreshInv
      <4>2. QED
        BY <2>1, <3>2, <4>1 DEF registryVars
    <3>3. QED
      BY <2>1, <2>2, <3>1, <3>2
  <2>3. \A n \in Mons : job'[n] # None => leader' = n
    BY <1>2, LeaderStays
  <2>4. QED
    BY <1>1, <2>1, <2>2, <2>3, NothingLost DEF FreshInv
<1>3. ASSUME NEW m \in Mons, Command(m) \/ CommandFails(m), UNCHANGED leader
      PROVE  FreshInv' /\ Keeps
  <2>1. /\ job[m] # None /\ OthersStay(m) /\ Keeps
        /\ job'[m] # None => Fresh(job'[m], groups', services')
    BY <1>3, FreshCommand
  <2>2. leader = m /\ \A n \in Mons \ {m} : job'[n] = None
    BY <2>1 DEF FreshInv, OthersStay
  <2>3. QED
    BY <1>1, <1>3, <2>1, <2>2 DEF FreshInv
<1>4. QED
  BY <1>2, <1>3, NextCases

\* A step of the broker adds to the registry and takes nothing from it, as long
\* as the Ceph monitors keep their leader while a request is carried out and
\* the read of a key does not fail (a failed read passes for a key that is not
\* there, broker.py:367; monitor_key_get is charmhelpers'). The code ensures
\* neither: README, section 4.
THEOREM UpdatesKept ==
  ASSUME HandoverWaits, ReadsSucceed
  PROVE  Spec => [][Keeps]_vars
<1>1. Init => FreshInv
  BY TypeInit DEF Init, RegistryInit, FreshInv
<1>2. FreshInv /\ [Next]_vars => FreshInv' /\ Keeps
  BY FreshStep
<1>3. QED
  BY <1>1, <1>2, PTL DEF Spec

--------------------------------------------------------------------------------
(* Access is bounded, unless a service is in groups with and without a      *)
(* namespace: a request with a namespace puts it before all recorded names  *)
(* of the services that it touches.                                         *)

PlainKeys == {<<g>> : g \in Groups}

\* The services that a request puts in a group with a namespace, or without.
SpacedServices ==
  {s \in Services : \E r \in Requests : \E i \in DOMAIN Ops[r] :
     IsGrant(Ops[r][i]) /\ Ops[r][i].service = s /\ Ops[r][i].ns # None}

PlainServices ==
  {s \in Services : \E r \in Requests : \E i \in DOMAIN Ops[r] :
     IsGrant(Ops[r][i]) /\ Ops[r][i].service = s /\ Ops[r][i].ns = None}

Unmixed == SpacedServices \cap PlainServices = {}

PoolsIn(names, gs) == UNION {gs[k].pools : k \in names}

\* What bounds the permissions that a job is going to set.
Bound(j, gs, ss) ==
  LET op == Ops[j.req][j.at]
  IN /\ /\ IsGrant(op) /\ j.step \in {"saveGroup", "saveService", "build", "caps"}
        /\ j.names \cap PlainKeys # {}
        => op.service \in PlainServices
     /\ op.ns # None /\ j.step = "saveGroup" => j.group.services \subseteq SpacedServices
     /\ op.ns # None /\ j.step \in {"build", "caps"} => j.todo \subseteq SpacedServices
     /\ j.step = "caps" => j.perm \subseteq PoolsIn(ss[j.who], gs)

BoundInv ==
  /\ RecordInv
  /\ NoExcessAccess
  /\ \A k \in GroupKeys \ RecordedKeys : groups[k].pools = {}
  /\ \A k \in RecordedKeys \ PlainKeys : groups[k].services \subseteq SpacedServices
  /\ \A s \in Services : services[s] \cap PlainKeys # {} => s \in PlainServices
  /\ \A m \in Mons : job[m] # None => Bound(job[m], groups, services)

LEMMA KeysApart ==
  ASSUME NEW op \in Operation, op.group # None
  PROVE  KeyOf(op) \in PlainKeys <=> op.ns = None
<1>1. op.group \in Groups /\ op.ns \in Namespaces \cup {None}
  BY RegistryAssumption DEF Operation
<1>2. \A n \in Namespaces, g, h \in Groups : <<n, g>> # <<h>>
  <2> SUFFICES ASSUME NEW n \in Namespaces, NEW g \in Groups, NEW h \in Groups,
                      <<n, g>> = <<h>>
               PROVE  FALSE
    OBVIOUS
  <2>1. Len(<<n, g>>) = 2 /\ Len(<<h>>) = 1
    OBVIOUS
  <2>2. QED
    BY <2>1
<1>3. CASE op.ns = None
  BY <1>1, <1>3 DEF KeyOf, PlainKeys
<1>4. CASE op.ns # None
  BY <1>1, <1>2, <1>4 DEF KeyOf, PlainKeys
<1>5. QED
  BY <1>3, <1>4

\* With a namespace before it, a name that has one already is the name of no
\* group.
LEMMA NoGroup ==
  ASSUME NEW k \in RecordedKeys \ PlainKeys, NEW n \in Namespaces, n # None
  PROVE  LookupKey(k, n) \in GroupKeys \ RecordedKeys
<1>1. PICK o \in Namespaces, g \in Groups : k = <<o, g>>
  BY DEF RecordedKeys, PlainKeys
<1>2. LookupKey(k, n) = <<n, o, g>>
  BY <1>1, Prefixed DEF LookupKey
<1>3. Len(<<n, o, g>>) = 3
  OBVIOUS
<1>4. \A i \in RecordedKeys : Len(i) = 1 \/ Len(i) = 2
  BY DEF RecordedKeys
<1>5. <<n, o, g>> \notin RecordedKeys
  BY <1>3, <1>4
<1>6. <<n, o, g>> \in GroupKeys
  BY DEF GroupKeys
<1>7. QED
  BY <1>2, <1>5, <1>6

\* What bounds a key grows with the registry.
LEMMA PoolsGrow ==
  ASSUME TypeInv, Keeps, NEW s \in Services
  PROVE  PoolsIn(services[s], groups) \subseteq PoolsIn(services'[s], groups')
<1>1. services[s] \subseteq services'[s] /\ services[s] \subseteq GroupKeys
  BY KeysTyped DEF TypeInv, Keeps
<1>2. \A k \in GroupKeys : groups[k].pools \subseteq groups'[k].pools
  BY DEF Keeps
<1>3. QED
  BY <1>1, <1>2 DEF PoolsIn

LEMMA BoundKept ==
  ASSUME TypeInv, Keeps, NEW m \in Mons, job[m] # None,
         Bound(job[m], groups, services)
  PROVE  Bound(job[m], groups', services')
<1>1. job[m].step = "caps" => job[m].who \in Services
  BY JobFacts DEF JobTyped
<1>2. job[m].step = "caps"
        => job[m].perm \subseteq PoolsIn(services'[job[m].who], groups')
  BY <1>1, PoolsGrow DEF Bound
<1>3. QED
  BY <1>2 DEF Bound

\* The operation at hand counts for the kind of its service.
LEMMA KindOfService ==
  ASSUME TypeInv, NEW m \in Mons, job[m] # None, IsGrant(CurrentOp(m))
  PROVE  /\ CurrentOp(m).ns # None => CurrentOp(m).service \in SpacedServices
         /\ CurrentOp(m).ns = None => CurrentOp(m).service \in PlainServices
<1>1. /\ job[m].req \in Requests /\ job[m].at \in DOMAIN Ops[job[m].req]
      /\ CurrentOp(m) \in Operation
  BY JobFacts DEF Job, JobTyped
<1>2. CurrentOp(m).service \in Services
  BY <1>1, Kinds
<1>3. QED
  BY <1>1, <1>2 DEF CurrentOp, SpacedServices, PlainServices

\* The pools that a key is about to get are those of its groups.
LEMMA PermissionsBounded ==
  ASSUME Unmixed, BoundInv, NEW m \in Mons, BuildPermissions(m)
  PROVE  job'[m].perm \subseteq PoolsIn(services[job'[m].who], groups)
<1> DEFINE op == CurrentOp(m)
           who == job'[m].who
           names == IF IsGrant(op) THEN job[m].names ELSE services[who]
<1>1. TypeInv
  BY DEF BoundInv, RecordInv
<1>2. /\ job[m] # None /\ job[m].step = "build" /\ op.group # None
      /\ who \in job[m].todo /\ who \in Services
      /\ job'[m].perm = PoolsFor({LookupKey(i, op.ns) : i \in names})
  BY <1>1, BuildDoes
<1>3. /\ Work(job[m]) /\ Bound(job[m], groups, services) /\ op \in Operation
  BY <1>1, <1>2, JobFacts DEF BoundInv, RecordInv
<1>4. IsGrant(op) => who = op.service /\ job[m].names \subseteq services[op.service]
  BY <1>2, <1>3 DEF Work, WorkIn, CurrentOp
<1>5. names \subseteq services[who]
  BY <1>4
<1>6. CASE op.ns = None
  <2>1. {LookupKey(i, op.ns) : i \in names} = names
    BY <1>6 DEF LookupKey
  <2> HIDE DEF names
  <2>2. QED
    BY <1>2, <1>5, <2>1 DEF PoolsFor, PoolsIn
<1>7. CASE op.ns # None
  <2>1. op.ns \in Namespaces
    BY <1>3, <1>7, Kinds
  <2>2. job[m].todo \subseteq SpacedServices
    BY <1>2, <1>3, <1>7 DEF Bound, CurrentOp
  <2>3. who \notin PlainServices
    BY <1>2, <2>2 DEF Unmixed
  <2>4. names \cap PlainKeys = {}
    <3>1. CASE IsGrant(op)
      BY <1>2, <1>3, <1>4, <2>3, <3>1 DEF Bound, CurrentOp
    <3>2. CASE ~IsGrant(op)
      BY <1>2, <2>3, <3>2 DEF BoundInv
    <3>3. QED
      BY <3>1, <3>2
  <2>5. services[who] \subseteq RecordedKeys
    BY <1>1, <1>2 DEF TypeInv
  <2> HIDE DEF names
  <2>6. names \subseteq RecordedKeys \ PlainKeys
    BY <1>5, <2>4, <2>5
  <2>7. \A i \in names : groups[LookupKey(i, op.ns)].pools = {}
    BY <1>7, <2>1, <2>6, NoGroup DEF BoundInv
  <2>8. job'[m].perm = {}
    BY <1>2, <2>7 DEF PoolsFor
  <2>9. QED
    BY <2>8
<1>8. QED
  BY <1>6, <1>7

LEMMA CommandBounded ==
  ASSUME Unmixed, BoundInv, RecordInv', Keeps, NEW m \in Mons,
         Command(m) \/ CommandFails(m)
  PROVE  /\ OthersStay(m) /\ NoExcessAccess'
         /\ \A k \in GroupKeys \ RecordedKeys : groups'[k].pools = {}
         /\ \A k \in RecordedKeys \ PlainKeys : groups'[k].services \subseteq SpacedServices
         /\ \A s \in Services : services'[s] \cap PlainKeys # {} => s \in PlainServices
         /\ Bound(job'[m], groups', services')
<1> DEFINE op == CurrentOp(m)
           k == KeyOf(op)
<1> DEFINE R1 == \A i \in GroupKeys \ RecordedKeys : groups'[i].pools = {}
           R2 == \A i \in RecordedKeys \ PlainKeys :
                   groups'[i].services \subseteq SpacedServices
           R3 == \A s \in Services : services'[s] \cap PlainKeys # {} => s \in PlainServices
<1>1. /\ TypeInv
      /\ job[m] # None => /\ Bound(job[m], groups, services) /\ Work(job[m])
                          /\ op \in Operation /\ JobTyped(job[m]) /\ job[m] \in Job
  BY JobFacts DEF BoundInv, RecordInv
<1>2. ASSUME NEW step, GoesTo(m, step)
      PROVE  /\ Ops[job'[m].req][job'[m].at] = op /\ job'[m].step = step
  BY <1>2 DEF GoesTo, CurrentOp
<1>3. job[m] # None /\ IsGrant(op) =>
        /\ op.service \in Services
        /\ op.ns # None => op.service \in SpacedServices
        /\ op.ns = None => op.service \in PlainServices
  BY <1>1, KindOfService, Kinds
<1>4. ASSUME UNCHANGED caps PROVE NoExcessAccess'
  <2>1. \A s \in Services : caps[s] \subseteq PoolsIn(services'[s], groups')
    BY <1>1, PoolsGrow DEF NoExcessAccess, BoundInv, PoolsIn
  <2>2. QED
    BY <1>4, <2>1 DEF NoExcessAccess, PoolsIn
<1>5. UNCHANGED groups => R1 /\ R2
  BY DEF BoundInv
<1>6. UNCHANGED services => R3
  BY DEF BoundInv
<1>7. ASSUME job'[m].step \notin {"saveGroup", "saveService", "build", "caps"}
      PROVE  Bound(job'[m], groups', services')
  BY <1>7 DEF Bound
<1> HIDE DEF R1, R2, R3
<1>8. CASE BeginOp(m) \/ ReadFails(m)
  <2>1. /\ job[m] # None /\ OthersStay(m) /\ UNCHANGED registryVars
        /\ \/ op.group = None /\ GoesTo(m, "pool")
           \/ /\ op.group # None /\ GoesTo(m, "saveGroup")
              /\ job'[m].group \in {groups[k], EmptyGroup}
              /\ job'[m].names \in {IF IsGrant(op) THEN services[op.service] ELSE {}, {}}
    BY <1>1, <1>8, ReadDoes
  <2>2. R1 /\ R2 /\ R3 /\ NoExcessAccess'
    BY <1>4, <1>5, <1>6, <2>1 DEF registryVars
  <2>3. CASE GoesTo(m, "pool")
    BY <1>2, <1>7, <2>1, <2>2, <2>3 DEF R1, R2, R3
  <2>4. CASE op.group # None /\ GoesTo(m, "saveGroup")
    <3>1. IsGrant(op) /\ job'[m].names \cap PlainKeys # {} => op.service \in PlainServices
      BY <1>3, <2>1, <2>4 DEF BoundInv, GoesTo
    <3>2. op.ns # None => job'[m].group.services \subseteq SpacedServices
      <4>1. op.ns # None => k \in RecordedKeys \ PlainKeys
        BY <1>1, <2>1, <2>4, KeysApart, Kinds
      <4>2. job'[m].group \in {groups[k], EmptyGroup}
        BY <2>1, <2>4 DEF GoesTo
      <4>3. QED
        BY <4>1, <4>2 DEF BoundInv, EmptyGroup
    <3>3. Ops[job'[m].req][job'[m].at] = op /\ job'[m].step = "saveGroup"
      BY <1>2, <2>4
    <3> HIDE DEF op
    <3>4. Bound(job'[m], groups', services')
      BY <3>1, <3>2, <3>3 DEF Bound
    <3>5. QED
      BY <2>1, <2>2, <3>4 DEF R1, R2, R3
  <2>5. QED
    BY <2>1, <2>3, <2>4
<1>9. CASE SaveGroup(m)
  <2>1. /\ job[m] # None /\ job[m].step = "saveGroup" /\ OthersStay(m)
        /\ op.group # None /\ k \in RecordedKeys /\ UNCHANGED <<services, caps>>
        /\ groups'[k].services = IF IsGrant(op) THEN job[m].group.services \cup {op.service}
                                                ELSE job[m].group.services
        /\ \A i \in GroupKeys \ {k} : groups'[i] = groups[i]
        /\ IsGrant(op) => GoesTo(m, "saveService") /\ job'[m].names = job[m].names
        /\ ~IsGrant(op) => /\ GoesTo(m, "build") \/ GoesTo(m, "pool")
                           /\ job'[m].todo = job[m].group.services
    BY <1>1, <1>9, SaveGroupDoes
  <2>2. op.ns # None => job[m].group.services \subseteq SpacedServices
    BY <1>1, <2>1 DEF Bound, CurrentOp
  <2>3. R1
    BY <2>1 DEF R1, BoundInv
  <2>4. R2
    <3>1. k \notin PlainKeys => groups'[k].services \subseteq SpacedServices
      BY <1>1, <1>3, <2>1, <2>2, KeysApart
    <3>2. RecordedKeys \subseteq GroupKeys
      BY KeysTyped
    <3>3. QED
      BY <2>1, <3>1, <3>2 DEF R2, BoundInv
  <2>5. R3 /\ NoExcessAccess'
    BY <1>4, <1>6, <2>1
  <2>6. CASE IsGrant(op)
    <3>1. job[m].names \cap PlainKeys # {} => op.service \in PlainServices
      BY <1>1, <2>1, <2>6 DEF Bound, CurrentOp
    <3>2. /\ Ops[job'[m].req][job'[m].at] = op /\ job'[m].step = "saveService"
          /\ job'[m].names = job[m].names
      BY <1>2, <2>1, <2>6
    <3> HIDE DEF op
    <3>3. Bound(job'[m], groups', services')
      BY <3>1, <3>2 DEF Bound
    <3>4. QED
      BY <2>1, <2>3, <2>4, <2>5, <3>3 DEF R1, R2, R3
  <2>7. CASE ~IsGrant(op)
    <3>1. /\ Ops[job'[m].req][job'[m].at] = op /\ job'[m].step \in {"build", "pool"}
          /\ job'[m].todo = job[m].group.services
      BY <1>2, <2>1, <2>7
    <3> HIDE DEF op
    <3>2. Bound(job'[m], groups', services')
      BY <2>2, <2>7, <3>1 DEF Bound
    <3>3. QED
      BY <2>1, <2>3, <2>4, <2>5, <3>2 DEF R1, R2, R3
  <2>8. QED
    BY <2>6, <2>7
<1>10. CASE SaveService(m)
  <2>1. /\ job[m] # None /\ job[m].step = "saveService" /\ OthersStay(m)
        /\ IsGrant(op) /\ op.service \in Services
        /\ services'[op.service] = job[m].names \cup {k}
        /\ \A s \in Services \ {op.service} : services'[s] = services[s]
        /\ UNCHANGED <<groups, caps>>
        /\ GoesTo(m, "build") /\ job'[m].todo = {op.service}
        /\ job'[m].names = job[m].names \cup {k}
    BY <1>1, <1>10, SaveServiceDoes
  <2>2. op.group # None
    BY <1>1, <2>1, Kinds
  <2>3. (job[m].names \cup {k}) \cap PlainKeys # {} => op.service \in PlainServices
    <3>1. job[m].names \cap PlainKeys # {} => op.service \in PlainServices
      BY <1>1, <2>1 DEF Bound, CurrentOp
    <3>2. k \in PlainKeys => op.service \in PlainServices
      BY <1>1, <1>3, <2>1, <2>2, KeysApart
    <3>3. QED
      BY <3>1, <3>2
  <2>4. R3
    BY <2>1, <2>3 DEF R3, BoundInv
  <2>5. /\ Ops[job'[m].req][job'[m].at] = op /\ job'[m].step = "build"
    BY <1>2, <2>1
  <2>6. op.ns # None => op.service \in SpacedServices
    BY <1>3, <2>1
  <2> HIDE DEF op
  <2>7. Bound(job'[m], groups', services')
    BY <2>1, <2>3, <2>5, <2>6 DEF Bound
  <2>8. QED
    BY <1>4, <1>5, <2>1, <2>4, <2>7 DEF R1, R2, R3
<1>11. CASE BuildPermissions(m)
  <2>1. /\ job[m] # None /\ job[m].step = "build" /\ OthersStay(m)
        /\ UNCHANGED registryVars
        /\ GoesTo(m, "caps") /\ job'[m].todo = job[m].todo
        /\ job'[m].names = job[m].names
    BY <1>1, <1>11, BuildDoes
  <2>2. job'[m].perm \subseteq PoolsIn(services'[job'[m].who], groups')
    BY <1>11, <2>1, PermissionsBounded DEF registryVars
  <2>3. /\ Ops[job'[m].req][job'[m].at] = op /\ job'[m].step = "caps"
    BY <1>2, <2>1
  <2>4. /\ IsGrant(op) /\ job[m].names \cap PlainKeys # {} => op.service \in PlainServices
        /\ op.ns # None => job[m].todo \subseteq SpacedServices
    BY <1>1, <2>1 DEF Bound, CurrentOp
  <2> HIDE DEF op
  <2>5. Bound(job'[m], groups', services')
    BY <2>1, <2>2, <2>3, <2>4 DEF Bound
  <2>6. QED
    BY <1>4, <1>5, <1>6, <2>1, <2>5 DEF R1, R2, R3, registryVars
<1>12. CASE SetCaps(m) \/ SetCapsFails(m)
  <2> DEFINE who == job[m].who
             rest == job[m].todo \ {who}
  <2>1. /\ job[m] # None /\ job[m].step = "caps" /\ OthersStay(m)
        /\ who \in Services /\ UNCHANGED <<groups, services>>
        /\ \/ UNCHANGED caps
           \/ /\ caps'[who] = job[m].perm
              /\ \A s \in Services \ {who} : caps'[s] = caps[s]
        /\ rest # {} => /\ GoesTo(m, "build") /\ job'[m].todo = rest
                        /\ job'[m].names = job[m].names
        /\ rest = {} /\ IsGrant(op) => Finishes(m, "ok")
        /\ rest = {} /\ ~IsGrant(op) => GoesTo(m, "pool")
    BY <1>1, <1>12, CapsDoes
  <2>2. NoExcessAccess'
    <3>1. job[m].perm \subseteq PoolsIn(services[who], groups)
      BY <1>1, <2>1 DEF Bound
    <3> HIDE DEF who
    <3>2. \A s \in Services : caps'[s] \subseteq PoolsIn(services[s], groups)
      BY <2>1, <3>1 DEF BoundInv, NoExcessAccess, PoolsIn
    <3>3. QED
      BY <2>1, <3>2 DEF NoExcessAccess, PoolsIn
  <2>3. CASE rest # {}
    <3>1. /\ IsGrant(op) /\ job[m].names \cap PlainKeys # {} => op.service \in PlainServices
          /\ op.ns # None => job[m].todo \subseteq SpacedServices
      BY <1>1, <2>1 DEF Bound, CurrentOp
    <3>2. /\ Ops[job'[m].req][job'[m].at] = op /\ job'[m].step = "build"
          /\ job'[m].names = job[m].names /\ job'[m].todo \subseteq job[m].todo
      BY <1>2, <2>1, <2>3
    <3> HIDE DEF op
    <3>3. Bound(job'[m], groups', services')
      BY <3>1, <3>2 DEF Bound
    <3>4. QED
      BY <1>5, <1>6, <2>1, <2>2, <3>3 DEF R1, R2, R3
  <2>4. CASE rest = {}
    <3>1. job'[m].step \notin {"saveGroup", "saveService", "build", "caps"}
      BY <2>1, <2>4 DEF GoesTo, Finishes
    <3>2. QED
      BY <1>5, <1>6, <1>7, <2>1, <2>2, <3>1 DEF R1, R2, R3
  <2>5. QED
    BY <2>3, <2>4
<1>13. CASE CreatePool(m) \/ OpReturnsError(m)
  <2>1. /\ OthersStay(m) /\ UNCHANGED <<groups, services, caps>>
        /\ Finishes(m, "ok") \/ Finishes(m, "error")
    BY <1>1, <1>13, PoolDoes
  <2>2. job'[m].step \notin {"saveGroup", "saveService", "build", "caps"}
    BY <2>1 DEF Finishes
  <2>3. QED
    BY <1>4, <1>5, <1>6, <1>7, <2>1, <2>2 DEF R1, R2, R3
<1>14. CASE OpRaises(m)
  <2>1. OthersStay(m) /\ UNCHANGED registryVars /\ GoesTo(m, "reply")
    BY <1>1, <1>14, RaiseDoes
  <2>2. QED
    BY <1>2, <1>4, <1>5, <1>6, <1>7, <2>1 DEF R1, R2, R3, registryVars
<1>15. QED
  BY <1>8, <1>9, <1>10, <1>11, <1>12, <1>13, <1>14 DEF Command, CommandFails

LEMMA BoundStep ==
  ASSUME Unmixed
  PROVE  BoundInv /\ [Next]_vars /\ Keeps => BoundInv'
<1> SUFFICES ASSUME BoundInv, [Next]_vars, Keeps PROVE BoundInv'
  OBVIOUS
<1>1. RecordInv /\ RecordInv' /\ TypeInv
  BY RecordStep DEF BoundInv, RecordInv
<1>2. ASSUME NEW n \in Mons, job[n] # None PROVE Bound(job[n], groups', services')
  BY <1>1, <1>2, BoundKept DEF BoundInv
<1>3. CASE Elsewhere
  <2>1. /\ UNCHANGED registryVars
        /\ \A n \in Mons : \/ job'[n] \in {job[n], None}
                           \/ job[n] = None /\ NewJob(job'[n])
    BY <1>1, <1>3, ElsewhereDoes
  <2>2. ASSUME NEW n \in Mons, job'[n] # None
        PROVE  Bound(job'[n], groups', services')
    <3>1. CASE NewJob(job'[n])
      BY <3>1 DEF NewJob, Bound
    <3>2. CASE job'[n] = job[n]
      BY <1>2, <2>2, <3>2
    <3>3. QED
      BY <2>1, <2>2, <3>1, <3>2
  <2>3. QED
    BY <1>1, <2>1, <2>2 DEF BoundInv, NoExcessAccess, registryVars
<1>4. ASSUME NEW m \in Mons, Command(m) \/ CommandFails(m) PROVE BoundInv'
  <2>1. /\ OthersStay(m) /\ NoExcessAccess'
        /\ \A k \in GroupKeys \ RecordedKeys : groups'[k].pools = {}
        /\ \A k \in RecordedKeys \ PlainKeys : groups'[k].services \subseteq SpacedServices
        /\ \A s \in Services : services'[s] \cap PlainKeys # {} => s \in PlainServices
        /\ Bound(job'[m], groups', services')
    BY <1>1, <1>4, CommandBounded
  <2>2. ASSUME NEW n \in Mons, job'[n] # None
        PROVE  Bound(job'[n], groups', services')
    <3>1. CASE n = m
      BY <2>1, <3>1
    <3>2. CASE n # m
      BY <1>2, <2>1, <2>2, <3>2 DEF OthersStay
    <3>3. QED
      BY <3>1, <3>2
  <2>3. QED
    BY <1>1, <2>1, <2>2 DEF BoundInv
<1>5. QED
  BY <1>3, <1>4, NextCases

\* Where no step takes anything from the registry and no service is in groups
\* with and without a namespace, a key reaches only the pools of the groups
\* that its service is recorded in, whatever commands fail. A mixed service may
\* get the pools of a group of which it is no member: README, section 4.
THEOREM AccessBounded ==
  ASSUME Unmixed
  PROVE  Spec /\ [][Keeps]_vars => []NoExcessAccess
<1>1. Init => BoundInv
  <2> SUFFICES ASSUME Init PROVE BoundInv
    OBVIOUS
  <2>1. RecordInv
    BY RecordInit
  <2>2. RecordedKeys \subseteq GroupKeys
    BY KeysTyped
  <2>3. QED
    BY <2>1, <2>2 DEF Init, RegistryInit, BoundInv, NoExcessAccess, EmptyGroup
<1>2. BoundInv => NoExcessAccess
  BY DEF BoundInv
<1>3. UNCHANGED vars => Keeps
  BY NothingLost DEF vars, registryVars
<1>4. BoundInv /\ [Next]_vars /\ [Keeps]_vars => BoundInv'
  BY <1>3, BoundStep
<1>5. QED
  BY <1>1, <1>2, <1>4, PTL DEF Spec

--------------------------------------------------------------------------------
(* Access is granted, where no request has a namespace and no key loses a   *)
(* pool: of a grant and a create of one group, whichever changes the group  *)
(* later finds what the other has put there.                                *)

NoNamespaces == \A r \in Requests : \A i \in DOMAIN Ops[r] : Ops[r][i].ns = None

CapsSucceed == "caps" \notin MayFail

\* A grant of group k to service s that was carried out; or one that will be as
\* soon as the key gets X.
GetsBy(m, s, k, X) ==
  /\ job[m] # None /\ job[m].step = "caps" /\ job[m].perm = X
  /\ IsGrant(CurrentOp(m)) /\ CurrentOp(m).service = s /\ KeyOf(CurrentOp(m)) = k

Gets(s, k, X) ==
  \/ X = {} /\ \E op \in CarriedOut : IsGrant(op) /\ op.service = s /\ KeyOf(op) = k
  \/ \E m \in Mons : GetsBy(m, s, k, X)

\* A create of pool p in group k that was carried out; or one that will be when
\* the keys in T have been updated.
GivesBy(m, p, k, T) ==
  /\ job[m] # None /\ job[m].step \in {"build", "caps", "pool"} /\ job[m].todo = T
  /\ ~IsGrant(CurrentOp(m)) /\ CurrentOp(m).group # None
  /\ CurrentOp(m).pool = p /\ KeyOf(CurrentOp(m)) = k

Gives(p, k, T) ==
  \/ T = {} /\ \E op \in CarriedOut :
                 ~IsGrant(op) /\ op.group # None /\ op.pool = p /\ KeyOf(op) = k
  \/ \E m \in Mons : GivesBy(m, p, k, T)

\* What a job that is about to update a key knows of it.
KnowsKey(m) ==
  LET op == CurrentOp(m)
  IN /\ job[m].step = "caps" /\ ~IsGrant(op)
          => \A s \in Services, k \in RecordedKeys, X \in SUBSET Pools :
               job[m].who = s /\ KeyOf(op) = k /\ Gets(s, k, X)
               => op.pool \in job[m].perm \cup X \cup caps[s]
     /\ job[m].step = "pool" /\ op.group # None => job[m].todo = {}

Reaches ==
  \A s \in Services, k \in RecordedKeys, p \in Pools :
    \A X \in SUBSET Pools, T \in SUBSET Services :
      Gets(s, k, X) /\ Gives(p, k, T) => s \in T \/ p \in X \cup caps[s]

ReachInv ==
  /\ RecordInv
  /\ Reaches
  /\ \A m \in Mons : job[m] # None => KnowsKey(m)

LEMMA CommandAlone ==
  ASSUME TypeInv, NEW m \in Mons, Command(m) \/ CommandFails(m)
  PROVE  OthersStay(m) /\ job[m] # None
<1>1. CASE BeginOp(m) \/ ReadFails(m)
  BY <1>1, ReadDoes
<1>2. CASE SaveGroup(m)
  BY <1>2, SaveGroupDoes
<1>3. CASE SaveService(m)
  BY <1>3, SaveServiceDoes
<1>4. CASE BuildPermissions(m)
  BY <1>4, BuildDoes
<1>5. CASE SetCaps(m) \/ SetCapsFails(m)
  BY <1>5, CapsDoes
<1>6. CASE CreatePool(m) \/ OpReturnsError(m)
  BY <1>6, PoolDoes
<1>7. CASE OpRaises(m)
  BY <1>7, RaiseDoes
<1>8. QED
  BY <1>1, <1>2, <1>3, <1>4, <1>5, <1>6, <1>7 DEF Command, CommandFails

LEMMA KeyUpdated ==
  ASSUME TypeInv, NEW m \in Mons, SetCaps(m)
  PROVE  /\ job[m] # None /\ job[m].step = "caps" /\ job[m].who \in Services
         /\ caps'[job[m].who] = job[m].perm
<1>1. job[m] # None /\ job[m].step = "caps"
  BY DEF SetCaps, At
<1>2. job[m].who \in Services
  BY <1>1, JobFacts DEF JobTyped
<1>3. caps \in [Services -> SUBSET Pools]
  BY DEF TypeInv, TypeOK, RegistryTypeOK
<1>4. QED
  BY <1>1, <1>2, <1>3 DEF SetCaps

\* Members of a group are recorded before they are granted it.
LEMMA GetsRecorded ==
  RecordInv => \A s, k, X : Gets(s, k, X) =>
                 /\ s \in Services /\ k \in services[s]
                 /\ s \in groups[k].services
<1> SUFFICES ASSUME RecordInv, NEW s, NEW k, NEW X, Gets(s, k, X)
             PROVE  s \in Services /\ k \in services[s] /\ s \in groups[k].services
  OBVIOUS
<1>1. CASE \E op \in CarriedOut : IsGrant(op) /\ op.service = s /\ KeyOf(op) = k
  <2>1. PICK op \in CarriedOut : IsGrant(op) /\ op.service = s /\ KeyOf(op) = k
    BY <1>1
  <2>2. op \in Operation /\ Recorded(op) /\ op.group # None /\ op.service \in Services
    BY <2>1, Kinds DEF CarriedOut, RecordInv
  <2>3. QED
    BY <2>1, <2>2 DEF Recorded, RecordedIn
<1>2. CASE \E m \in Mons : GetsBy(m, s, k, X)
  <2>1. PICK m \in Mons : GetsBy(m, s, k, X)
    BY <1>2
  <2>2. Work(job[m]) /\ CurrentOp(m) \in Operation
    BY <2>1, JobFacts DEF RecordInv, GetsBy
  <2>3. CurrentOp(m).service \in Services
    BY <2>1, <2>2, Kinds DEF GetsBy
  <2>4. QED
    BY <2>1, <2>2, <2>3 DEF Work, WorkIn, GetsBy, CurrentOp
<1>3. QED
  BY <1>1, <1>2 DEF Gets

LEMMA GivesRecorded ==
  RecordInv => \A p, k, T : Gives(p, k, T) => p \in groups[k].pools
<1> SUFFICES ASSUME RecordInv, NEW p, NEW k, NEW T, Gives(p, k, T)
             PROVE  p \in groups[k].pools
  OBVIOUS
<1>1. CASE \E op \in CarriedOut :
             ~IsGrant(op) /\ op.group # None /\ op.pool = p /\ KeyOf(op) = k
  BY <1>1 DEF RecordInv, Recorded, RecordedIn
<1>2. CASE \E m \in Mons : GivesBy(m, p, k, T)
  <2>1. PICK m \in Mons : GivesBy(m, p, k, T)
    BY <1>2
  <2>2. Work(job[m])
    BY <2>1 DEF RecordInv, GivesBy
  <2>3. QED
    BY <2>1, <2>2 DEF Work, WorkIn, GivesBy, CurrentOp
<1>3. QED
  BY <1>1, <1>2 DEF Gives

\* Where a step takes place elsewhere, nobody gets or gives anything new.
LEMMA ElsewhereReach ==
  ASSUME TypeInv, Elsewhere
  PROVE  /\ \A s, k, X : Gets(s, k, X)' => Gets(s, k, X)
         /\ \A p, k, T : Gives(p, k, T)' => Gives(p, k, T)
<1>1. /\ UNCHANGED registryVars
      /\ \A n \in Mons : \/ job'[n] \in {job[n], None}
                         \/ job[n] = None /\ NewJob(job'[n])
      /\ CarriedOut' \subseteq CarriedOut
  BY ElsewhereDoes
<1>2. ASSUME NEW n \in Mons, NEW s, NEW k, NEW X, GetsBy(n, s, k, X)'
      PROVE  GetsBy(n, s, k, X)
  BY <1>1, <1>2 DEF GetsBy, NewJob, CurrentOp
<1>3. ASSUME NEW n \in Mons, NEW p, NEW k, NEW T, GivesBy(n, p, k, T)'
      PROVE  GivesBy(n, p, k, T)
  BY <1>1, <1>3 DEF GivesBy, NewJob, CurrentOp
<1>4. QED
  BY <1>1, <1>2, <1>3 DEF Gets, Gives

\* Without namespaces a key gets all pools of the names it is built from.
LEMMA BuildsAll ==
  ASSUME NoNamespaces, TypeInv, NEW m \in Mons, BuildPermissions(m)
  PROVE  job'[m].perm = PoolsFor(IF IsGrant(CurrentOp(m)) THEN job[m].names
                                                          ELSE services[job'[m].who])
<1> DEFINE op == CurrentOp(m)
           names == IF IsGrant(op) THEN job[m].names ELSE services[job'[m].who]
<1>1. /\ job[m] # None
      /\ job'[m].perm = PoolsFor({LookupKey(i, op.ns) : i \in names})
  BY BuildDoes
<1>2. op.ns = None
  BY <1>1, JobFacts DEF NoNamespaces, JobTyped, Job, CurrentOp
<1>3. {LookupKey(i, op.ns) : i \in names} = names
  BY <1>2 DEF LookupKey
<1>4. QED
  BY <1>1, <1>3

\* Who gets a group after a command got it before, or gets all that is in it.
LEMMA GetsFrom ==
  ASSUME NoNamespaces, CapsSucceed, RecordInv, KeysKeep, UNCHANGED <<rsp, out>>,
         NEW m \in Mons, Command(m) \/ CommandFails(m),
         NEW s, NEW k, NEW X, Gets(s, k, X)'
  PROVE  \/ \E Y \in SUBSET Pools : Gets(s, k, Y) /\ Y \subseteq X \cup caps'[s]
         \/ groups[k].pools \subseteq X /\ UNCHANGED groups
<1> DEFINE op == CurrentOp(m)
<1>1. TypeInv
  BY DEF RecordInv
<1>2. /\ CarriedOut' \subseteq CarriedOut \cup {op}
      /\ \/ CarriedOut' \subseteq CarriedOut
         \/ job[m].step = "pool" /\ ~IsGrant(op)
         \/ job[m].step = "caps" /\ IsGrant(op) /\ SetCaps(m)
  BY <1>1, CommandCarries DEF CapsSucceed, Command, CommandFails, BeginOp, SaveGroup,
     SaveService, BuildPermissions, CreatePool, ReadFails, OpReturnsError, OpRaises,
     SetCapsFails, At
<1>3. CASE X = {} /\ \E o \in CarriedOut' :
                       IsGrant(o) /\ o.service = s /\ KeyOf(o) = k
  <2>1. PICK o \in CarriedOut' : IsGrant(o) /\ o.service = s /\ KeyOf(o) = k
    BY <1>3
  <2>2. CASE o \in CarriedOut
    BY <1>3, <2>1, <2>2 DEF Gets
  <2>3. CASE o = op /\ job[m].step = "caps" /\ IsGrant(op) /\ SetCaps(m)
    <3>1. /\ job[m] # None /\ job[m].step = "caps"
          /\ caps'[job[m].who] = job[m].perm
      BY <1>1, <2>3, KeyUpdated
    <3>2. Work(job[m]) /\ job[m] \in Job
      BY <1>1, <3>1, JobFacts DEF RecordInv
    <3>3. job[m].who = s
      BY <2>1, <2>3, <3>1, <3>2 DEF Work, WorkIn, CurrentOp
    <3>4. GetsBy(m, s, k, job[m].perm)
      BY <2>1, <2>3, <3>1 DEF GetsBy
    <3>5. job[m].perm \in SUBSET Pools
      BY <3>2 DEF Job
    <3>6. QED
      BY <3>1, <3>3, <3>4, <3>5 DEF Gets
  <2>4. QED
    BY <1>2, <2>1, <2>2, <2>3
<1>4. ASSUME NEW n \in Mons, GetsBy(n, s, k, X)'
      PROVE  \/ \E Y \in SUBSET Pools : Gets(s, k, Y) /\ Y \subseteq X \cup caps'[s]
             \/ groups[k].pools \subseteq X /\ UNCHANGED groups
  <2>1. CASE n # m
    <3>1. job'[n] = job[n]
      BY <1>1, <2>1, CommandAlone DEF OthersStay
    <3>2. GetsBy(n, s, k, X)
      BY <1>4, <3>1 DEF GetsBy, CurrentOp
    <3>3. X \in SUBSET Pools
      BY <1>1, <3>2, JobFacts DEF GetsBy, Job
    <3>4. QED
      BY <3>2, <3>3 DEF Gets
  <2>2. CASE n = m
    <3>1. job'[m].step = "caps"
      BY <1>4, <2>2 DEF GetsBy
    <3>2. CASE BuildPermissions(m)
      <4>1. /\ job[m] # None /\ job[m].step = "build"
            /\ UNCHANGED registryVars /\ GoesTo(m, "caps")
        BY <1>1, <3>2, BuildDoes
      <4>2. /\ IsGrant(op) /\ op.service = s /\ KeyOf(op) = k /\ job'[m].perm = X
        BY <1>4, <2>2, <4>1 DEF GetsBy, CurrentOp, GoesTo
      <4>3. X = PoolsFor(job[m].names)
        BY <1>1, <3>2, <4>2, BuildsAll
      <4>4. k \in job[m].names
        BY <4>1, <4>2 DEF RecordInv, Work, WorkIn, CurrentOp
      <4>5. QED
        BY <4>1, <4>3, <4>4 DEF PoolsFor, registryVars
    <3>3. CASE ~BuildPermissions(m)
      <4>1. \/ BeginOp(m) \/ ReadFails(m) \/ SaveGroup(m) \/ SaveService(m)
            \/ SetCaps(m) \/ SetCapsFails(m) \/ CreatePool(m) \/ OpReturnsError(m)
            \/ OpRaises(m)
        BY <3>3 DEF Command, CommandFails
      <4>2. job'[m].step # "caps"
        BY <1>1, <4>1, ReadDoes, SaveGroupDoes, SaveServiceDoes, CapsDoes, PoolDoes,
           RaiseDoes DEF GoesTo, Finishes
      <4>3. QED
        BY <3>1, <4>2
    <3>4. QED
      BY <3>2, <3>3
  <2>3. QED
    BY <2>1, <2>2
<1>5. QED
  BY <1>3, <1>4 DEF Gets

\* Who gives a pool after a command gave it before, to fewer keys by the one
\* that was updated; or it has just read whom the group lists.
LEMMA GivesFrom ==
  ASSUME CapsSucceed, ReachInv, Keeps, UNCHANGED <<rsp, out>>,
         NEW m \in Mons, Command(m) \/ CommandFails(m),
         NEW p, NEW k, NEW T, Gives(p, k, T)'
  PROVE  \/ \E U \in SUBSET Services :
              /\ Gives(p, k, U)
              /\ \A s \in U \ T :
                   /\ job[m] # None /\ job[m].step = "caps" /\ job[m].who = s
                   /\ ~IsGrant(CurrentOp(m)) /\ CurrentOp(m).pool = p
                   /\ KeyOf(CurrentOp(m)) = k /\ caps'[s] = job[m].perm
         \/ groups[k].services \subseteq T
<1> DEFINE op == CurrentOp(m)
<1>1. RecordInv /\ TypeInv
  BY DEF RecordInv, ReachInv
<1>2. /\ CarriedOut' \subseteq CarriedOut \cup {op}
      /\ \/ CarriedOut' \subseteq CarriedOut
         \/ job[m].step = "pool" /\ ~IsGrant(op) /\ (CreatePool(m) \/ OpReturnsError(m))
         \/ job[m].step = "caps" /\ IsGrant(op)
  BY <1>1, CommandCarries
<1>3. CASE T = {} /\ \E o \in CarriedOut' :
                       ~IsGrant(o) /\ o.group # None /\ o.pool = p /\ KeyOf(o) = k
  <2>1. PICK o \in CarriedOut' :
               ~IsGrant(o) /\ o.group # None /\ o.pool = p /\ KeyOf(o) = k
    BY <1>3
  <2>2. CASE o \in CarriedOut
    <3>1. Gives(p, k, {})
      BY <2>1, <2>2 DEF Gives
    <3>2. QED
      BY <3>1
  <2>3. CASE o = op /\ job[m].step = "pool" /\ (CreatePool(m) \/ OpReturnsError(m))
    <3>1. job[m] # None
      BY <1>1, <2>3, PoolDoes
    <3>2. job[m].todo = {}
      BY <2>1, <2>3, <3>1 DEF ReachInv, KnowsKey
    <3>3. GivesBy(m, p, k, {})
      BY <2>1, <2>3, <3>1, <3>2 DEF GivesBy
    <3>4. Gives(p, k, {})
      BY <3>3 DEF Gives
    <3>5. QED
      BY <3>4
  <2>4. QED
    BY <1>2, <2>1, <2>2, <2>3
<1>4. ASSUME NEW n \in Mons, GivesBy(n, p, k, T)'
      PROVE  \/ \E U \in SUBSET Services :
                  /\ Gives(p, k, U)
                  /\ \A s \in U \ T :
                       /\ job[m] # None /\ job[m].step = "caps" /\ job[m].who = s
                       /\ ~IsGrant(CurrentOp(m)) /\ CurrentOp(m).pool = p
                       /\ KeyOf(CurrentOp(m)) = k /\ caps'[s] = job[m].perm
             \/ groups[k].services \subseteq T
  <2>1. ASSUME GivesBy(n, p, k, T)
        PROVE  \E U \in SUBSET Services : Gives(p, k, U) /\ U \ T = {}
    <3>1. T \in SUBSET Services
      BY <1>1, <2>1, JobFacts DEF GivesBy, Job
    <3>2. Gives(p, k, T)
      BY <2>1 DEF Gives
    <3>3. QED
      BY <3>1, <3>2
  <2>2. CASE n # m
    <3>1. job'[n] = job[n]
      BY <1>1, <2>2, CommandAlone DEF OthersStay
    <3>2. GivesBy(n, p, k, T)
      BY <1>4, <3>1 DEF GivesBy, CurrentOp
    <3>3. QED
      BY <2>1, <3>2
  <2>3. CASE n = m
    <3>1. /\ job'[m].step \in {"build", "caps", "pool"} /\ job'[m].todo = T
          /\ LET o == Ops[job'[m].req][job'[m].at]
             IN ~IsGrant(o) /\ o.group # None /\ o.pool = p /\ KeyOf(o) = k
      BY <1>4, <2>3 DEF GivesBy, CurrentOp
    <3>2. ASSUME NEW step, GoesTo(m, step)
          PROVE  ~IsGrant(op) /\ op.group # None /\ op.pool = p /\ KeyOf(op) = k
      BY <3>1, <3>2 DEF GoesTo, CurrentOp
    <3>3. CASE BeginOp(m) \/ ReadFails(m)
      <4>1. \/ op.group = None /\ GoesTo(m, "pool")
            \/ GoesTo(m, "saveGroup")
        BY <1>1, <3>3, ReadDoes
      <4>2. QED
        BY <3>1, <3>2, <4>1 DEF GoesTo
    <3>4. CASE SaveGroup(m)
      <4>1. /\ KeyOf(op) \in GroupKeys
            /\ groups'[KeyOf(op)].services =
                 IF IsGrant(op) THEN job[m].group.services \cup {op.service}
                                ELSE job[m].group.services
            /\ IsGrant(op) => GoesTo(m, "saveService")
            /\ ~IsGrant(op) => /\ GoesTo(m, "build") \/ GoesTo(m, "pool")
                               /\ job'[m].todo = job[m].group.services
        BY <1>1, <3>4, SaveGroupDoes
      <4>2. ~IsGrant(op)
        BY <3>1, <4>1 DEF GoesTo
      <4>3. KeyOf(op) = k
        BY <3>2, <4>1, <4>2
      <4>4. T = groups'[k].services
        BY <3>1, <4>1, <4>2, <4>3
      <4>5. QED
        BY <4>1, <4>3, <4>4 DEF Keeps
    <3>5. CASE SaveService(m)
      <4>1. IsGrant(op) /\ GoesTo(m, "build")
        BY <1>1, <3>5, SaveServiceDoes
      <4>2. QED
        BY <3>2, <4>1
    <3>6. CASE BuildPermissions(m)
      <4>1. /\ job[m] # None /\ job[m].step = "build" /\ GoesTo(m, "caps")
            /\ job'[m].todo = job[m].todo
        BY <1>1, <3>6, BuildDoes
      <4>2. GivesBy(m, p, k, T)
        BY <3>1, <3>2, <4>1 DEF GivesBy
      <4>3. QED
        BY <2>1, <2>3, <4>2
    <3>7. CASE SetCaps(m)
      <4> DEFINE rest == job[m].todo \ {job[m].who}
      <4>1. /\ job[m] # None /\ job[m].step = "caps"
            /\ caps'[job[m].who] = job[m].perm
            /\ rest # {} => GoesTo(m, "build") /\ job'[m].todo = rest
            /\ rest = {} /\ IsGrant(op) => Finishes(m, "ok")
            /\ rest = {} /\ ~IsGrant(op) => GoesTo(m, "pool") /\ job'[m].todo = {}
        BY <1>1, <3>7, CapsDoes, KeyUpdated
      <4>2. T = rest /\ \E step : GoesTo(m, step)
        BY <3>1, <4>1 DEF Finishes
      <4>3. ~IsGrant(op) /\ op.group # None /\ op.pool = p /\ KeyOf(op) = k
        BY <3>2, <4>2
      <4>4. GivesBy(m, p, k, job[m].todo) /\ job[m].todo \in SUBSET Services
        BY <1>1, <4>1, <4>3, JobFacts DEF GivesBy, Job
      <4>5. Gives(p, k, job[m].todo)
        BY <4>4 DEF Gives
      <4>6. \A s \in job[m].todo \ T : s = job[m].who
        BY <4>2
      <4>7. QED
        BY <4>1, <4>3, <4>4, <4>5, <4>6
    <3>8. CASE CreatePool(m) \/ OpReturnsError(m)
      <4>1. Finishes(m, "ok") \/ Finishes(m, "error")
        BY <1>1, <3>8, PoolDoes
      <4>2. QED
        BY <3>1, <4>1 DEF Finishes
    <3>9. CASE OpRaises(m)
      <4>1. GoesTo(m, "reply")
        BY <1>1, <3>9, RaiseDoes
      <4>2. QED
        BY <3>1, <4>1 DEF GoesTo
    <3>10. QED
      BY <3>3, <3>4, <3>5, <3>6, <3>7, <3>8, <3>9 DEF Command, CommandFails, CapsSucceed
  <2>4. QED
    BY <2>2, <2>3
<1>5. QED
  BY <1>3, <1>4 DEF Gives

\* What was known of a key that is about to be updated is known after a step.
LEMMA KnowledgeKept ==
  ASSUME ReachInv, RecordInv', KeysKeep, NEW n \in Mons, job[n] # None, job'[n] = job[n],
         \A s, k, X : Gets(s, k, X)' =>
           \/ \E Y \in SUBSET Pools : Gets(s, k, Y) /\ Y \subseteq X \cup caps'[s]
           \/ groups'[k].pools \subseteq X
  PROVE  KnowsKey(n)'
<1> DEFINE op == CurrentOp(n)
           who == job[n].who
<1>1. KnowsKey(n) /\ TypeInv
  BY DEF ReachInv, RecordInv
<1>2. CurrentOp(n)' = op
  BY DEF CurrentOp
<1>3. ASSUME job[n].step = "caps", ~IsGrant(op), NEW s \in Services,
             NEW k \in RecordedKeys, NEW X \in SUBSET Pools,
             who = s, KeyOf(op) = k, Gets(s, k, X)'
      PROVE  op.pool \in job[n].perm \cup X \cup caps'[s]
  <2>1. CASE groups'[k].pools \subseteq X
    <3>1. WorkIn(job[n], groups', services')
      BY DEF RecordInv, Work
    <3>2. op.group # None
      BY <1>1, <1>3, JobFacts DEF JobTyped, CurrentOp
    <3>3. op.pool \in groups'[k].pools
      BY <1>3, <3>1, <3>2 DEF WorkIn, CurrentOp
    <3>4. QED
      BY <2>1, <3>3
  <2>2. ASSUME NEW Y \in SUBSET Pools, Gets(s, k, Y), Y \subseteq X \cup caps'[s]
        PROVE  op.pool \in job[n].perm \cup X \cup caps'[s]
    <3>1. op.pool \in job[n].perm \cup Y \cup caps[s]
      BY <1>1, <1>3, <2>2 DEF KnowsKey
    <3>2. caps[s] \subseteq caps'[s]
      BY DEF KeysKeep
    <3>3. QED
      BY <2>2, <3>1, <3>2
  <2>3. QED
    BY <1>3, <2>1, <2>2
<1>4. job[n].step = "pool" /\ op.group # None => job[n].todo = {}
  BY <1>1 DEF KnowsKey
<1>5. QED
  BY <1>2, <1>3, <1>4 DEF KnowsKey

\* What a job knows of a key after its own command.
LEMMA KnowledgeGained ==
  ASSUME NoNamespaces, CapsSucceed, ReachInv, RecordInv', NEW m \in Mons,
         Command(m) \/ CommandFails(m), job'[m] # None
  PROVE  KnowsKey(m)'
<1> DEFINE op == CurrentOp(m)
<1>1. TypeInv /\ RecordInv
  BY DEF ReachInv, RecordInv
<1>0. (\A s, k, X : Gets(s, k, X) =>
          /\ s \in Services /\ k \in services[s]
          /\ s \in groups[k].services)'
  BY GetsRecorded, PTL
<1>2. ASSUME NEW step, GoesTo(m, step)
      PROVE  CurrentOp(m)' = op /\ job'[m].step = step
  BY <1>2 DEF GoesTo, CurrentOp
<1>3. ASSUME job'[m].step \notin {"caps", "pool"} PROVE KnowsKey(m)'
  BY <1>3 DEF KnowsKey
<1>4. CASE BeginOp(m) \/ ReadFails(m)
  <2>1. \/ op.group = None /\ GoesTo(m, "pool")
        \/ GoesTo(m, "saveGroup")
    BY <1>1, <1>4, ReadDoes
  <2>2. CASE op.group = None /\ GoesTo(m, "pool")
    BY <1>2, <2>2 DEF KnowsKey
  <2>3. QED
    BY <1>2, <1>3, <2>1, <2>2
<1>5. CASE SaveGroup(m)
  <2>1. /\ IsGrant(op) => GoesTo(m, "saveService")
        /\ ~IsGrant(op) => /\ \/ GoesTo(m, "build")
                              \/ GoesTo(m, "pool") /\ job[m].group.services = {}
                           /\ job'[m].todo = job[m].group.services
    BY <1>1, <1>5, SaveGroupDoes
  <2>2. CASE GoesTo(m, "pool") /\ job'[m].todo = {}
    BY <1>2, <2>2 DEF KnowsKey
  <2>3. QED
    BY <1>2, <1>3, <2>1, <2>2
<1>6. CASE SaveService(m)
  <2>1. GoesTo(m, "build")
    BY <1>1, <1>6, SaveServiceDoes
  <2>2. QED
    BY <1>2, <1>3, <2>1
<1>7. CASE BuildPermissions(m)
  <2> DEFINE who == job'[m].who
  <2>1. /\ job[m] # None /\ job[m].step = "build" /\ op.group # None
        /\ UNCHANGED registryVars /\ GoesTo(m, "caps") /\ who \in Services
    BY <1>1, <1>7, BuildDoes
  <2>2. ASSUME ~IsGrant(op), NEW s \in Services, NEW k \in RecordedKeys,
               NEW X \in SUBSET Pools, who = s, KeyOf(op) = k, Gets(s, k, X)'
        PROVE  op.pool \in job'[m].perm
    <3>1. job'[m].perm = PoolsFor(services[who])
      BY <1>1, <1>7, <2>2, BuildsAll
    <3>2. KeyOf(op) \in services'[who]
      BY <1>0, <2>2
    <3>3. op.pool \in groups[KeyOf(op)].pools
      BY <1>1, <2>1, <2>2 DEF RecordInv, Work, WorkIn, CurrentOp
    <3>4. QED
      BY <2>1, <3>1, <3>2, <3>3 DEF PoolsFor, registryVars
  <2>3. CurrentOp(m)' = op /\ job'[m].step = "caps"
    BY <1>2, <2>1
  <2>4. QED
    BY <2>2, <2>3 DEF KnowsKey
<1>8. CASE SetCaps(m)
  <2>1. \/ GoesTo(m, "build") \/ Finishes(m, "ok")
        \/ GoesTo(m, "pool") /\ job'[m].todo = {}
    BY <1>1, <1>8, CapsDoes
  <2>2. CASE GoesTo(m, "pool") /\ job'[m].todo = {}
    BY <1>2, <2>2 DEF KnowsKey
  <2>3. QED
    BY <1>2, <1>3, <2>1, <2>2 DEF Finishes
<1>9. CASE CreatePool(m) \/ OpReturnsError(m)
  <2>1. Finishes(m, "ok") \/ Finishes(m, "error")
    BY <1>1, <1>9, PoolDoes
  <2>2. QED
    BY <1>3, <2>1 DEF Finishes
<1>10. CASE OpRaises(m)
  <2>1. GoesTo(m, "reply")
    BY <1>1, <1>10, RaiseDoes
  <2>2. QED
    BY <1>2, <1>3, <2>1
<1>11. QED
  BY <1>4, <1>5, <1>6, <1>7, <1>8, <1>9, <1>10 DEF Command, CommandFails, CapsSucceed

\* The group reaches all its members after a command.
LEMMA ReachesKept ==
  ASSUME NoNamespaces, CapsSucceed, ReachInv, RecordInv', Keeps, KeysKeep,
         UNCHANGED <<rsp, out>>, NEW m \in Mons, Command(m) \/ CommandFails(m)
  PROVE  Reaches'
<1>1. RecordInv
  BY DEF ReachInv
<1>2. (\A p, k, T : Gives(p, k, T) => p \in groups[k].pools)'
  BY GivesRecorded, PTL
<1>3. SUFFICES ASSUME NEW s \in Services, NEW k \in RecordedKeys, NEW p \in Pools,
                      NEW X \in SUBSET Pools, NEW T \in SUBSET Services,
                      Gets(s, k, X)', Gives(p, k, T)'
               PROVE  s \in T \/ p \in X \cup caps'[s]
  BY DEF Reaches
<1>4. caps[s] \subseteq caps'[s]
  BY DEF KeysKeep
<1>5. CASE groups[k].pools \subseteq X /\ UNCHANGED groups
  BY <1>2, <1>3, <1>5
<1>6. ASSUME NEW Y \in SUBSET Pools, Gets(s, k, Y), Y \subseteq X \cup caps'[s]
      PROVE  s \in T \/ p \in X \cup caps'[s]
  <2>1. s \in groups[k].services
    BY <1>1, <1>6, GetsRecorded
  <2>2. CASE groups[k].services \subseteq T
    BY <2>1, <2>2
  <2>3. ASSUME NEW U \in SUBSET Services, Gives(p, k, U),
               \A t \in U \ T :
                 /\ job[m] # None /\ job[m].step = "caps" /\ job[m].who = t
                 /\ ~IsGrant(CurrentOp(m)) /\ CurrentOp(m).pool = p
                 /\ KeyOf(CurrentOp(m)) = k /\ caps'[t] = job[m].perm
        PROVE  s \in T \/ p \in X \cup caps'[s]
    <3>1. s \in U \/ p \in Y \cup caps[s]
      BY <1>6, <2>3 DEF ReachInv, Reaches
    <3>2. CASE s \in U \ T
      <4>1. KnowsKey(m)
        BY <2>3, <3>2 DEF ReachInv
      <4>2. p \in job[m].perm \cup Y \cup caps[s]
        BY <1>6, <2>3, <3>2, <4>1 DEF KnowsKey
      <4>3. QED
        BY <1>4, <1>6, <2>3, <3>2, <4>2
    <3>3. QED
      BY <1>4, <1>6, <3>1, <3>2
  <2>4. QED
    BY <1>3, <2>2, <2>3, GivesFrom
<1>7. QED
  BY <1>1, <1>3, <1>5, <1>6, GetsFrom

LEMMA ReachStep ==
  ASSUME NoNamespaces, CapsSucceed
  PROVE  ReachInv /\ [Next]_vars /\ Keeps /\ KeysKeep => ReachInv'
<1> SUFFICES ASSUME ReachInv, [Next]_vars, Keeps, KeysKeep PROVE ReachInv'
  OBVIOUS
<1>1. RecordInv /\ RecordInv' /\ TypeInv
  BY RecordStep DEF ReachInv, RecordInv
<1>2. CASE Elsewhere
  <2>1. /\ UNCHANGED registryVars
        /\ \A n \in Mons : \/ job'[n] \in {job[n], None}
                           \/ job[n] = None /\ NewJob(job'[n])
    BY <1>1, <1>2, ElsewhereDoes
  <2>2. /\ \A s, k, X : Gets(s, k, X)' => Gets(s, k, X)
        /\ \A p, k, T : Gives(p, k, T)' => Gives(p, k, T)
    BY <1>1, <1>2, ElsewhereReach
  <2>3. Reaches'
    BY <2>1, <2>2 DEF Reaches, ReachInv, registryVars
  <2>4. ASSUME NEW n \in Mons, job'[n] # None PROVE KnowsKey(n)'
    <3>1. CASE NewJob(job'[n])
      BY <3>1 DEF KnowsKey, NewJob
    <3>2. CASE job'[n] = job[n]
      <4>1. KnowsKey(n)
        BY <2>4, <3>2 DEF ReachInv
      <4>2. QED
        BY <2>1, <2>2, <3>2, <4>1 DEF KnowsKey, CurrentOp, registryVars
    <3>3. QED
      BY <2>1, <2>4, <3>1, <3>2
  <2>5. QED
    BY <1>1, <2>3, <2>4 DEF ReachInv
<1>3. ASSUME NEW m \in Mons, Command(m) \/ CommandFails(m), UNCHANGED <<rsp, out>>
      PROVE  ReachInv'
  <2>1. Reaches'
    BY <1>1, <1>3, ReachesKept
  <2>2. ASSUME NEW s, NEW k, NEW X, Gets(s, k, X)'
        PROVE  \/ \E Y \in SUBSET Pools : Gets(s, k, Y) /\ Y \subseteq X \cup caps'[s]
               \/ groups'[k].pools \subseteq X
    BY <1>1, <1>3, <2>2, GetsFrom
  <2>3. ASSUME NEW n \in Mons, job'[n] # None PROVE KnowsKey(n)'
    <3>1. CASE n = m
      BY <1>1, <1>3, <2>3, <3>1, KnowledgeGained
    <3>2. CASE n # m
      <4>1. job'[n] = job[n]
        BY <1>1, <1>3, <3>2, CommandAlone DEF OthersStay
      <4>2. QED
        BY <1>1, <2>2, <2>3, <4>1, KnowledgeKept
    <3>3. QED
      BY <3>1, <3>2
  <2>4. QED
    BY <1>1, <2>1, <2>3 DEF ReachInv
<1>4. QED
  BY <1>2, <1>3, NextCases

\* Without namespaces, and where no step takes anything from the registry or
\* from a key and ceph auth caps does not fail, a key that was granted a group
\* can use every pool that was created in it, whichever was asked first,
\* whatever hook dies between two commands and however the requests of several
\* units interleave. Conditions: a grant with a namespace gives no pools at all,
\* and a failed auth caps is logged and forgotten (README, section 4).
THEOREM AccessGranted ==
  ASSUME NoNamespaces, CapsSucceed
  PROVE  Spec /\ [][Keeps /\ KeysKeep]_vars => []GrantedAccess
<1>1. Init => ReachInv
  <2> SUFFICES ASSUME Init PROVE ReachInv
    OBVIOUS
  <2>1. RecordInv /\ \A m \in Mons : job[m] = None
    BY RecordInit DEF Init, RegistryInit
  <2>2. \A s, k, X : ~Gets(s, k, X)
    BY <2>1, GetsRecorded DEF Init, RegistryInit
  <2>3. QED
    BY <2>1, <2>2 DEF ReachInv, Reaches
<1>2. ReachInv => GrantedAccess
  <2> SUFFICES ASSUME ReachInv, NEW r \in Granted, NEW q \in Granted,
                      NEW grant \in OpsOf(r), NEW create \in OpsOf(q),
                      IsGrant(grant), ~IsGrant(create), create.group # None,
                      KeyOf(grant) = KeyOf(create)
               PROVE  create.pool \in caps[grant.service]
    BY DEF GrantedAccess
  <2>1. r \in Requests /\ q \in Requests /\ r \in Promised /\ q \in Promised
    BY DEF Granted, Promised
  <2>2. /\ grant \in Operation /\ create \in Operation
        /\ grant \in CarriedOut /\ create \in CarriedOut
    BY <2>1, OpsTyped DEF CarriedOut
  <2>3. /\ grant.service \in Services /\ create.pool \in Pools
        /\ KeyOf(create) \in RecordedKeys
    BY <2>2, Kinds
  <2>4. /\ Gets(grant.service, KeyOf(create), {})
        /\ Gives(create.pool, KeyOf(create), {})
    BY <2>2 DEF Gets, Gives
  <2>5. QED
    BY <2>3, <2>4 DEF ReachInv, Reaches
<1>3. UNCHANGED vars => Keeps /\ KeysKeep
  BY NothingLost DEF vars, registryVars, KeysKeep
<1>4. ReachInv /\ [Next]_vars /\ [Keeps /\ KeysKeep]_vars => ReachInv'
  BY <1>3, ReachStep
<1>5. QED
  BY <1>1, <1>2, <1>4, PTL DEF Spec

--------------------------------------------------------------------------------
(* Where keys are kept: as UpdatesKept, without namespaces.                 *)

\* What a job sets a key to is what its service is recorded for.
Current(j, gs, ss) ==
  LET op == Ops[j.req][j.at]
  IN /\ IsGrant(op) /\ j.step \in {"build", "caps"} => j.names = ss[op.service]
     /\ j.step = "caps" => j.perm = PoolsIn(ss[j.who], gs)

CurrentInv ==
  /\ FreshInv
  /\ BoundInv
  /\ \A m \in Mons : job[m] # None => Current(job[m], groups, services)

LEMMA CurrentCommand ==
  ASSUME NoNamespaces, CurrentInv, NEW m \in Mons, Command(m) \/ CommandFails(m)
  PROVE  KeysKeep /\ (job'[m] # None => Current(job'[m], groups', services'))
<1> DEFINE op == CurrentOp(m)
           k == KeyOf(op)
<1>1. TypeInv
  BY DEF CurrentInv, FreshInv
<1>2. job[m] # None =>
        /\ Fresh(job[m], groups, services) /\ Work(job[m])
        /\ Current(job[m], groups, services) /\ op \in Operation
  BY <1>1, JobFacts DEF CurrentInv, FreshInv, BoundInv, RecordInv
<1>3. ASSUME job'[m].step \notin {"build", "caps"}
      PROVE  Current(job'[m], groups', services')
  BY <1>3 DEF Current
<1>4. UNCHANGED caps => KeysKeep
  BY DEF KeysKeep
<1>5. CASE BeginOp(m) \/ ReadFails(m)
  BY <1>1, <1>3, <1>4, <1>5, ReadDoes DEF GoesTo, registryVars
<1>6. CASE SaveGroup(m)
  <2>1. /\ UNCHANGED caps
        /\ IsGrant(op) => GoesTo(m, "saveService")
        /\ ~IsGrant(op) => GoesTo(m, "build") \/ GoesTo(m, "pool")
    BY <1>1, <1>6, SaveGroupDoes
  <2>2. CASE GoesTo(m, "build") /\ ~IsGrant(op)
    BY <1>4, <2>1, <2>2 DEF Current, GoesTo, CurrentOp
  <2>3. QED
    BY <1>3, <1>4, <2>1, <2>2 DEF GoesTo
<1>7. CASE SaveService(m)
  <2>1. /\ services'[op.service] = job[m].names \cup {k}
        /\ UNCHANGED caps /\ GoesTo(m, "build")
        /\ job'[m].names = job[m].names \cup {k}
    BY <1>1, <1>7, SaveServiceDoes
  <2>2. Ops[job'[m].req][job'[m].at] = op /\ job'[m].step = "build"
    BY <2>1 DEF GoesTo, CurrentOp
  <2> HIDE DEF op
  <2>3. Current(job'[m], groups', services')
    BY <2>1, <2>2 DEF Current
  <2>4. QED
    BY <1>4, <2>1, <2>3
<1>8. CASE BuildPermissions(m)
  <2>1. /\ job[m] # None /\ job[m].step = "build" /\ UNCHANGED registryVars
        /\ GoesTo(m, "caps") /\ job'[m].names = job[m].names
        /\ job'[m].who \in job[m].todo
    BY <1>1, <1>8, BuildDoes
  <2>2. IsGrant(op) => /\ job[m].names = services[op.service]
                       /\ job'[m].who = op.service
    BY <1>2, <2>1 DEF Current, Work, WorkIn, CurrentOp
  <2>3. job'[m].perm = PoolsFor(services[job'[m].who])
    BY <1>1, <1>8, <2>2, BuildsAll
  <2>4. Ops[job'[m].req][job'[m].at] = op /\ job'[m].step = "caps"
    BY <2>1 DEF GoesTo, CurrentOp
  <2> HIDE DEF op
  <2>5. Current(job'[m], groups', services')
    BY <2>1, <2>2, <2>3, <2>4 DEF Current, PoolsFor, PoolsIn, registryVars
  <2>6. QED
    BY <1>4, <2>1, <2>5 DEF registryVars
<1>9. CASE SetCaps(m) \/ SetCapsFails(m)
  <2> DEFINE who == job[m].who
             rest == job[m].todo \ {who}
  <2>1. /\ job[m] # None /\ job[m].step = "caps" /\ who \in Services
        /\ UNCHANGED <<groups, services>>
        /\ \/ UNCHANGED caps
           \/ /\ caps'[who] = job[m].perm
              /\ \A s \in Services \ {who} : caps'[s] = caps[s]
        /\ rest # {} => GoesTo(m, "build") /\ job'[m].names = job[m].names
        /\ rest = {} /\ IsGrant(op) => Finishes(m, "ok")
        /\ rest = {} /\ ~IsGrant(op) => GoesTo(m, "pool")
    BY <1>1, <1>9, CapsDoes
  <2>2. KeysKeep
    <3>1. job[m].perm = PoolsIn(services[who], groups)
      BY <1>2, <2>1 DEF Current
    <3>2. caps[who] \subseteq PoolsIn(services[who], groups)
      BY <2>1 DEF CurrentInv, BoundInv, NoExcessAccess, PoolsIn
    <3> HIDE DEF who
    <3>3. QED
      BY <2>1, <3>1, <3>2 DEF KeysKeep
  <2>3. CASE rest # {}
    <3>1. /\ Ops[job'[m].req][job'[m].at] = op /\ job'[m].step = "build"
          /\ job'[m].names = job[m].names
      BY <2>1, <2>3 DEF GoesTo, CurrentOp
    <3>2. IsGrant(op) => job[m].names = services[op.service]
      BY <1>2, <2>1 DEF Current, CurrentOp
    <3> HIDE DEF op
    <3>3. Current(job'[m], groups', services')
      BY <2>1, <3>1, <3>2 DEF Current
    <3>4. QED
      BY <2>2, <3>3
  <2>4. CASE rest = {}
    BY <1>3, <2>1, <2>2, <2>4 DEF GoesTo, Finishes
  <2>5. QED
    BY <2>3, <2>4
<1>10. CASE CreatePool(m) \/ OpReturnsError(m)
  <2>1. /\ UNCHANGED caps
        /\ Finishes(m, "ok") \/ Finishes(m, "error")
    BY <1>1, <1>10, PoolDoes
  <2>2. QED
    BY <1>3, <1>4, <2>1 DEF Finishes
<1>11. CASE OpRaises(m)
  BY <1>1, <1>3, <1>4, <1>11, RaiseDoes DEF GoesTo, registryVars
<1>12. QED
  BY <1>5, <1>6, <1>7, <1>8, <1>9, <1>10, <1>11 DEF Command, CommandFails

LEMMA CurrentStep ==
  ASSUME HandoverWaits, ReadsSucceed, NoNamespaces
  PROVE  CurrentInv /\ [Next]_vars => CurrentInv' /\ KeysKeep
<1> SUFFICES ASSUME CurrentInv, [Next]_vars PROVE CurrentInv' /\ KeysKeep
  OBVIOUS
<1>1. FreshInv' /\ Keeps /\ TypeInv
  BY FreshStep DEF CurrentInv, FreshInv
<1>2. BoundInv'
  <2>1. Unmixed
    BY DEF NoNamespaces, Unmixed, SpacedServices
  <2>2. QED
    BY <1>1, <2>1, BoundStep DEF CurrentInv
<1>3. CASE Elsewhere
  <2>1. /\ UNCHANGED registryVars
        /\ \A n \in Mons : \/ job'[n] \in {job[n], None}
                           \/ job[n] = None /\ NewJob(job'[n])
    BY <1>1, <1>3, ElsewhereDoes
  <2>2. ASSUME NEW n \in Mons, job'[n] # None
        PROVE  Current(job'[n], groups', services')
    <3>1. CASE NewJob(job'[n])
      BY <3>1 DEF NewJob, Current
    <3>2. CASE job'[n] = job[n]
      <4>1. Current(job[n], groups, services)
        BY <2>2, <3>2 DEF CurrentInv
      <4>2. QED
        BY <2>1, <3>2, <4>1 DEF registryVars
    <3>3. QED
      BY <2>1, <2>2, <3>1, <3>2
  <2>3. KeysKeep
    BY <2>1 DEF registryVars, KeysKeep
  <2>4. QED
    BY <1>1, <1>2, <2>2, <2>3 DEF CurrentInv
<1>4. ASSUME NEW m \in Mons, Command(m) \/ CommandFails(m)
      PROVE  CurrentInv' /\ KeysKeep
  <2>1. KeysKeep /\ (job'[m] # None => Current(job'[m], groups', services'))
    BY <1>4, CurrentCommand
  <2>2. job[m] # None /\ OthersStay(m)
    BY <1>1, <1>4, CommandAlone
  <2>3. \A n \in Mons \ {m} : job'[n] = None
    BY <2>2 DEF OthersStay, CurrentInv, FreshInv
  <2>4. QED
    BY <1>1, <1>2, <2>1, <2>3 DEF CurrentInv
<1>5. QED
  BY <1>3, <1>4, NextCases

\* Without namespaces no step takes a pool from a key, under the conditions of
\* UpdatesKept, although ceph auth caps replaces all the capabilities of a key,
\* and although hooks die and auth caps may fail.
THEOREM KeysKept ==
  ASSUME HandoverWaits, ReadsSucceed, NoNamespaces
  PROVE  Spec => [][KeysKeep]_vars
<1>1. Init => CurrentInv
  <2> SUFFICES ASSUME Init PROVE CurrentInv
    OBVIOUS
  <2>1. RecordInv
    BY RecordInit
  <2>2. RecordedKeys \subseteq GroupKeys
    BY KeysTyped
  <2>3. BoundInv
    BY <2>1, <2>2 DEF Init, RegistryInit, BoundInv, NoExcessAccess, EmptyGroup
  <2>4. FreshInv
    BY TypeInit DEF Init, RegistryInit, FreshInv
  <2>5. QED
    BY <2>3, <2>4 DEF Init, RegistryInit, CurrentInv
<1>2. CurrentInv /\ [Next]_vars => CurrentInv' /\ KeysKeep
  BY CurrentStep
<1>3. QED
  BY <1>1, <1>2, PTL DEF Spec
================================================================================
