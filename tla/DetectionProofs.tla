-------------------------- MODULE DetectionProofs --------------------------
(***************************************************************************)
(* Theorems about Detection, for any number of detection pods, restarts     *)
(* and failing calls, and proofs that TLAPS checks.                         *)
(***************************************************************************)
EXTENDS Detection, TLAPS

(***************************************************************************)
(* The inductive invariant.                                                 *)
(***************************************************************************)

\* What any holder of a copy may rely on: no copy is newer than the object, and
\* a copy of the object's own version has its status.  This is what the
\* resourceVersion buys: a status update from a copy starts at the status stored.
Current(copy, object) ==
  copy.uid # 0 =>
    /\ copy.uid <= object.rv
    /\ copy.rv <= object.rv
    /\ (copy.uid = object.uid /\ copy.rv = object.rv) => copy.status = object.status

CopiesCurrent ==
  /\ ia.uid <= ia.rv
  /\ Current(iaCache, ia)
  /\ Current(dr.app, ia)
  /\ \A v \in iaFeed : Current(v, ia)

OwnersExisted == \A p \in Pods : Born(p) => pods[p].owner \in 1..ia.rv

\* The worker is past the Running update of its copy, and has no pod yet.
Launching == dr.pc \in {"choose", "create"}

MarksPending ==
  dr.pc = "markRunning" => dr.app.uid # 0 /\ dr.app.status.phase = "Pending"

LaunchesFirst ==
  Launching => dr.app.uid # 0 /\ \A p \in Pods : Born(p) => pods[p].owner # dr.app.uid

Early(object) == object.status.phase \in {"", "Pending"}

\* Before the object is Running nobody has started a pod for it, or is about to.
NothingStartedEarly ==
  (ia.uid # 0 /\ Early(ia)) =>
    /\ \A p \in Pods : Born(p) => pods[p].owner # ia.uid
    /\ Launching => dr.app.uid # ia.uid

\* What the reconciler is looking at, or will find, is a pod that was started.
SeenBorn == \A p \in Pods : (podCache[p].state = "finished" \/ p \in dr.todo) => Born(p)

IInv ==
  /\ TypeOK
  /\ CopiesCurrent
  /\ OwnersExisted
  /\ MarksPending
  /\ LaunchesFirst
  /\ NothingStartedEarly
  /\ AtMostOnePod

-----------------------------------------------------------------------------
(***************************************************************************)
(* The API calls.                                                           *)
(***************************************************************************)

\* Storing keeps the types, and either changes nothing or makes one new version.
LEMMA StoreEffect ==
  ASSUME ia \in IA, iaFeed \in SUBSET IA, NEW new \in IA, Store(new)
  PROVE  /\ ia' \in IA
         /\ iaFeed' \in SUBSET IA
         /\ \/ ia' = ia /\ iaFeed' = iaFeed /\ new = ia
            \/ /\ ia'.rv = ia.rv + 1
               /\ ia'.uid = new.uid /\ ia'.spec = new.spec /\ ia'.status = new.status
               /\ iaFeed' = iaFeed \union {ia'}
<1>1. CASE new = ia
  BY <1>1 DEF Store
<1>2. CASE new # ia
  BY <1>2 DEF Store, IA
<1>3. QED
  BY <1>1, <1>2

\* A failing call stays within the bound.
LEMMA FailsType ==
  ASSUME faults \in 0..MaxFaults, Fails
  PROVE  faults' \in 0..MaxFaults
BY ClusterAssumption DEF Fails

\* An update leaves the object alone, or was sent from its stored version.
LEMMA UpdateEffect ==
  ASSUME ia \in IA, iaFeed \in SUBSET IA, faults \in 0..MaxFaults,
         NEW copy, NEW new \in IA, NEW reply, Update(copy, new, reply)
  PROVE  /\ ia' \in IA /\ iaFeed' \in SUBSET IA /\ faults' \in 0..MaxFaults
         /\ reply = "done" => Matches(copy)
         /\ \/ ia' = ia /\ iaFeed' = iaFeed /\ (reply = "done" => new = ia)
            \/ /\ Matches(copy)
               /\ ia'.rv = ia.rv + 1
               /\ ia'.uid = new.uid /\ ia'.spec = new.spec /\ ia'.status = new.status
               /\ iaFeed' = iaFeed \union {ia'}
<1>1. CASE reply = "done" /\ Matches(copy) /\ Store(new) /\ UNCHANGED faults
  BY <1>1, StoreEffect
<1>2. CASE reply = "conflict" /\ UNCHANGED <<ia, iaFeed, faults>>
  BY <1>2
<1>3. CASE reply = "error" /\ UNCHANGED <<ia, iaFeed, faults>>
  BY <1>3
<1>4. CASE reply = "error" /\ Fails /\ UNCHANGED <<ia, iaFeed>>
  BY <1>4, FailsType
<1>5. CASE reply = "error" /\ Fails /\ Matches(copy) /\ Store(new)
  BY <1>5, FailsType, StoreEffect
<1>6. QED
  BY <1>1, <1>2, <1>3, <1>4, <1>5 DEF Update

LEMMA UpdateStatusEffect ==
  ASSUME ia \in IA, iaFeed \in SUBSET IA, faults \in 0..MaxFaults,
         NEW copy, NEW status \in IAStatus, NEW reply, UpdateStatus(copy, status, reply)
  PROVE  /\ ia' \in IA /\ iaFeed' \in SUBSET IA /\ faults' \in 0..MaxFaults
         /\ reply = "done" => Matches(copy)
         /\ reply = "done" => ia'.uid = ia.uid /\ ia'.status = status
         /\ \/ ia' = ia /\ iaFeed' = iaFeed
            \/ /\ Matches(copy)
               /\ ia'.rv = ia.rv + 1
               /\ ia'.uid = ia.uid /\ ia'.spec = ia.spec /\ ia'.status = status
               /\ iaFeed' = iaFeed \union {ia'}
<1> DEFINE new == [ia EXCEPT !.status = status]
<1>1. new \in IA /\ new.uid = ia.uid /\ new.spec = ia.spec /\ new.status = status
  BY DEF IA
<1>2. Update(copy, new, reply)
  BY DEF UpdateStatus
<1>3. QED
  <2> HIDE DEF new
  <2> QED BY <1>1, <1>2, UpdateEffect

LEMMA UpdateSpecEffect ==
  ASSUME ia \in IA, iaFeed \in SUBSET IA, faults \in 0..MaxFaults,
         NEW copy, NEW spec \in IASpec, NEW reply, UpdateSpec(copy, spec, reply)
  PROVE  /\ ia' \in IA /\ iaFeed' \in SUBSET IA /\ faults' \in 0..MaxFaults
         /\ ia'.uid = ia.uid /\ ia'.status = ia.status
         /\ \/ ia' = ia /\ iaFeed' = iaFeed
            \/ /\ Matches(copy)
               /\ ia'.rv = ia.rv + 1 /\ ia'.spec = spec
               /\ iaFeed' = iaFeed \union {ia'}
<1> DEFINE new == [ia EXCEPT !.spec = spec]
<1>1. new \in IA /\ new.uid = ia.uid /\ new.spec = spec /\ new.status = ia.status
  BY DEF IA
<1>2. Update(copy, new, reply)
  BY DEF UpdateSpec
<1>3. QED
  <2> HIDE DEF new
  <2> QED BY <1>1, <1>2, UpdateEffect

-----------------------------------------------------------------------------
(***************************************************************************)
(* Types.                                                                   *)
(***************************************************************************)

LEMMA BlanksTyped == NoIA \in IA /\ NoPod \in Pod /\ (ia \in IA => NewIA \in IA)
<1>1. BlankSpec \in IASpec /\ BlankStatus \in IAStatus
  BY DEF BlankSpec, BlankStatus, IASpec, IAStatus, NoLogType, Phases
<1>2. NoIA \in IA
  BY <1>1 DEF NoIA, IA
<1>3. ia \in IA => NewIA \in IA
  BY <1>1 DEF NewIA, IA
<1>4. NoPod \in Pod
  BY DEF NoPod, Pod, Outcomes
<1> QED BY <1>2, <1>3, <1>4

LEMMA IdleTyped == Idle \in [pc : Pcs, app : IA, todo : SUBSET Pods]
BY BlanksTyped DEF Idle, Pcs

LEMMA InitType == Init => TypeOK
<1> SUFFICES ASSUME Init PROVE TypeOK
  OBVIOUS
<1>1. faults \in 0..MaxFaults
  BY ClusterAssumption DEF Init, ClusterInit
<1>2. pods \in [Pods -> Pod] /\ podCache \in [Pods -> Pod]
  BY BlanksTyped DEF Init, ClusterInit
<1>3. ia \in IA /\ iaCache \in IA /\ iaFeed \in SUBSET IA
  BY BlanksTyped DEF Init, ClusterInit
<1> QED BY <1>1, <1>2, <1>3, IdleTyped DEF Init, TypeOK, ClusterTypeOK

\* Every step of the reconciler that only moves the worker.
LEMMA ReadingType ==
  ASSUME TypeOK, Get \/ Choose \/ List \/ EachFailed \/ EachSilent \/ EachGarbled
                 \/ EachReadable \/ ListFinished
  PROVE  TypeOK'
<1> USE DEF TypeOK, ClusterTypeOK
<1>0. ASSUME UNCHANGED <<cluster, target, crashes>>,
             dr' \in [pc : Pcs, app : IA, todo : SUBSET Pods], drQueued' \in BOOLEAN
      PROVE  TypeOK'
  BY <1>0 DEF cluster
<1>1. CASE Get
  <2> DEFINE next == IF iaCache.uid = 0 THEN "idle"
                     ELSE CASE ShouldStartDetection(iaCache)                 -> "markRunning"
                            [] iaCache.status.phase = "Running"              -> "list"
                            [] iaCache.status.phase \in {"Completed", "Error"} -> "listFinished"
                            [] OTHER                                         -> "idle"
             app == IF next = "markRunning" THEN iaCache ELSE NoIA
  <2>1. next \in Pcs
    BY DEF Pcs
  <2>2. app \in IA
    BY BlanksTyped
  <2>3. dr' = [Idle EXCEPT !.pc = next, !.app = app]
    BY <1>1 DEF Get
  <2>4. dr' \in [pc : Pcs, app : IA, todo : SUBSET Pods]
    <3> HIDE DEF next, app
    <3> QED BY <2>1, <2>2, <2>3, IdleTyped
  <2>5. drQueued' \in BOOLEAN /\ UNCHANGED <<cluster, target, crashes>>
    BY <1>1 DEF Get
  <2> QED BY <1>0, <2>4, <2>5
<1>2. CASE Choose
  BY <1>0, <1>2, IdleTyped DEF Choose, GoTo, Retry, Pcs
<1>3. CASE List
  <2>1. [dr EXCEPT !.pc = "each", !.todo = Finished] \in [pc : Pcs, app : IA, todo : SUBSET Pods]
    <3>1. Finished \in SUBSET Pods
      BY DEF Finished
    <3> QED BY <3>1 DEF Pcs
  <2> QED BY <1>0, <1>3, <2>1, IdleTyped DEF List, Return
<1>4. CASE EachFailed
  BY <1>0, <1>4, IdleTyped DEF EachFailed, Return
<1>5. CASE EachSilent
  BY <1>0, <1>5, IdleTyped DEF EachSilent, Skip, Pcs
<1>6. CASE EachGarbled
  BY <1>0, <1>6, IdleTyped DEF EachGarbled, Retry
<1>7. CASE EachReadable
  <2>1. PICK p \in dr.todo :
           IF iaCache.uid = 0
           THEN Retry
           ELSE /\ dr' = [pc |-> "spec",
                          app |-> [iaCache EXCEPT !.spec.langs = FindsLangs(pods[p].outcome),
                                                  !.spec.apps = FindsApps(pods[p].outcome),
                                                  !.spec.active = pods[p].name],
                          todo |-> dr.todo \ {p}]
                /\ UNCHANGED drQueued
    BY <1>7 DEF EachReadable
  <2> DEFINE app == [iaCache EXCEPT !.spec.langs = FindsLangs(pods[p].outcome),
                                    !.spec.apps = FindsApps(pods[p].outcome),
                                    !.spec.active = pods[p].name]
  <2>2. /\ FindsLangs(pods[p].outcome) \in BOOLEAN
        /\ FindsApps(pods[p].outcome) \in BOOLEAN
        /\ pods[p].name \in Names \union {NoName}
    BY DEF FindsLangs, FindsApps, Pod
  <2>3. app \in IA
    BY <2>2 DEF IA, IASpec
  <2>4. [pc |-> "spec", app |-> app, todo |-> dr.todo \ {p}]
          \in [pc : Pcs, app : IA, todo : SUBSET Pods]
    <3> HIDE DEF app
    <3> QED BY <2>3 DEF Pcs
  <2>5. UNCHANGED <<cluster, target, crashes>>
    BY <1>7 DEF EachReadable
  <2>6. CASE Retry
    BY <1>0, <2>5, <2>6, IdleTyped DEF Retry
  <2>7. CASE dr' = [pc |-> "spec", app |-> app, todo |-> dr.todo \ {p}] /\ UNCHANGED drQueued
    BY <1>0, <2>4, <2>5, <2>7
  <2> QED BY <2>1, <2>6, <2>7
<1>8. CASE ListFinished
  <2>1. [dr EXCEPT !.pc = "clean", !.todo = Finished] \in [pc : Pcs, app : IA, todo : SUBSET Pods]
    <3>1. Finished \in SUBSET Pods
      BY DEF Finished
    <3> QED BY <3>1 DEF Pcs
  <2> QED BY <1>0, <1>8, <2>1, IdleTyped DEF ListFinished, Return
<1> QED BY <1>1, <1>2, <1>3, <1>4, <1>5, <1>6, <1>7, <1>8

\* Every step of the reconciler that calls the API server.
LEMMA WritingType ==
  ASSUME TypeOK, MarkRunning \/ Create \/ PutSpec \/ PutCompleted \/ Clean
  PROVE  TypeOK'
<1> USE DEF TypeOK, ClusterTypeOK
<1>0. ASSUME NEW ph \in Phases
      PROVE  [dr.app.status EXCEPT !.phase = ph] \in IAStatus
  BY DEF IA, IAStatus
<1>1. CASE MarkRunning
  <2>1. PICK reply \in Replies :
          /\ UpdateStatus(dr.app, [dr.app.status EXCEPT !.phase = "Running"], reply)
          /\ IF reply = "done"
             THEN dr' = [dr EXCEPT !.pc = "choose", !.app = ia'] /\ UNCHANGED drQueued
             ELSE Retry
    BY <1>1 DEF MarkRunning
  <2>2. ia' \in IA /\ iaFeed' \in SUBSET IA /\ faults' \in 0..MaxFaults
    BY <1>0, <2>1, UpdateStatusEffect DEF Phases
  <2> QED BY <1>1, <2>1, <2>2, IdleTyped DEF MarkRunning, Retry, Pcs
<1>2. CASE Create
  <2>1. PICK reply \in {"done", "error"} :
          CreatePod(dr.app.uid, reply) /\ (IF reply = "done" THEN Return ELSE Retry)
    BY <1>2 DEF Create
  <2>2. dr.app.uid \in Nat
    BY DEF IA
  <2>3. [NoPod EXCEPT !.owner = dr.app.uid, !.state = "active"] \in Pod
    BY <2>2, BlanksTyped DEF Pod
  <2>4. pods' \in [Pods -> Pod] /\ faults' \in 0..MaxFaults
    BY <2>1, <2>3, FailsType DEF CreatePod
  <2> QED BY <1>2, <2>1, <2>4, IdleTyped DEF Create, Return, Retry
<1>3. CASE PutSpec
  <2>1. PICK reply \in Replies :
          /\ UpdateSpec(dr.app, dr.app.spec, reply)
          /\ IF reply = "done"
             THEN dr' = [dr EXCEPT !.pc = "status", !.app = ia'] /\ UNCHANGED drQueued
             ELSE GiveUp(reply)
    BY <1>3 DEF PutSpec
  <2>2. ia' \in IA /\ iaFeed' \in SUBSET IA /\ faults' \in 0..MaxFaults
    BY <2>1, UpdateSpecEffect DEF IA
  <2> QED BY <1>3, <2>1, <2>2, IdleTyped DEF PutSpec, GiveUp, Return, Retry, Pcs
<1>4. CASE PutCompleted
  <2>1. PICK reply \in Replies :
          /\ UpdateStatus(dr.app, [dr.app.status EXCEPT !.phase = "Completed"], reply)
          /\ CASE reply # "done"              -> GiveUp(reply)
               [] reply = "done" /\ dr.todo = {} -> Return
               [] OTHER -> dr' = [dr EXCEPT !.pc = "each", !.app = NoIA] /\ UNCHANGED drQueued
    BY <1>4 DEF PutCompleted
  <2>2. ia' \in IA /\ iaFeed' \in SUBSET IA /\ faults' \in 0..MaxFaults
    BY <1>0, <2>1, UpdateStatusEffect DEF Phases
  <2> QED BY <1>4, <2>1, <2>2, IdleTyped, BlanksTyped DEF PutCompleted, GiveUp, Return, Retry, Pcs
<1>5. CASE Clean
  <2>1. PICK p \in dr.todo, reply \in {"done", "error"} :
          /\ DeletePod(p, reply)
          /\ CASE reply # "done"      -> Retry
               [] reply = "done" /\ dr.todo = {p} -> Return
               [] OTHER               -> dr' = [dr EXCEPT !.todo = @ \ {p}] /\ UNCHANGED drQueued
    BY <1>5 DEF Clean
  <2>2. pods' \in [Pods -> Pod] /\ faults' \in 0..MaxFaults
    BY <2>1, FailsType DEF DeletePod, Pod
  <2>3. dr' \in [pc : Pcs, app : IA, todo : SUBSET Pods] /\ drQueued' \in BOOLEAN
    <3>1. CASE Retry
      BY <3>1, IdleTyped DEF Retry
    <3>2. CASE Return
      BY <3>2, IdleTyped DEF Return
    <3>3. CASE dr' = [dr EXCEPT !.todo = @ \ {p}] /\ UNCHANGED drQueued
      BY <3>3
    <3> QED BY <2>1, <3>1, <3>2, <3>3
  <2> QED BY <1>5, <2>2, <2>3 DEF Clean
<1> QED BY <1>1, <1>2, <1>3, <1>4, <1>5

\* Every step of the world around the reconciler.
LEMMA WorldType ==
  ASSUME TypeOK, WatchIA \/ WatchPod \/ Restart \/ TargetChange \/ Kubelet \/ Collector \/ Others
  PROVE  TypeOK'
<1> USE DEF TypeOK, ClusterTypeOK
<1>1. CASE WatchIA
  BY <1>1 DEF WatchIA, DeliverIA
<1>2. CASE WatchPod
  BY <1>2 DEF WatchPod, DeliverPod
<1>3. CASE Restart
  BY <1>3, IdleTyped DEF Restart, Relist
<1>4. CASE TargetChange
  BY <1>4 DEF TargetChange, cluster
<1>5. CASE Kubelet
  <2>1. PICK p \in Pods, o \in Reports, n \in Names \union {NoName} :
          pods' = [pods EXCEPT ![p].state = "finished", ![p].outcome = o, ![p].name = n]
    BY <1>5 DEF Kubelet, FinishPod
  <2>2. o \in Outcomes
    BY ClusterAssumption
  <2>3. [pods[p] EXCEPT !.state = "finished", !.outcome = o, !.name = n] \in Pod
    BY <2>2 DEF Pod
  <2>4. pods' = [pods EXCEPT ![p] = [pods[p] EXCEPT !.state = "finished", !.outcome = o, !.name = n]]
    BY <2>1 DEF Pod
  <2>5. pods' \in [Pods -> Pod]
    BY <2>3, <2>4
  <2> QED BY <1>5, <2>5 DEF Kubelet, FinishPod, detection
<1>6. CASE Collector
  BY <1>6 DEF Collector, CollectPod, detection, Pod
<1>7. CASE Others
  <2>1. Appeared => ia' \in IA /\ iaFeed' \in SUBSET IA
    BY StoreEffect, BlanksTyped DEF Appeared
  <2>2. Pended => ia' \in IA /\ iaFeed' \in SUBSET IA
    <3>1. [ia EXCEPT !.status.phase = "Pending"] \in IA
      BY DEF IA, IAStatus, Phases
    <3> QED BY <3>1, StoreEffect DEF Pended
  <2>3. Touched => ia' \in IA /\ iaFeed' \in SUBSET IA
    <3> SUFFICES ASSUME NEW a \in Names \union {NoName}, NEW l \in LogTypes \union {NoLogType},
                        NEW t \in BOOLEAN, NEW d \in BOOLEAN,
                        Store([ia EXCEPT !.spec.active = a, !.spec.logType = l,
                                         !.status.traces = t, !.status.detected = d])
                 PROVE  ia' \in IA /\ iaFeed' \in SUBSET IA
      BY DEF Touched
    <3>1. [ia EXCEPT !.spec.active = a, !.spec.logType = l,
                     !.status.traces = t, !.status.detected = d] \in IA
      BY DEF IA, IASpec, IAStatus
    <3> QED BY <3>1, StoreEffect
  <2>4. RemoveIA => ia' \in IA /\ iaFeed' \in SUBSET IA
    <3>1. [NoIA EXCEPT !.rv = ia.rv] \in IA
      BY BlanksTyped DEF IA
    <3> QED BY <3>1, StoreEffect DEF RemoveIA
  <2>5. ia' \in IA /\ iaFeed' \in SUBSET IA
    BY <1>7, <2>1, <2>2, <2>3, <2>4 DEF Others
  <2>6. faults' \in 0..MaxFaults
    BY <1>7, FailsType DEF Others
  <2> QED BY <1>7, <2>5, <2>6 DEF Others, detection
<1> QED BY <1>1, <1>2, <1>3, <1>4, <1>5, <1>6, <1>7

LEMMA NextType == TypeOK /\ [OpenNext]_vars => TypeOK'
<1> SUFFICES ASSUME TypeOK, [OpenNext]_vars PROVE TypeOK'
  OBVIOUS
<1>1. CASE UNCHANGED vars
  BY <1>1 DEF vars, cluster, detection, TypeOK, ClusterTypeOK
<1>2. CASE OpenNext
  BY <1>2, ReadingType, WritingType, WorldType DEF OpenNext, Reconcile
<1> QED BY <1>1, <1>2

\* What holds of Detection without its bounds holds of it.
LEMMA Opened == Spec => OpenSpec
<1>1. [Next]_vars => [OpenNext]_vars
  BY DEF Next, OpenNext, Crash, Elsewhere
<1> QED BY <1>1, PTL DEF Spec, OpenSpec

LEMMA Typed == OpenSpec => []TypeOK
<1> QED BY InitType, NextType, PTL DEF OpenSpec

\* The variables keep their types: the phase stays one of the phases, the
\* worker's program counter one of its places, and the faults are bounded.
THEOREM TypeCorrect == Spec => []TypeOK
<1> QED BY Typed, Opened, PTL

-----------------------------------------------------------------------------
(***************************************************************************)
(* The invariant: what a step may do to the object and to the pods.         *)
(***************************************************************************)

SameObject == ia' = ia /\ iaFeed' = iaFeed

NewVersion ==
  /\ ia'.rv = ia.rv + 1
  /\ ia'.uid <= ia'.rv
  /\ iaFeed' = iaFeed \union {ia'}

\* The object stays and does not become early again, or goes.
NotYounger == ia'.uid # 0 => ia'.uid = ia.uid /\ (Early(ia') => Early(ia))

SameOwners ==
  \A p \in Pods : (Born(p)' <=> Born(p)) /\ pods'[p].owner = pods[p].owner

\* A new version leaves every copy behind.
LEMMA CopiesKept ==
  ASSUME TypeOK, CopiesCurrent, TypeOK', SameObject \/ NewVersion,
         Current(iaCache', ia'), Current(dr'.app, ia')
  PROVE  CopiesCurrent'
<1> USE DEF TypeOK, ClusterTypeOK
<1>1. CASE SameObject
  BY <1>1 DEF SameObject, CopiesCurrent
<1>2. CASE NewVersion
  <2>1. ASSUME NEW v \in iaFeed'
        PROVE  Current(v, ia')
    <3>1. CASE v = ia'
      BY <1>2, <3>1 DEF NewVersion, Current, IA
    <3>2. CASE v \in iaFeed
      BY <1>2, <3>2 DEF NewVersion, CopiesCurrent, Current, IA
    <3> QED BY <1>2, <3>1, <3>2 DEF NewVersion
  <2> QED BY <1>2, <2>1 DEF NewVersion, CopiesCurrent
<1> QED BY <1>1, <1>2

LEMMA CopyKept ==
  ASSUME ia \in IA, ia' \in IA, NEW copy \in IA, Current(copy, ia), SameObject \/ NewVersion
  PROVE  Current(copy, ia')
BY DEF SameObject, NewVersion, Current, IA

LEMMA NoCopy == Idle.app = NoIA /\ Idle.pc = "idle" /\ \A object : Current(NoIA, object)
BY DEF Idle, NoIA, Current

LEMMA OwnersKept ==
  ASSUME TypeOK, TypeOK', OwnersExisted, SameOwners, SameObject \/ NewVersion
  PROVE  OwnersExisted'
BY DEF TypeOK, ClusterTypeOK, OwnersExisted, SameOwners, SameObject, NewVersion, IA

LEMMA OnePodKept ==
  ASSUME AtMostOnePod, SameOwners
  PROVE  AtMostOnePod'
BY DEF AtMostOnePod, SameOwners, Born

\* A step that starts no pod, and after which the worker is not about to.
LEMMA CalmStep ==
  ASSUME IInv, TypeOK', SameOwners, SameObject \/ (NewVersion /\ NotYounger),
         Current(iaCache', ia'), Current(dr'.app, ia'),
         dr'.pc \notin {"markRunning", "choose", "create"}
  PROVE  IInv'
<1> USE DEF IInv
<1>1. CopiesCurrent'
  BY CopiesKept
<1>2. OwnersExisted' /\ AtMostOnePod'
  BY OwnersKept, OnePodKept
<1>3. MarksPending' /\ LaunchesFirst'
  BY DEF MarksPending, LaunchesFirst, Launching
<1>4. NothingStartedEarly'
  BY DEF NothingStartedEarly, Launching, NotYounger, SameOwners, SameObject, Early
<1> QED BY <1>1, <1>2, <1>3, <1>4

\* A step of somebody else: the worker stays where it is.
LEMMA ForeignStep ==
  ASSUME IInv, TypeOK', SameOwners, dr' = dr, Current(iaCache', ia'),
         \/ SameObject
         \/ NewVersion /\ (NotYounger \/ ia'.uid = ia'.rv)
  PROVE  IInv'
<1> USE DEF IInv
<1>1. dr.app \in IA /\ ia \in IA /\ ia' \in IA
  BY DEF TypeOK, ClusterTypeOK
<1>2. CopiesCurrent'
  BY <1>1, CopiesKept, CopyKept DEF CopiesCurrent
<1>3. OwnersExisted' /\ AtMostOnePod'
  BY OwnersKept, OnePodKept
<1>4. MarksPending' /\ LaunchesFirst'
  BY DEF MarksPending, LaunchesFirst, Launching, SameOwners
<1>5. NothingStartedEarly'
  <2>1. CASE SameObject \/ NotYounger
    BY <2>1 DEF NothingStartedEarly, Launching, NotYounger, SameOwners, SameObject, Early
  <2>2. CASE NewVersion /\ ia'.uid = ia'.rv
    <3>1. \A p \in Pods : Born(p)' => pods'[p].owner # ia'.uid
      BY <1>1, <2>2 DEF NewVersion, OwnersExisted, SameOwners, IA
    <3>2. Launching' => dr'.app.uid # ia'.uid
      BY <1>1, <2>2 DEF NewVersion, CopiesCurrent, Current, LaunchesFirst, Launching, IA
    <3> QED BY <3>1, <3>2 DEF NothingStartedEarly
  <2> QED BY <2>1, <2>2
<1> QED BY <1>2, <1>3, <1>4, <1>5

-----------------------------------------------------------------------------
(***************************************************************************)
(* The invariant: action by action.                                         *)
(***************************************************************************)

LEMMA InitInv == Init => IInv
<1> SUFFICES ASSUME Init PROVE IInv
  OBVIOUS
<1>1. ia = NoIA /\ iaCache = NoIA /\ iaFeed = {} /\ dr = Idle /\ \A p \in Pods : ~Born(p)
  BY DEF Init, ClusterInit, Born, NoPod
<1>2. CopiesCurrent
  BY <1>1, NoCopy DEF CopiesCurrent, NoIA
<1>3. OwnersExisted /\ AtMostOnePod
  BY <1>1 DEF OwnersExisted, AtMostOnePod, Born
<1>4. MarksPending /\ LaunchesFirst /\ NothingStartedEarly
  BY <1>1, NoCopy DEF MarksPending, LaunchesFirst, Launching, NothingStartedEarly, NoIA
<1> QED BY <1>2, <1>3, <1>4, InitType DEF IInv

LEMMA GetInv ==
  ASSUME IInv, TypeOK', Get
  PROVE  IInv'
<1> USE DEF IInv
<1>1. /\ UNCHANGED <<ia, iaCache, iaFeed, pods>>
      /\ SameObject /\ SameOwners
  BY DEF Get, cluster, SameObject, SameOwners, Born
<1> DEFINE next == IF iaCache.uid = 0 THEN "idle"
                     ELSE CASE ShouldStartDetection(iaCache)                 -> "markRunning"
                            [] iaCache.status.phase = "Running"              -> "list"
                            [] iaCache.status.phase \in {"Completed", "Error"} -> "listFinished"
                            [] OTHER                                         -> "idle"
           app == IF next = "markRunning" THEN iaCache ELSE NoIA
<1>0. dr'.pc = next /\ dr'.app = app
  <2>1. dr' = [Idle EXCEPT !.pc = next, !.app = app]
    BY DEF Get
  <2> HIDE DEF next, app
  <2> QED BY <2>1 DEF Idle
<1>2. CASE ShouldStartDetection(iaCache) /\ iaCache.uid # 0
  <2>1. dr'.pc = "markRunning" /\ dr'.app = iaCache
    BY <1>0, <1>2 DEF ShouldStartDetection
  <2>2. CopiesCurrent'
    BY <1>1, <2>1, CopiesKept DEF CopiesCurrent
  <2>3. OwnersExisted' /\ AtMostOnePod'
    BY <1>1, OwnersKept, OnePodKept
  <2>4. MarksPending' /\ LaunchesFirst'
    BY <1>2, <2>1 DEF MarksPending, LaunchesFirst, Launching, ShouldStartDetection
  <2>5. NothingStartedEarly'
    BY <1>1, <2>1 DEF NothingStartedEarly, Launching, Early, Born
  <2> QED BY <2>2, <2>3, <2>4, <2>5
<1>3. CASE ~(ShouldStartDetection(iaCache) /\ iaCache.uid # 0)
  <2>0. next \in {"idle", "list", "listFinished"}
    <3>1. CASE iaCache.uid = 0
      BY <3>1
    <3>2. CASE iaCache.uid # 0 /\ ~ShouldStartDetection(iaCache)
      BY <3>2
    <3> QED BY <1>3, <3>1, <3>2
  <2>1. dr'.pc \in {"idle", "list", "listFinished"} /\ dr'.app = NoIA
    <3> HIDE DEF next
    <3> QED BY <1>0, <2>0
  <2> QED BY <1>1, <2>1, NoCopy, CalmStep DEF CopiesCurrent
<1> QED BY <1>2, <1>3

LEMMA MarkRunningInv ==
  ASSUME IInv, TypeOK', MarkRunning
  PROVE  IInv'
<1> USE DEF IInv
<1>1. PICK reply \in Replies :
        /\ UpdateStatus(dr.app, [dr.app.status EXCEPT !.phase = "Running"], reply)
        /\ IF reply = "done"
           THEN dr' = [dr EXCEPT !.pc = "choose", !.app = ia'] /\ UNCHANGED drQueued
           ELSE Retry
  BY DEF MarkRunning
<1> DEFINE status == [dr.app.status EXCEPT !.phase = "Running"]
<1>2. /\ UNCHANGED <<iaCache, pods>> /\ SameOwners
      /\ dr.pc = "markRunning"
      /\ dr.app \in IA /\ ia \in IA /\ ia' \in IA /\ iaCache \in IA
      /\ dr \in [pc : Pcs, app : IA, todo : SUBSET Pods]
  BY DEF MarkRunning, SameOwners, Born, TypeOK, ClusterTypeOK
<1>3. status \in IAStatus /\ status.phase = "Running"
  BY <1>2 DEF IA, IAStatus, Phases
<1>4. /\ reply = "done" => Matches(dr.app) /\ ia'.uid = ia.uid /\ ia'.status = status
      /\ \/ ia' = ia /\ iaFeed' = iaFeed
         \/ /\ Matches(dr.app)
            /\ ia'.rv = ia.rv + 1
            /\ ia'.uid = ia.uid /\ ia'.status = status
            /\ iaFeed' = iaFeed \union {ia'}
  <2> HIDE DEF status
  <2> SUFFICES ASSUME UpdateStatus(dr.app, status, reply)
               PROVE  /\ reply = "done" => Matches(dr.app) /\ ia'.uid = ia.uid /\ ia'.status = status
                      /\ \/ ia' = ia /\ iaFeed' = iaFeed
                         \/ /\ Matches(dr.app)
                            /\ ia'.rv = ia.rv + 1
                            /\ ia'.uid = ia.uid /\ ia'.status = status
                            /\ iaFeed' = iaFeed \union {ia'}
    BY <1>1 DEF status
  <2> QED BY <1>3, UpdateStatusEffect DEF TypeOK, ClusterTypeOK
<1>5. SameObject \/ (NewVersion /\ NotYounger)
  <2>1. CASE ia' = ia /\ iaFeed' = iaFeed
    BY <2>1 DEF SameObject
  <2>2. CASE /\ ia'.rv = ia.rv + 1
             /\ ia'.uid = ia.uid /\ ia'.status = status
             /\ iaFeed' = iaFeed \union {ia'}
    BY <1>2, <1>3, <2>2 DEF NewVersion, NotYounger, Early, CopiesCurrent, IA
  <2> QED BY <1>4, <2>1, <2>2
<1>6. Current(iaCache', ia')
  BY <1>2, <1>5, CopyKept DEF CopiesCurrent
<1>7. CASE reply = "done"
  <2>1. dr'.pc = "choose" /\ dr'.app = ia'
    BY <1>1, <1>2, <1>7
  <2>2. ia.uid # 0 /\ ia.status.phase = "Pending"
    BY <1>2, <1>4, <1>7 DEF Matches, MarksPending, CopiesCurrent, Current
  <2>3. ia'.uid = ia.uid /\ ia'.status.phase = "Running"
    BY <1>3, <1>4, <1>7
  <2>4. CopiesCurrent'
    <3>1. Current(dr'.app, ia')
      BY <1>2, <1>5, <2>1 DEF Current, NewVersion, SameObject, CopiesCurrent, IA
    <3> QED BY <1>5, <1>6, <3>1, CopiesKept
  <2>5. OwnersExisted' /\ AtMostOnePod'
    BY <1>2, <1>5, OwnersKept, OnePodKept
  <2>6. MarksPending' /\ LaunchesFirst'
    BY <1>2, <2>1, <2>2, <2>3 DEF MarksPending, LaunchesFirst, Launching, NothingStartedEarly, Early, Born
  <2>7. NothingStartedEarly'
    BY <2>3 DEF NothingStartedEarly, Early
  <2> QED BY <2>4, <2>5, <2>6, <2>7
<1>8. CASE reply # "done"
  <2>1. dr' = Idle
    BY <1>1, <1>8 DEF Retry
  <2> QED BY <1>2, <1>5, <1>6, <2>1, NoCopy, CalmStep
<1> QED BY <1>7, <1>8

LEMMA ChooseInv ==
  ASSUME IInv, TypeOK', Choose
  PROVE  IInv'
<1> USE DEF IInv
<1>1. /\ UNCHANGED <<ia, iaCache, iaFeed, pods>>
      /\ SameObject /\ SameOwners
      /\ dr \in [pc : Pcs, app : IA, todo : SUBSET Pods]
      /\ dr.pc = "choose"
  BY DEF Choose, cluster, SameObject, SameOwners, Born, TypeOK
<1>2. CASE GoTo("create")
  <2>1. dr'.pc = "create" /\ dr'.app = dr.app
    BY <1>1, <1>2 DEF GoTo
  <2>2. CopiesCurrent'
    BY <1>1, <2>1, CopiesKept DEF CopiesCurrent
  <2>3. OwnersExisted' /\ AtMostOnePod'
    BY <1>1, OwnersKept, OnePodKept
  <2>4. MarksPending' /\ LaunchesFirst' /\ NothingStartedEarly'
    BY <1>1, <2>1 DEF MarksPending, LaunchesFirst, Launching, NothingStartedEarly, Early, Born
  <2> QED BY <2>2, <2>3, <2>4
<1>3. CASE Retry
  BY <1>1, <1>3, NoCopy, CalmStep DEF Retry, CopiesCurrent
<1> QED BY <1>2, <1>3 DEF Choose

\* The one step that starts a pod: for an object that has none.
LEMMA CreateInv ==
  ASSUME IInv, TypeOK', Create
  PROVE  IInv'
<1> USE DEF IInv
<1>1. PICK reply \in {"done", "error"} :
        CreatePod(dr.app.uid, reply) /\ (IF reply = "done" THEN Return ELSE Retry)
  BY DEF Create
<1>2. /\ UNCHANGED <<ia, iaCache, iaFeed>> /\ SameObject
      /\ dr.pc = "create" /\ dr' = Idle
      /\ dr.app \in IA /\ ia \in IA /\ pods \in [Pods -> Pod]
  BY <1>1 DEF Create, SameObject, Return, Retry, TypeOK, ClusterTypeOK
<1>3. CASE UNCHANGED pods
  <2>1. SameOwners
    BY <1>3 DEF SameOwners, Born
  <2> QED BY <1>2, <2>1, NoCopy, CalmStep DEF CopiesCurrent
<1>4. ASSUME NEW new \in Pods, ~Born(new),
             pods' = [pods EXCEPT ![new] = [NoPod EXCEPT !.owner = dr.app.uid, !.state = "active"]]
      PROVE  IInv'
  <2>1. /\ pods'[new].owner = dr.app.uid
        /\ \A p \in Pods : p # new => pods'[p] = pods[p]
        /\ \A p \in Pods : Born(p)' <=> (p = new \/ Born(p))
    BY <1>2, <1>4 DEF Born, NoPod
  <2>2. dr.app.uid # 0 /\ \A p \in Pods : Born(p) => pods[p].owner # dr.app.uid
    BY <1>2 DEF LaunchesFirst, Launching
  <2>3. CopiesCurrent'
    BY <1>2, NoCopy, CopiesKept DEF CopiesCurrent
  <2>4. OwnersExisted'
    <3>1. dr.app.uid \in 1..ia.rv
      BY <1>2, <2>2 DEF CopiesCurrent, Current, IA
    <3> QED BY <1>2, <2>1, <3>1 DEF OwnersExisted
  <2>5. MarksPending' /\ LaunchesFirst'
    BY <1>2, NoCopy DEF MarksPending, LaunchesFirst, Launching
  <2>6. NothingStartedEarly'
    BY <1>2, <2>1, NoCopy DEF NothingStartedEarly, Launching, Early
  <2>7. AtMostOnePod'
    <3> SUFFICES ASSUME NEW p \in Pods, NEW q \in Pods, p # q, Born(p)', Born(q)'
                 PROVE  pods'[p].owner # pods'[q].owner
      BY DEF AtMostOnePod, Born
    <3>1. CASE p # new /\ q # new
      BY <2>1, <3>1 DEF AtMostOnePod, Born
    <3>2. CASE p = new \/ q = new
      BY <2>1, <2>2, <3>2
    <3> QED BY <3>1, <3>2
  <2> QED BY <2>3, <2>4, <2>5, <2>6, <2>7
<1> QED BY <1>1, <1>3, <1>4 DEF CreatePod, Born

\* The steps that only read.
LEMMA ReadInv ==
  ASSUME IInv, TypeOK',
         List \/ EachFailed \/ EachSilent \/ EachGarbled \/ EachReadable \/ ListFinished
  PROVE  IInv'
<1> USE DEF IInv
<1>1. /\ UNCHANGED <<ia, iaCache, iaFeed, pods>>
      /\ SameObject /\ SameOwners
      /\ iaCache \in IA /\ dr \in [pc : Pcs, app : IA, todo : SUBSET Pods]
      /\ pods \in [Pods -> Pod]
  BY DEF List, EachFailed, EachSilent, EachGarbled, EachReadable, ListFinished,
         cluster, SameObject, SameOwners, Born, TypeOK, ClusterTypeOK
<1>2. \/ dr' = Idle
      \/ dr'.pc \in {"each", "clean"} /\ dr'.app = dr.app
      \/ dr'.pc = "spec" /\ dr'.app.uid = iaCache.uid /\ dr'.app.rv = iaCache.rv
           /\ dr'.app.status = iaCache.status
  <2>1. CASE List
    BY <1>1, <2>1 DEF List, Return
  <2>2. CASE EachFailed \/ EachGarbled
    BY <2>2 DEF EachFailed, EachGarbled, Return, Retry
  <2>3. CASE EachSilent
    BY <1>1, <2>3 DEF EachSilent, Skip
  <2>4. CASE EachReadable
    <3> SUFFICES ASSUME NEW p \in dr.todo,
                        dr' = [pc |-> "spec",
                               app |-> [iaCache EXCEPT !.spec.langs = FindsLangs(pods[p].outcome),
                                                       !.spec.apps = FindsApps(pods[p].outcome),
                                                       !.spec.active = pods[p].name],
                               todo |-> dr.todo \ {p}]
                 PROVE  /\ dr'.pc = "spec" /\ dr'.app.uid = iaCache.uid
                        /\ dr'.app.rv = iaCache.rv /\ dr'.app.status = iaCache.status
      BY <2>4 DEF EachReadable, Retry
    <3> QED BY <1>1 DEF IA
  <2>5. CASE ListFinished
    BY <1>1, <2>5 DEF ListFinished, Return
  <2> QED BY <2>1, <2>2, <2>3, <2>4, <2>5
<1>3. dr'.pc \notin {"markRunning", "choose", "create"} /\ Current(dr'.app, ia)
  BY <1>1, <1>2, NoCopy DEF CopiesCurrent, Current
<1> QED BY <1>1, <1>3, CalmStep DEF CopiesCurrent

\* The steps that write what was found.
LEMMA ResultInv ==
  ASSUME IInv, TypeOK', PutSpec \/ PutCompleted
  PROVE  IInv'
<1> USE DEF IInv
<1>1. /\ UNCHANGED <<iaCache, pods>> /\ SameOwners
      /\ dr.app \in IA /\ ia \in IA /\ ia' \in IA /\ iaCache \in IA
      /\ dr \in [pc : Pcs, app : IA, todo : SUBSET Pods]
  BY DEF PutSpec, PutCompleted, SameOwners, Born, TypeOK, ClusterTypeOK
<1>2. /\ ia'.uid = ia.uid /\ (Early(ia') => Early(ia))
      /\ SameObject \/ (ia'.rv = ia.rv + 1 /\ iaFeed' = iaFeed \union {ia'})
  <2>1. CASE PutSpec
    <3>1. PICK reply \in Replies : UpdateSpec(dr.app, dr.app.spec, reply)
      BY <2>1 DEF PutSpec
    <3>2. dr.app.spec \in IASpec
      BY <1>1 DEF IA
    <3> QED BY <3>1, <3>2, UpdateSpecEffect DEF TypeOK, ClusterTypeOK, SameObject, Early
  <2>2. CASE PutCompleted
    <3> DEFINE status == [dr.app.status EXCEPT !.phase = "Completed"]
    <3>1. PICK reply \in Replies : UpdateStatus(dr.app, status, reply)
      BY <2>2 DEF PutCompleted
    <3>2. status \in IAStatus /\ status.phase = "Completed"
      BY <1>1 DEF IA, IAStatus, Phases
    <3> HIDE DEF status
    <3> QED BY <3>1, <3>2, UpdateStatusEffect DEF TypeOK, ClusterTypeOK, SameObject, Early
  <2> QED BY <2>1, <2>2
<1>3. SameObject \/ (NewVersion /\ NotYounger)
  BY <1>1, <1>2 DEF NewVersion, NotYounger, CopiesCurrent, IA
<1>4. dr' = Idle \/ (dr'.pc = "status" /\ dr'.app = ia') \/ (dr'.pc = "each" /\ dr'.app = NoIA)
  BY <1>1 DEF PutSpec, PutCompleted, GiveUp, Return, Retry
<1>5. Current(ia', ia')
  BY <1>1, <1>3 DEF Current, NewVersion, SameObject, CopiesCurrent, IA
<1>6. Current(iaCache', ia')
  BY <1>1, <1>3, CopyKept DEF CopiesCurrent
<1> QED BY <1>1, <1>3, <1>4, <1>5, <1>6, NoCopy, CalmStep

LEMMA CleanInv ==
  ASSUME IInv, SeenBorn, TypeOK', Clean
  PROVE  IInv'
<1> USE DEF IInv
<1>1. PICK p \in dr.todo, reply \in {"done", "error"} : DeletePod(p, reply)
  BY DEF Clean
<1>2. /\ UNCHANGED <<ia, iaCache, iaFeed>> /\ SameObject
      /\ dr \in [pc : Pcs, app : IA, todo : SUBSET Pods] /\ dr.pc = "clean"
      /\ pods \in [Pods -> Pod]
  BY DEF Clean, SameObject, TypeOK, ClusterTypeOK
<1>3. dr' = Idle \/ (dr'.pc = "clean" /\ dr'.app = dr.app)
  BY <1>2 DEF Clean, Return, Retry
<1>4. SameOwners
  <2>1. CASE UNCHANGED pods
    BY <2>1 DEF SameOwners, Born
  <2>2. CASE pods' = [pods EXCEPT ![p].state = "gone"]
    <3>1. p \in Pods /\ Born(p)
      BY <1>2 DEF SeenBorn
    <3> QED BY <1>2, <2>2, <3>1 DEF SameOwners, Born, Pod
  <2> QED BY <1>1, <2>1, <2>2 DEF DeletePod
<1>5. Current(dr'.app, ia)
  BY <1>3, NoCopy DEF CopiesCurrent
<1> QED BY <1>2, <1>3, <1>4, <1>5, NoCopy, CalmStep DEF CopiesCurrent, Clean

\* The steps of the watches, of a restart, of the kubelet and of the collector.
LEMMA ClusterInv ==
  ASSUME IInv, TypeOK', WatchIA \/ WatchPod \/ Restart \/ TargetChange \/ Kubelet \/ Collector
  PROVE  IInv'
<1> USE DEF IInv
<1>1. ia' = ia /\ ia \in IA /\ pods \in [Pods -> Pod]
  BY DEF WatchIA, DeliverIA, WatchPod, DeliverPod, Restart, TargetChange, cluster,
         Kubelet, FinishPod, Collector, CollectPod, TypeOK, ClusterTypeOK
<1>2. CASE WatchIA
  <2>1. PICK v \in iaFeed : iaCache' = v /\ iaFeed' = {u \in iaFeed : u.rv > v.rv}
    BY <1>2 DEF WatchIA, DeliverIA
  <2>2. UNCHANGED <<pods, dr>>
    BY <1>2 DEF WatchIA, DeliverIA
  <2>3. CopiesCurrent'
    BY <1>1, <2>1, <2>2 DEF CopiesCurrent
  <2> QED BY <1>1, <2>2, <2>3 DEF OwnersExisted, MarksPending, LaunchesFirst, Launching,
             NothingStartedEarly, Early, AtMostOnePod, Born
<1>3. CASE Restart
  <2>1. iaCache' = ia /\ iaFeed' = {} /\ dr' = Idle /\ UNCHANGED pods
    BY <1>3 DEF Restart, Relist
  <2>2. CopiesCurrent'
    BY <1>1, <2>1, NoCopy DEF CopiesCurrent, Current, IA
  <2> QED BY <1>1, <2>1, <2>2, NoCopy DEF OwnersExisted, MarksPending, LaunchesFirst, Launching,
             NothingStartedEarly, Early, AtMostOnePod, Born
<1>4. CASE WatchPod \/ TargetChange \/ Kubelet \/ Collector
  <2>1. dr' = dr /\ iaCache' = iaCache /\ SameObject
    BY <1>4 DEF WatchPod, DeliverPod, TargetChange, cluster, Kubelet, FinishPod,
                Collector, CollectPod, detection, SameObject
  <2>2. SameOwners
    <3>1. CASE WatchPod \/ TargetChange
      BY <3>1 DEF WatchPod, DeliverPod, TargetChange, cluster, SameOwners, Born
    <3>2. CASE Kubelet
      <4>1. PICK q \in Pods, o \in Reports, n \in Names \union {NoName} :
              /\ pods[q].state = "active"
              /\ pods' = [pods EXCEPT ![q].state = "finished", ![q].outcome = o, ![q].name = n]
        BY <3>2 DEF Kubelet, FinishPod
      <4>2. pods'[q].owner = pods[q].owner /\ pods'[q].state = "finished"
        BY <1>1, <4>1 DEF Pod
      <4>3. \A p \in Pods : p # q => pods'[p] = pods[p]
        BY <1>1, <4>1
      <4> QED BY <4>1, <4>2, <4>3 DEF SameOwners, Born
    <3>3. CASE Collector
      BY <1>1, <3>3 DEF Collector, CollectPod, SameOwners, Born, Pod
    <3> QED BY <1>4, <3>1, <3>2, <3>3
  <2> QED BY <1>1, <2>1, <2>2, ForeignStep DEF CopiesCurrent
<1> QED BY <1>2, <1>3, <1>4

\* The steps of the object's other writers.
LEMMA OthersInv ==
  ASSUME IInv, TypeOK', Others
  PROVE  IInv'
<1> USE DEF IInv
<1>1. /\ UNCHANGED <<iaCache, pods, dr>> /\ SameOwners
      /\ ia \in IA /\ ia' \in IA /\ iaFeed \in SUBSET IA /\ iaCache \in IA
  BY DEF Others, detection, SameOwners, Born, TypeOK, ClusterTypeOK
<1>2. ASSUME NEW new \in IA, Store(new),
             \/ new.uid = ia.uid /\ (Early(new) => Early(ia))
             \/ new.uid = 0
             \/ new.uid = ia.rv + 1
      PROVE  SameObject \/ (NewVersion /\ (NotYounger \/ ia'.uid = ia'.rv))
  <2>1. CASE ia' = ia /\ iaFeed' = iaFeed
    BY <2>1 DEF SameObject
  <2>2. CASE /\ ia'.rv = ia.rv + 1
             /\ ia'.uid = new.uid /\ ia'.status = new.status
             /\ iaFeed' = iaFeed \union {ia'}
    <3>1. ia.uid <= ia.rv /\ ia.uid \in Nat /\ ia.rv \in Nat /\ new.uid <= ia.rv + 1
      BY <1>1, <1>2 DEF CopiesCurrent, IA
    <3> QED BY <1>2, <2>2, <3>1 DEF NewVersion, NotYounger, Early
  <2> QED BY <1>1, <1>2, <2>1, <2>2, StoreEffect
<1>3. SameObject \/ (NewVersion /\ (NotYounger \/ ia'.uid = ia'.rv))
  <2>1. CASE Appeared
    BY <1>1, <1>2, <2>1, BlanksTyped DEF Appeared, NewIA
  <2>2. CASE Pended
    <3> DEFINE new == [ia EXCEPT !.status.phase = "Pending"]
    <3>1. new \in IA /\ new.uid = ia.uid
      BY <1>1 DEF IA, IAStatus, Phases
    <3>2. Store(new) /\ Early(ia)
      BY <2>2 DEF Pended, Early
    <3> HIDE DEF new
    <3> QED BY <1>2, <3>1, <3>2
  <2>3. CASE Touched
    <3> SUFFICES ASSUME NEW a \in Names \union {NoName}, NEW l \in LogTypes \union {NoLogType},
                        NEW t \in BOOLEAN, NEW d \in BOOLEAN,
                        Store([ia EXCEPT !.spec.active = a, !.spec.logType = l,
                                         !.status.traces = t, !.status.detected = d])
                 PROVE  SameObject \/ (NewVersion /\ (NotYounger \/ ia'.uid = ia'.rv))
      BY <2>3 DEF Touched
    <3> DEFINE new == [ia EXCEPT !.spec.active = a, !.spec.logType = l,
                                 !.status.traces = t, !.status.detected = d]
    <3>1. new \in IA /\ new.uid = ia.uid /\ new.status.phase = ia.status.phase
      BY <1>1 DEF IA, IASpec, IAStatus
    <3>2. Store(new)
      OBVIOUS
    <3> HIDE DEF new
    <3> QED BY <1>2, <3>1, <3>2 DEF Early
  <2>4. CASE RemoveIA
    <3> DEFINE new == [NoIA EXCEPT !.rv = ia.rv]
    <3>1. new \in IA /\ new.uid = 0
      BY <1>1, BlanksTyped DEF IA, NoIA
    <3>2. Store(new)
      BY <2>4 DEF RemoveIA
    <3> HIDE DEF new
    <3> QED BY <1>2, <3>1, <3>2
  <2>5. CASE UNCHANGED <<ia, iaFeed>>
    BY <2>5 DEF SameObject
  <2> QED BY <2>1, <2>2, <2>3, <2>4, <2>5 DEF Others
<1>4. Current(iaCache', ia')
  BY <1>1, <1>3, CopyKept DEF CopiesCurrent
<1> QED BY <1>1, <1>3, <1>4, ForeignStep

\* No step forgets that a pod was started.
LEMMA BornStays ==
  ASSUME TypeOK, [OpenNext]_vars, NEW p \in Pods, Born(p)
  PROVE  Born(p)'
<1>1. pods \in [Pods -> Pod]
  BY DEF TypeOK, ClusterTypeOK
<1>2. CASE UNCHANGED pods
  BY <1>2 DEF Born
<1>3. CASE Create
  BY <1>1, <1>3 DEF Create, CreatePod, Born
<1>4. CASE Clean
  BY <1>1, <1>4 DEF Clean, DeletePod, Born, Pod
<1>5. CASE Kubelet
  BY <1>1, <1>5 DEF Kubelet, FinishPod, Born, Pod
<1>6. CASE Collector
  BY <1>1, <1>6 DEF Collector, CollectPod, Born, Pod
<1> QED
  BY <1>2, <1>3, <1>4, <1>5, <1>6
     DEF OpenNext, Reconcile, Get, MarkRunning, Choose, List, EachFailed, EachSilent, EachGarbled,
         EachReadable, PutSpec, PutCompleted, ListFinished, WatchIA, DeliverIA, WatchPod,
         DeliverPod, Restart, TargetChange, Others, vars, cluster

LEMMA SeenBornStep ==
  ASSUME TypeOK, SeenBorn, [OpenNext]_vars
  PROVE  SeenBorn'
<1> SUFFICES ASSUME NEW p \in Pods, podCache'[p].state = "finished" \/ p \in dr'.todo
             PROVE  Born(p)'
  BY DEF SeenBorn
<1>1. /\ dr \in [pc : Pcs, app : IA, todo : SUBSET Pods]
      /\ pods \in [Pods -> Pod] /\ podCache \in [Pods -> Pod]
  BY DEF TypeOK, ClusterTypeOK
<1>2. podCache'[p].state = "finished" => Born(p)
  <2>1. podCache' = podCache \/ podCache'[p] = podCache[p] \/ podCache'[p] = pods[p]
    BY <1>1 DEF OpenNext, Reconcile, Get, MarkRunning, Choose, Create, List, EachFailed, EachSilent,
         EachGarbled, EachReadable, PutSpec, PutCompleted, ListFinished, Clean, WatchIA, DeliverIA,
         WatchPod, DeliverPod, Restart, Relist, TargetChange, Kubelet, FinishPod, Collector,
         CollectPod, Others, vars, cluster
  <2> QED BY <2>1 DEF SeenBorn, Born
<1>3. p \in dr'.todo => Born(p)
  <2>1. p \in dr'.todo => p \in dr.todo \/ p \in Finished
    <3>1. CASE Get
      BY <3>1 DEF Get, Idle
    <3>2. CASE MarkRunning \/ PutSpec \/ PutCompleted
      <4>1. dr' = Idle \/ (\E pc \in Pcs, app \in {ia', NoIA} : dr' = [dr EXCEPT !.pc = pc, !.app = app])
        BY <3>2 DEF MarkRunning, PutSpec, PutCompleted, GiveUp, Return, Retry, Pcs
      <4>2. Idle.todo = {}
        BY DEF Idle
      <4> QED BY <1>1, <4>1, <4>2
    <3>3. CASE Choose \/ Create \/ Clean
      BY <1>1, <3>3 DEF Choose, Create, Clean, GoTo, Return, Retry, Idle
    <3>4. CASE List \/ ListFinished
      <4>1. dr' = Idle \/ (\E pc \in Pcs : dr' = [dr EXCEPT !.pc = pc, !.todo = Finished])
        BY <3>4 DEF List, ListFinished, Return, Pcs
      <4>2. Idle.todo = {}
        BY DEF Idle
      <4> QED BY <1>1, <4>1, <4>2
    <3>5. CASE EachFailed \/ EachSilent \/ EachGarbled
      <4>1. dr' = Idle \/ (\E q \in Pods : dr' = [dr EXCEPT !.pc = "each", !.todo = @ \ {q}])
        BY <1>1, <3>5 DEF EachFailed, EachSilent, EachGarbled, Skip, Return, Retry
      <4>2. Idle.todo = {}
        BY DEF Idle
      <4> QED BY <1>1, <4>1, <4>2
    <3>6. CASE EachReadable
      BY <1>1, <3>6 DEF EachReadable, Retry, Idle
    <3>7. CASE Restart
      BY <3>7 DEF Restart, Idle
    <3>8. CASE dr' = dr
      BY <3>8
    <3> QED BY <3>1, <3>2, <3>3, <3>4, <3>5, <3>6, <3>7, <3>8
            DEF OpenNext, Reconcile, WatchIA, WatchPod, TargetChange, Kubelet, Collector, Others,
                detection, vars
  <2> QED BY <2>1 DEF SeenBorn, Finished
<1> QED BY <1>2, <1>3, BornStays

LEMMA NextInv == IInv /\ SeenBorn /\ [OpenNext]_vars => IInv' /\ SeenBorn'
<1> SUFFICES ASSUME IInv, SeenBorn, [OpenNext]_vars PROVE IInv' /\ SeenBorn'
  OBVIOUS
<1>1. TypeOK /\ TypeOK'
  BY NextType DEF IInv
<1>2. SeenBorn'
  BY <1>1, SeenBornStep
<1>3. CASE OpenNext
  <2>1. CASE Get \/ MarkRunning \/ Choose \/ Create
    BY <1>1, <1>2, <2>1, GetInv, MarkRunningInv, ChooseInv, CreateInv
  <2>2. CASE List \/ EachFailed \/ EachSilent \/ EachGarbled \/ EachReadable \/ ListFinished
    BY <1>1, <1>2, <2>2, ReadInv
  <2>3. CASE PutSpec \/ PutCompleted \/ Clean
    BY <1>1, <1>2, <2>3, ResultInv, CleanInv
  <2>4. CASE WatchIA \/ WatchPod \/ Restart \/ TargetChange \/ Kubelet \/ Collector
    BY <1>1, <1>2, <2>4, ClusterInv
  <2>5. CASE Others
    BY <1>1, <1>2, <2>5, OthersInv
  <2> QED BY <1>2, <1>3, <2>1, <2>2, <2>3, <2>4, <2>5 DEF OpenNext, Reconcile
<1>4. CASE UNCHANGED vars
  <2>1. SameObject /\ SameOwners /\ dr' = dr /\ iaCache' = iaCache
    BY <1>4 DEF vars, cluster, detection, SameObject, SameOwners, Born
  <2>2. Current(iaCache', ia')
    BY <2>1 DEF SameObject, IInv, CopiesCurrent
  <2> QED BY <1>1, <1>2, <2>1, <2>2, ForeignStep
<1> QED BY <1>2, <1>3, <1>4

-----------------------------------------------------------------------------
(***************************************************************************)
(* The theorems.                                                            *)
(***************************************************************************)

LEMMA Inductive == OpenSpec => [](IInv /\ SeenBorn)
<1>1. Init => SeenBorn
  BY DEF Init, ClusterInit, SeenBorn, Idle, NoPod
<1> QED
  BY <1>1, InitInv, NextInv, PTL DEF OpenSpec

\* However many pods the cluster could hold, calls fail and restarts come: at
\* most one detection pod is ever started for one InstrumentedApplication.
THEOREM OnePodPerObject == Spec => []AtMostOnePod
<1>1. IInv => AtMostOnePod
  BY DEF IInv
<1> QED
  BY <1>1, Inductive, Opened, PTL

LEMMA RankType == Rank \in [Phases -> 0..3]
BY DEF Rank, Phases

NoPhase == ""

\* The orders of phases a step goes through.
LEMMA RankOrder ==
  ASSUME NEW a \in Phases, NEW b \in Phases,
         a = b \/ b = "Completed" \/ a = NoPhase \/ (a = "Pending" /\ b = "Running")
  PROVE  Rank[b] >= Rank[a]
<1>1. Rank[a] \in 0..3 /\ Rank[b] \in 0..3
  BY RankType, Zenon
<1>2. CASE a = b
  BY <1>1, <1>2
<1>3. CASE b = "Completed"
  <2>1. Rank[b] = 3
    BY <1>3, Zenon DEF Rank, Phases
  <2> QED BY <1>1, <2>1
<1>4. CASE a = NoPhase
  <2>1. Rank[a] = 0
    BY <1>4, Zenon DEF Rank, Phases, NoPhase
  <2> QED BY <1>1, <2>1
<1>5. CASE a = "Pending" /\ b = "Running"
  <2>1. Rank[a] = 1 /\ Rank[b] = 2
    BY <1>5, Zenon DEF Rank, Phases
  <2> QED BY <2>1
<1> QED BY <1>2, <1>3, <1>4, <1>5

LEMMA PhaseStep ==
  ASSUME IInv, TypeOK', [OpenNext]_vars, ia'.uid = ia.uid
  PROVE  Rank[ia'.status.phase] >= Rank[ia.status.phase]
<1> USE DEF IInv
<1>1. /\ ia \in IA /\ ia' \in IA /\ dr.app \in IA
      /\ ia.status.phase \in Phases /\ ia'.status.phase \in Phases
  BY DEF TypeOK, ClusterTypeOK, IA, IAStatus
<1>2. CASE ia'.status.phase = ia.status.phase
  BY <1>1, <1>2, RankOrder
<1>3. CASE MarkRunning
  <2> DEFINE status == [dr.app.status EXCEPT !.phase = "Running"]
  <2>1. PICK reply \in Replies : UpdateStatus(dr.app, status, reply)
    BY <1>3 DEF MarkRunning
  <2>2. status \in IAStatus /\ status.phase = "Running"
    BY <1>1 DEF IA, IAStatus, Phases
  <2>3. ia' = ia \/ (Matches(dr.app) /\ ia'.status = status)
    <3> HIDE DEF status
    <3> QED BY <2>1, <2>2, UpdateStatusEffect DEF TypeOK, ClusterTypeOK
  <2>4. CASE Matches(dr.app) /\ ia'.status = status
    <3>1. ia.status.phase = "Pending"
      BY <1>1, <1>3, <2>4 DEF MarkRunning, Matches, MarksPending, CopiesCurrent, Current
    <3>2. ia'.status.phase = "Running"
      BY <2>2, <2>4
    <3> QED BY <1>1, <3>1, <3>2, RankOrder
  <2> QED BY <1>2, <2>3, <2>4
<1>4. CASE PutSpec
  <2>1. PICK reply \in Replies : UpdateSpec(dr.app, dr.app.spec, reply)
    BY <1>4 DEF PutSpec
  <2>2. dr.app.spec \in IASpec
    BY <1>1 DEF IA
  <2> QED BY <1>2, <2>1, <2>2, UpdateSpecEffect DEF TypeOK, ClusterTypeOK
<1>5. CASE PutCompleted
  <2> DEFINE status == [dr.app.status EXCEPT !.phase = "Completed"]
  <2>1. PICK reply \in Replies : UpdateStatus(dr.app, status, reply)
    BY <1>5 DEF PutCompleted
  <2>2. status \in IAStatus /\ status.phase = "Completed"
    BY <1>1 DEF IA, IAStatus, Phases
  <2>3. ia' = ia \/ ia'.status = status
    <3> HIDE DEF status
    <3> QED BY <2>1, <2>2, UpdateStatusEffect DEF TypeOK, ClusterTypeOK
  <2>4. CASE ia'.status = status
    BY <1>1, <2>2, <2>4, RankOrder
  <2> QED BY <1>2, <2>3, <2>4
<1>6. CASE Others
  <2>1. CASE Appeared
    <3>1. ia' = ia \/ ia'.uid = ia.rv + 1
      BY <1>1, <2>1, BlanksTyped, StoreEffect DEF Appeared, NewIA, TypeOK, ClusterTypeOK
    <3>2. ia.uid # ia.rv + 1
      BY <1>1 DEF CopiesCurrent, IA
    <3> QED BY <1>2, <3>1, <3>2
  <2>2. CASE Pended
    <3>1. ia.status.phase = NoPhase
      BY <2>2, Zenon DEF Pended, NoPhase
    <3> QED BY <1>1, <3>1, RankOrder
  <2>3. CASE Touched
    <3>1. PICK a \in Names \union {NoName}, l \in LogTypes \union {NoLogType},
               t \in BOOLEAN, d \in BOOLEAN :
            Store([ia EXCEPT !.spec.active = a, !.spec.logType = l,
                             !.status.traces = t, !.status.detected = d])
      BY <2>3 DEF Touched
    <3> DEFINE new == [ia EXCEPT !.spec.active = a, !.spec.logType = l,
                                 !.status.traces = t, !.status.detected = d]
    <3>2. new \in IA /\ new.status.phase = ia.status.phase
      BY <1>1 DEF IA, IASpec, IAStatus
    <3>3. ia'.status.phase = ia.status.phase
      <4>1. Store(new)
        BY <3>1
      <4> HIDE DEF new
      <4> QED BY <3>2, <4>1, StoreEffect DEF TypeOK, ClusterTypeOK
    <3> QED BY <1>2, <3>3
  <2>4. CASE RemoveIA
    <3>1. ia.uid # 0 /\ (ia' = ia \/ ia'.uid = 0)
      BY <2>4 DEF RemoveIA, Store, NoIA
    <3> QED BY <1>2, <3>1
  <2>5. CASE UNCHANGED <<ia, iaFeed>>
    BY <1>2, <2>5
  <2> QED BY <1>6, <2>1, <2>2, <2>3, <2>4, <2>5 DEF Others
<1>7. CASE ia' = ia
  BY <1>2, <1>7
<1> QED
  BY <1>3, <1>4, <1>5, <1>6, <1>7
     DEF OpenNext, Reconcile, Get, Choose, Create, List, EachFailed, EachSilent, EachGarbled,
         EachReadable, ListFinished, Clean, WatchIA, DeliverIA, WatchPod, DeliverPod, Restart,
         TargetChange, Kubelet, FinishPod, Collector, CollectPod, vars, cluster

LEMMA PhasesForward == OpenSpec => PhaseNeverGoesBack
<1>1. /\ IInv /\ SeenBorn
      /\ [OpenNext]_vars
      => [ia'.uid = ia.uid => Rank[ia'.status.phase] >= Rank[ia.status.phase]]_vars
  BY NextInv, PhaseStep DEF IInv
<1> QED
  BY <1>1, Inductive, PTL DEF OpenSpec, PhaseNeverGoesBack

\* No write of the reconciler, however old the copy it is sent from, and no
\* write of anybody else takes the phase of an object back.
THEOREM PhaseMonotone == Spec => PhaseNeverGoesBack
<1> QED BY PhasesForward, Opened, PTL

-----------------------------------------------------------------------------
(***************************************************************************)
(* Results.  What any copy of an object says was found, a pod has reported, *)
(* and no step takes a report back.                                         *)
(***************************************************************************)

Reported(app, ps) ==
  /\ app.status.phase = "Completed" => \E p \in Pods : ps[p].outcome \in Readable
  /\ app.spec.langs => \E p \in Pods : FindsLangs(ps[p].outcome)
  /\ app.spec.apps => \E p \in Pods : FindsApps(ps[p].outcome)

\* A pod that has not finished has come to nothing.
NothingReportedEarly ==
  \A p \in Pods : pods[p].state \in {"unborn", "active"} => pods[p].outcome = "none"

\* What the worker is about to write it has read.
WritesWhatItRead == dr.pc \in {"spec", "status"} => \E p \in Pods : pods[p].outcome \in Readable

CopiesReported ==
  /\ Reported(ia, pods)
  /\ Reported(iaCache, pods)
  /\ Reported(dr.app, pods)
  /\ \A v \in iaFeed : Reported(v, pods)

ReportInv == NothingReportedEarly /\ WritesWhatItRead /\ CopiesReported

\* No outcome is replaced by another.
OutcomesStay == \A p \in Pods : pods[p].outcome = "none" \/ pods'[p].outcome = pods[p].outcome

LEMMA ReportedStays ==
  ASSUME OutcomesStay, NEW app, Reported(app, pods)
  PROVE  Reported(app, pods')
BY DEF OutcomesStay, Reported, Readable, FindsLangs, FindsApps

LEMMA BlankReported == \A ps : Reported(NoIA, ps)
BY DEF Reported, NoIA, BlankSpec, BlankStatus

\* Pods change by being started, finishing and going.
LEMMA OutcomesStep ==
  ASSUME TypeOK, NothingReportedEarly, [OpenNext]_vars
  PROVE  NothingReportedEarly' /\ OutcomesStay
<1>1. pods \in [Pods -> Pod]
  BY DEF TypeOK, ClusterTypeOK
<1>2. CASE UNCHANGED pods
  BY <1>2 DEF NothingReportedEarly, OutcomesStay
<1>3. ASSUME NEW p \in Pods,
             pods[p].state = "unborn",
             NEW owner, pods' = [pods EXCEPT ![p] = [NoPod EXCEPT !.owner = owner, !.state = "active"]]
      PROVE  NothingReportedEarly' /\ OutcomesStay
  <2>1. pods[p].outcome = "none" /\ pods'[p].outcome = "none"
    BY <1>1, <1>3 DEF NothingReportedEarly, NoPod
  <2>2. \A q \in Pods : q # p => pods'[q] = pods[q]
    BY <1>1, <1>3
  <2> QED BY <2>1, <2>2 DEF NothingReportedEarly, OutcomesStay
<1>4. ASSUME NEW p \in Pods, pods' = [pods EXCEPT ![p].state = "gone"]
      PROVE  NothingReportedEarly' /\ OutcomesStay
  <2>1. pods'[p].state = "gone" /\ pods'[p].outcome = pods[p].outcome
    BY <1>1, <1>4 DEF Pod
  <2>2. \A q \in Pods : q # p => pods'[q] = pods[q]
    BY <1>1, <1>4
  <2> QED BY <2>1, <2>2 DEF NothingReportedEarly, OutcomesStay
<1>5. CASE Create
  BY <1>2, <1>3, <1>5 DEF Create, CreatePod
<1>6. CASE Clean
  <2>1. PICK p \in dr.todo, reply \in {"done", "error"} : DeletePod(p, reply)
    BY <1>6 DEF Clean
  <2>2. p \in Pods
    BY DEF TypeOK
  <2> QED BY <1>2, <1>4, <2>1, <2>2 DEF DeletePod
<1>7. CASE Kubelet
  <2>1. PICK p \in Pods, o \in Reports, n \in Names \union {NoName} :
          /\ pods[p].state = "active"
          /\ pods' = [pods EXCEPT ![p].state = "finished", ![p].outcome = o, ![p].name = n]
    BY <1>7 DEF Kubelet, FinishPod
  <2>2. pods[p].outcome = "none" /\ pods'[p].state = "finished"
    BY <1>1, <2>1 DEF NothingReportedEarly, Pod
  <2>3. \A q \in Pods : q # p => pods'[q] = pods[q]
    BY <1>1, <2>1
  <2> QED BY <2>2, <2>3 DEF NothingReportedEarly, OutcomesStay
<1>8. CASE Collector
  BY <1>4, <1>8 DEF Collector, CollectPod
<1> QED
  BY <1>2, <1>5, <1>6, <1>7, <1>8
     DEF OpenNext, Reconcile, Get, MarkRunning, Choose, List, EachFailed, EachSilent, EachGarbled,
         EachReadable, PutSpec, PutCompleted, ListFinished, WatchIA, DeliverIA, WatchPod,
         DeliverPod, Restart, TargetChange, Others, vars, cluster

\* The object is as it was, or there is a new version for the watch to deliver.
Stored ==
  \/ ia' = ia /\ iaFeed' \subseteq iaFeed
  \/ ia'.rv = ia.rv + 1 /\ iaFeed' = iaFeed \union {ia'}

\* The steps that write what the worker holds.
LEMMA WorkerWrites ==
  ASSUME TypeOK, ReportInv, MarkRunning \/ PutSpec \/ PutCompleted
  PROVE  Reported(ia', pods) /\ Stored
<1>1. ia \in IA /\ dr.app \in IA /\ Reported(ia, pods) /\ Reported(dr.app, pods)
  BY DEF TypeOK, ClusterTypeOK, ReportInv, CopiesReported
<1>2. ASSUME NEW phase \in {"Running", "Completed"}, NEW reply,
             UpdateStatus(dr.app, [dr.app.status EXCEPT !.phase = phase], reply),
             phase = "Completed" => dr.pc = "status"
      PROVE  Reported(ia', pods) /\ Stored
  <2> DEFINE status == [dr.app.status EXCEPT !.phase = phase]
  <2>1. status \in IAStatus /\ status.phase = phase
    BY <1>1 DEF IA, IAStatus, Phases
  <2>2. UpdateStatus(dr.app, status, reply)
    BY <1>2
  <2>3. /\ \/ ia' = ia
           \/ ia'.spec = ia.spec /\ ia'.status = status
        /\ Stored
    <3> HIDE DEF status
    <3> QED BY <2>1, <2>2, UpdateStatusEffect DEF TypeOK, ClusterTypeOK, Stored
  <2> HIDE DEF status
  <2> QED BY <1>1, <1>2, <2>1, <2>3 DEF Reported, ReportInv, WritesWhatItRead
<1>3. CASE MarkRunning
  <2>1. PICK reply \in Replies :
          UpdateStatus(dr.app, [dr.app.status EXCEPT !.phase = "Running"], reply)
    BY <1>3 DEF MarkRunning
  <2> QED BY <1>2, <2>1
<1>4. CASE PutSpec
  <2>1. PICK reply \in Replies : UpdateSpec(dr.app, dr.app.spec, reply)
    BY <1>4 DEF PutSpec
  <2>2. dr.app.spec \in IASpec
    BY <1>1 DEF IA
  <2>3. /\ ia'.status = ia.status
        /\ ia' = ia \/ ia'.spec = dr.app.spec
        /\ Stored
    BY <2>1, <2>2, UpdateSpecEffect DEF TypeOK, ClusterTypeOK, Stored
  <2> QED BY <1>1, <2>3 DEF Reported
<1>5. CASE PutCompleted
  <2>1. PICK reply \in Replies :
          UpdateStatus(dr.app, [dr.app.status EXCEPT !.phase = "Completed"], reply)
    BY <1>5 DEF PutCompleted
  <2>2. dr.pc = "status"
    BY <1>5 DEF PutCompleted
  <2> QED BY <1>2, <2>1, <2>2
<1> QED BY <1>3, <1>4, <1>5

\* The other writers keep findings and phase as they are, or begin anew.
LEMMA OthersWrite ==
  ASSUME TypeOK, Reported(ia, pods), Others
  PROVE  Reported(ia', pods) /\ Stored
<1>1. ia \in IA /\ iaFeed \in SUBSET IA
  BY DEF TypeOK, ClusterTypeOK
<1>2. ASSUME NEW new \in IA, Store(new), Reported(new, pods)
      PROVE  Reported(ia', pods) /\ Stored
  <2>1. /\ (ia' = ia /\ new = ia) \/ (ia'.spec = new.spec /\ ia'.status = new.status)
        /\ Stored
    BY <1>1, <1>2, StoreEffect DEF Stored
  <2> QED BY <1>2, <2>1 DEF Reported
<1>3. CASE Appeared
  <2>1. NewIA \in IA /\ Reported(NewIA, pods)
    BY <1>1, BlanksTyped DEF NewIA, Reported, BlankSpec, BlankStatus
  <2> QED BY <1>2, <1>3, <2>1 DEF Appeared
<1>4. CASE Pended
  <2> DEFINE new == [ia EXCEPT !.status.phase = "Pending"]
  <2>1. new \in IA /\ new.spec = ia.spec /\ new.status.phase = "Pending"
    BY <1>1 DEF IA, IAStatus, Phases
  <2>2. Store(new)
    BY <1>4 DEF Pended
  <2> HIDE DEF new
  <2>3. Reported(new, pods)
    BY <2>1 DEF Reported
  <2> QED BY <1>2, <2>1, <2>2, <2>3
<1>5. CASE Touched
  <2>1. PICK a \in Names \union {NoName}, l \in LogTypes \union {NoLogType},
             t \in BOOLEAN, d \in BOOLEAN :
          Store([ia EXCEPT !.spec.active = a, !.spec.logType = l,
                           !.status.traces = t, !.status.detected = d])
    BY <1>5 DEF Touched
  <2> DEFINE new == [ia EXCEPT !.spec.active = a, !.spec.logType = l,
                               !.status.traces = t, !.status.detected = d]
  <2>2. /\ new \in IA /\ new.status.phase = ia.status.phase
        /\ new.spec.langs = ia.spec.langs /\ new.spec.apps = ia.spec.apps
    BY <1>1 DEF IA, IASpec, IAStatus
  <2>3. Store(new)
    BY <2>1
  <2> HIDE DEF new
  <2>4. Reported(new, pods)
    BY <2>2 DEF Reported
  <2> QED BY <1>2, <2>2, <2>3, <2>4
<1>6. CASE RemoveIA
  <2> DEFINE new == [NoIA EXCEPT !.rv = ia.rv]
  <2>1. new \in IA /\ new.spec = BlankSpec /\ new.status = BlankStatus
    BY <1>1, BlanksTyped DEF IA, NoIA
  <2>2. Store(new)
    BY <1>6 DEF RemoveIA
  <2> HIDE DEF new
  <2>3. Reported(new, pods)
    BY <2>1, BlankReported DEF Reported, NoIA
  <2> QED BY <1>2, <2>1, <2>2, <2>3
<1>7. CASE UNCHANGED <<ia, iaFeed>>
  BY <1>7 DEF Stored
<1> QED BY <1>3, <1>4, <1>5, <1>6, <1>7 DEF Others

\* What the worker holds is a copy of what was stored or delivered, or a report.
LEMMA WorkerReads ==
  ASSUME TypeOK, ReportInv, [OpenNext]_vars
  PROVE  /\ Reported(dr'.app, pods) \/ dr'.app = ia'
         /\ dr'.pc \in {"spec", "status"} => \E p \in Pods : pods[p].outcome \in Readable
<1>1. /\ dr \in [pc : Pcs, app : IA, todo : SUBSET Pods]
      /\ iaCache \in IA
      /\ Reported(dr.app, pods) /\ Reported(iaCache, pods) /\ Reported(Idle.app, pods)
      /\ Idle.pc = "idle"
  BY NoCopy, BlankReported DEF TypeOK, ClusterTypeOK, ReportInv, CopiesReported
<1>2. CASE dr' = Idle \/ dr' = dr
  BY <1>1, <1>2 DEF ReportInv, WritesWhatItRead
<1>3. CASE Get
  <2>1. PICK pc \in Pcs \ {"spec", "status"}, app \in {iaCache, NoIA} :
          dr' = [Idle EXCEPT !.pc = pc, !.app = app]
    <3> DEFINE next == IF iaCache.uid = 0 THEN "idle"
                       ELSE CASE ShouldStartDetection(iaCache)                 -> "markRunning"
                              [] iaCache.status.phase = "Running"              -> "list"
                              [] iaCache.status.phase \in {"Completed", "Error"} -> "listFinished"
                              [] OTHER                                         -> "idle"
    <3>1. next \in Pcs \ {"spec", "status"}
      BY DEF Pcs
    <3>2. dr' = [Idle EXCEPT !.pc = next, !.app = IF next = "markRunning" THEN iaCache ELSE NoIA]
      BY <1>3 DEF Get
    <3> HIDE DEF next
    <3> QED BY <3>1, <3>2
  <2>2. dr'.pc = pc /\ dr'.app = app
    BY <2>1 DEF Idle
  <2> QED BY <1>1, <2>1, <2>2, BlankReported
<1>4. CASE MarkRunning
  BY <1>1, <1>2, <1>4 DEF MarkRunning, Retry
<1>5. CASE PutSpec
  BY <1>1, <1>2, <1>5 DEF PutSpec, GiveUp, Return, Retry, ReportInv, WritesWhatItRead
<1>6. CASE PutCompleted
  BY <1>1, <1>2, <1>6, BlankReported DEF PutCompleted, GiveUp, Return, Retry
<1>7. CASE Choose \/ List \/ ListFinished \/ EachFailed \/ EachSilent \/ EachGarbled \/ Clean
  <2>1. dr' = Idle \/ (dr'.app = dr.app /\ dr'.pc \in {"create", "each", "clean"})
    BY <1>1, <1>7 DEF Choose, List, ListFinished, EachFailed, EachSilent, EachGarbled, Clean,
                      GoTo, Skip, Return, Retry
  <2> QED BY <1>1, <1>2, <2>1
<1>8. CASE EachReadable
  <2>1. PICK p \in dr.todo :
           /\ pods[p].outcome \in Readable
           /\ IF iaCache.uid = 0
              THEN Retry
              ELSE dr' = [pc |-> "spec",
                          app |-> [iaCache EXCEPT !.spec.langs = FindsLangs(pods[p].outcome),
                                                  !.spec.apps = FindsApps(pods[p].outcome),
                                                  !.spec.active = pods[p].name],
                          todo |-> dr.todo \ {p}]
    BY <1>8 DEF EachReadable
  <2>2. p \in Pods
    BY <1>1
  <2>3. CASE Retry
    BY <1>2, <2>3 DEF Retry
  <2> DEFINE app == [iaCache EXCEPT !.spec.langs = FindsLangs(pods[p].outcome),
                                    !.spec.apps = FindsApps(pods[p].outcome),
                                    !.spec.active = pods[p].name]
  <2>4. CASE dr' = [pc |-> "spec", app |-> app, todo |-> dr.todo \ {p}]
    <3>1. /\ app.status = iaCache.status
          /\ app.spec.langs = FindsLangs(pods[p].outcome)
          /\ app.spec.apps = FindsApps(pods[p].outcome)
      BY <1>1 DEF IA, IASpec
    <3>2. dr'.app = app
      BY <2>4
    <3> HIDE DEF app
    <3>3. Reported(app, pods)
      BY <1>1, <2>2, <3>1 DEF Reported
    <3> QED BY <2>1, <2>2, <3>2, <3>3
  <2> QED BY <2>1, <2>3, <2>4
<1>9. CASE Create \/ Restart
  BY <1>2, <1>9 DEF Create, Return, Retry, Restart
<1> QED
  BY <1>2, <1>3, <1>4, <1>5, <1>6, <1>7, <1>8, <1>9
     DEF OpenNext, Reconcile, WatchIA, WatchPod, TargetChange, Kubelet, Collector, Others,
         detection, vars

\* What a step may do to the object, and to the copies the watch delivers.
LEMMA StepStores ==
  ASSUME TypeOK, ReportInv, [OpenNext]_vars
  PROVE  Reported(ia', pods) /\ Stored /\ iaCache' \in {iaCache, ia} \union iaFeed
<1>1. Reported(ia', pods) /\ Stored
  <2>1. Reported(ia, pods)
    BY DEF ReportInv, CopiesReported
  <2>2. CASE MarkRunning \/ PutSpec \/ PutCompleted
    BY <2>2, WorkerWrites
  <2>3. CASE Others
    BY <2>1, <2>3, OthersWrite
  <2>4. CASE ia' = ia /\ iaFeed' \subseteq iaFeed
    BY <2>1, <2>4 DEF Stored
  <2> QED
    BY <2>2, <2>3, <2>4
       DEF OpenNext, Reconcile, Get, Choose, Create, List, EachFailed, EachSilent, EachGarbled,
           EachReadable, ListFinished, Clean, WatchIA, DeliverIA, WatchPod, DeliverPod, Restart,
           Relist, TargetChange, Kubelet, FinishPod, Collector, CollectPod, vars, cluster
<1>2. iaCache' = iaCache \/ iaCache' \in iaFeed \/ iaCache' = ia
  BY DEF OpenNext, Reconcile, Get, MarkRunning, Choose, Create, List, EachFailed, EachSilent,
         EachGarbled, EachReadable, PutSpec, PutCompleted, ListFinished, Clean, WatchIA, DeliverIA,
         WatchPod, DeliverPod, Restart, Relist, TargetChange, Kubelet, FinishPod, Collector,
         CollectPod, Others, vars, cluster
<1> QED BY <1>1, <1>2

LEMMA ReportStep ==
  ASSUME TypeOK, ReportInv, [OpenNext]_vars
  PROVE  ReportInv'
<1>1. NothingReportedEarly' /\ OutcomesStay
  BY OutcomesStep DEF ReportInv
<1>2. /\ Reported(ia', pods) /\ iaFeed' \subseteq iaFeed \union {ia'}
      /\ iaCache' \in {iaCache, ia} \union iaFeed
  BY StepStores DEF Stored
<1>3. Reported(iaCache', pods) /\ \A v \in iaFeed' : Reported(v, pods)
  BY <1>2 DEF ReportInv, CopiesReported
<1>4. /\ Reported(dr'.app, pods)
      /\ dr'.pc \in {"spec", "status"} => \E p \in Pods : pods[p].outcome \in Readable
  BY <1>2, WorkerReads
<1>5. CopiesReported'
  BY <1>1, <1>2, <1>3, <1>4, ReportedStays DEF CopiesReported
<1>6. WritesWhatItRead'
  BY <1>1, <1>4 DEF WritesWhatItRead, OutcomesStay, Readable
<1> QED BY <1>1, <1>5, <1>6 DEF ReportInv

LEMMA ResultsReported == OpenSpec => []ResultsAreReported
<1>1. Init => ReportInv
  <2> SUFFICES ASSUME Init PROVE ReportInv
    OBVIOUS
  <2>1. ia = NoIA /\ iaCache = NoIA /\ iaFeed = {} /\ dr = Idle /\ dr.app = NoIA /\ dr.pc = "idle"
    BY NoCopy DEF Init, ClusterInit
  <2>2. NothingReportedEarly
    BY DEF Init, ClusterInit, NothingReportedEarly, NoPod
  <2> QED BY <2>1, <2>2, BlankReported DEF ReportInv, CopiesReported, WritesWhatItRead
<1>2. TypeOK /\ ReportInv /\ [OpenNext]_vars => ReportInv'
  BY ReportStep
<1>3. ReportInv => ResultsAreReported
  BY DEF ReportInv, CopiesReported, Reported, ResultsAreReported
<1> QED
  BY <1>1, <1>2, <1>3, Typed, PTL DEF OpenSpec

\* Whatever copies are held and whichever calls are repeated, and however many
\* objects and pods there have been: nothing is said to be found that no
\* detection pod has reported.
THEOREM ResultsCorrect == Spec => []ResultsAreReported
<1> QED BY ResultsReported, Opened, PTL
=============================================================================
