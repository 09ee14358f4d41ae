-------------------------- MODULE LifecycleProofs --------------------------
(***************************************************************************)
(* Detection implements Lifecycle, for any number of pods, restarts and     *)
(* failing calls: initial states map to initial states, and every step to   *)
(* a step or a stutter.                                                     *)
(***************************************************************************)
EXTENDS DetectionProofs, FiniteSetTheorems

\* No writer of the object writes the phase Error, which the API defines.
NoError == ia.status.phase # "Error"

Started == {q \in Pods : Born(q)}

Probed == {pods[p].owner : p \in Started}

LifeInv == IInv /\ SeenBorn /\ ReportInv /\ NoError

-----------------------------------------------------------------------------
(***************************************************************************)
(* What a step does to pods, and what to the object.                       *)
(***************************************************************************)

LEMMA SameProbed ==
  ASSUME SameOwners
  PROVE  Started' = Started /\ Probed' = Probed
<1>1. Started' = Started
  BY DEF SameOwners, Started
<1>2. \A p \in Started : pods'[p].owner = pods[p].owner
  BY DEF SameOwners, Started
<1> QED BY <1>1, <1>2 DEF Probed

\* Only Create starts a pod.
LEMMA PodsOwned ==
  ASSUME TypeOK, SeenBorn, [OpenNext]_vars
  PROVE  SameOwners \/ Create
<1>1. pods \in [Pods -> Pod] /\ dr.todo \subseteq Pods
  BY DEF TypeOK, ClusterTypeOK
<1>2. CASE UNCHANGED pods
  BY <1>2 DEF SameOwners, Born
<1>3. CASE Clean
  <2>1. PICK p \in dr.todo, reply \in {"done", "error"} : DeletePod(p, reply)
    BY <1>3 DEF Clean
  <2>2. p \in Pods /\ Born(p)
    BY <1>1 DEF SeenBorn
  <2> QED BY <1>1, <1>2, <2>1, <2>2 DEF DeletePod, SameOwners, Born, Pod
<1>4. CASE Kubelet
  <2>1. PICK q \in Pods, o \in Reports, n \in Names \union {NoName} :
          /\ pods[q].state = "active"
          /\ pods' = [pods EXCEPT ![q].state = "finished", ![q].outcome = o, ![q].name = n]
    BY <1>4 DEF Kubelet, FinishPod
  <2>2. pods'[q].owner = pods[q].owner /\ pods'[q].state = "finished"
    BY <1>1, <2>1 DEF Pod
  <2>3. \A p \in Pods : p # q => pods'[p] = pods[p]
    BY <1>1, <2>1
  <2> QED BY <2>1, <2>2, <2>3 DEF SameOwners, Born
<1>5. CASE Collector
  BY <1>1, <1>5 DEF Collector, CollectPod, SameOwners, Born, Pod
<1> QED
  BY <1>2, <1>3, <1>4, <1>5
     DEF OpenNext, Reconcile, Get, MarkRunning, Choose, List, EachFailed, EachSilent, EachGarbled,
         EachReadable, PutSpec, PutCompleted, ListFinished, WatchIA, DeliverIA, WatchPod,
         DeliverPod, Restart, TargetChange, Others, vars, cluster

\* What may be seen of a step on the object.
Walks(from, to) == ia.status.phase \in from /\ ia'.status.phase = to

ObjectSeen ==
  \/ ia'.uid = ia.uid /\ ia'.rv = ia.rv /\ ia'.status.phase = ia.status.phase
  \/ /\ ia'.rv = ia.rv + 1
     /\ \/ ia'.uid = ia.uid /\ ia'.status.phase = ia.status.phase
        \/ ia.uid = 0 /\ ia'.uid = ia'.rv /\ ia'.status.phase = ""
        \/ ia.uid # 0 /\ ia'.uid = 0 /\ ia'.status.phase = ""
        \/ /\ ia.uid # 0 /\ ia'.uid = ia.uid
           /\ \/ Walks({""}, "Pending")
              \/ Walks({"Pending"}, "Running")
              \/ Walks({"", "Pending", "Running"}, "Completed") /\ Probed # {}

LEMMA StatusSeen ==
  ASSUME LifeInv, NEW to, to \in {"Running", "Completed"}, NEW reply,
         UpdateStatus(dr.app, [dr.app.status EXCEPT !.phase = to], reply),
         to = "Running" => dr.pc = "markRunning",
         to = "Completed" => dr.pc = "status"
  PROVE  ObjectSeen
<1>1. /\ ia \in IA /\ dr.app \in IA /\ iaFeed \in SUBSET IA /\ faults \in 0..MaxFaults
      /\ ia.status.phase \in {"", "Pending", "Running", "Completed"}
  BY DEF LifeInv, IInv, TypeOK, ClusterTypeOK, NoError, IA, IAStatus, Phases
<1> DEFINE status == [dr.app.status EXCEPT !.phase = to]
           copy == dr.app
<1>2. status \in IAStatus /\ status.phase = to
  BY <1>1 DEF IA, IAStatus, Phases
<1>3. UpdateStatus(copy, status, reply)
  OBVIOUS
<1>4. \/ ia' = ia
      \/ Matches(copy) /\ ia'.rv = ia.rv + 1 /\ ia'.uid = ia.uid /\ ia'.status = status
  <2> HIDE DEF status, copy
  <2> QED BY <1>1, <1>2, <1>3, UpdateStatusEffect
<1>5. CASE ia' = ia
  BY <1>5 DEF ObjectSeen
<1>6. CASE Matches(copy) /\ ia'.rv = ia.rv + 1 /\ ia'.uid = ia.uid /\ ia'.status = status
  <2>1. ia.uid # 0 /\ ia.status = dr.app.status /\ ia'.status.phase = to
    BY <1>2, <1>6 DEF Matches, LifeInv, IInv, CopiesCurrent, Current
  <2>2. CASE to = "Running"
    <3>1. Walks({"Pending"}, "Running")
      BY <2>1, <2>2 DEF LifeInv, IInv, MarksPending, Walks
    <3> QED BY <1>6, <2>1, <3>1 DEF ObjectSeen
  <2>3. CASE to = "Completed"
    <3>1. Probed # {}
      <4>1. PICK p \in Pods : pods[p].outcome \in Readable
        BY <2>3 DEF LifeInv, ReportInv, WritesWhatItRead
      <4>2. Born(p)
        BY <4>1 DEF LifeInv, ReportInv, NothingReportedEarly, Born, Readable
      <4> QED BY <4>2 DEF Probed, Started
    <3>2. ia'.status.phase = ia.status.phase \/ Walks({"", "Pending", "Running"}, "Completed")
      BY <1>1, <2>1, <2>3 DEF Walks
    <3> QED BY <1>6, <2>1, <3>1, <3>2 DEF ObjectSeen
  <2> QED BY <2>2, <2>3
<1> QED BY <1>4, <1>5, <1>6

LEMMA OthersSeen ==
  ASSUME LifeInv, Others
  PROVE  ObjectSeen
<1>1. ia \in IA /\ iaFeed \in SUBSET IA /\ ia.rv \in Nat
  BY DEF LifeInv, IInv, TypeOK, ClusterTypeOK, IA
<1>2. CASE UNCHANGED <<ia, iaFeed>>
  BY <1>2 DEF ObjectSeen
<1>3. ASSUME NEW new \in IA, Store(new)
      PROVE  \/ ia' = ia /\ new = ia
             \/ ia'.rv = ia.rv + 1 /\ ia'.uid = new.uid /\ ia'.status = new.status
  BY <1>1, <1>3, StoreEffect
<1>4. CASE Appeared
  <2> DEFINE new == NewIA
  <2>1. new \in IA /\ new.uid = ia.rv + 1 /\ new.status.phase = ""
    BY <1>1, BlanksTyped DEF NewIA, BlankStatus
  <2>2. Store(new) /\ ia.uid = 0
    BY <1>4 DEF Appeared
  <2> HIDE DEF new
  <2>3. ia.rv + 1 # 0
    BY <1>1
  <2>4. new.uid # ia.uid
    BY <2>1, <2>2, <2>3
  <2>5. new # ia
    BY <2>4
  <2>6. ia'.rv = ia.rv + 1 /\ ia'.uid = new.uid /\ ia'.status = new.status
    BY <1>3, <2>1, <2>2, <2>5
  <2> QED BY <2>1, <2>2, <2>6 DEF ObjectSeen
<1>5. CASE Pended
  <2> DEFINE new == [ia EXCEPT !.status.phase = "Pending"]
  <2>1. new \in IA /\ new.uid = ia.uid /\ new.status.phase = "Pending"
    BY <1>1 DEF IA, IAStatus, Phases
  <2>2. Store(new) /\ ia.uid # 0 /\ ia.status.phase = ""
    BY <1>5 DEF Pended
  <2> HIDE DEF new
  <2> QED BY <1>3, <2>1, <2>2 DEF ObjectSeen, Walks
<1>6. CASE Touched
  <2>1. PICK a \in Names \union {NoName}, l \in LogTypes \union {NoLogType},
             t \in BOOLEAN, d \in BOOLEAN :
          Store([ia EXCEPT !.spec.active = a, !.spec.logType = l,
                           !.status.traces = t, !.status.detected = d])
    BY <1>6 DEF Touched
  <2> DEFINE new == [ia EXCEPT !.spec.active = a, !.spec.logType = l,
                               !.status.traces = t, !.status.detected = d]
  <2>2. new \in IA /\ new.uid = ia.uid /\ new.status.phase = ia.status.phase
    BY <1>1 DEF IA, IASpec, IAStatus
  <2>3. Store(new)
    BY <2>1
  <2> HIDE DEF new
  <2> QED BY <1>3, <2>2, <2>3 DEF ObjectSeen
<1>7. CASE RemoveIA
  <2> DEFINE new == [NoIA EXCEPT !.rv = ia.rv]
  <2>1. new \in IA /\ new.uid = 0 /\ new.status.phase = ""
    BY <1>1, BlanksTyped DEF IA, NoIA, BlankStatus
  <2>2. Store(new) /\ ia.uid # 0
    BY <1>7 DEF RemoveIA
  <2> HIDE DEF new
  <2> QED BY <1>3, <2>1, <2>2 DEF ObjectSeen
<1> QED BY <1>2, <1>4, <1>5, <1>6, <1>7 DEF Others

LEMMA StepSeen ==
  ASSUME LifeInv, [OpenNext]_vars
  PROVE  ObjectSeen
<1>1. CASE MarkRunning
  <2>1. PICK reply \in Replies :
          UpdateStatus(dr.app, [dr.app.status EXCEPT !.phase = "Running"], reply)
    BY <1>1 DEF MarkRunning
  <2>2. dr.pc = "markRunning"
    BY <1>1 DEF MarkRunning
  <2> QED BY <2>1, <2>2, StatusSeen
<1>2. CASE PutCompleted
  <2>1. PICK reply \in Replies :
          UpdateStatus(dr.app, [dr.app.status EXCEPT !.phase = "Completed"], reply)
    BY <1>2 DEF PutCompleted
  <2>2. dr.pc = "status"
    BY <1>2 DEF PutCompleted
  <2> QED BY <2>1, <2>2, StatusSeen
<1>3. CASE PutSpec
  <2> DEFINE spec == dr.app.spec
             copy == dr.app
  <2>1. PICK reply \in Replies : UpdateSpec(copy, spec, reply)
    BY <1>3 DEF PutSpec
  <2>2. spec \in IASpec /\ ia \in IA /\ iaFeed \in SUBSET IA /\ faults \in 0..MaxFaults
    BY DEF LifeInv, IInv, TypeOK, ClusterTypeOK, IA
  <2> HIDE DEF spec, copy
  <2>3. ia'.uid = ia.uid /\ ia'.status = ia.status /\ (ia' = ia \/ ia'.rv = ia.rv + 1)
    BY <2>1, <2>2, UpdateSpecEffect
  <2> QED BY <2>3 DEF ObjectSeen
<1>4. CASE Others
  BY <1>4, OthersSeen
<1>5. CASE ia' = ia
  BY <1>5 DEF ObjectSeen
<1> QED
  BY <1>1, <1>2, <1>3, <1>4, <1>5
     DEF OpenNext, Reconcile, Get, Choose, Create, List, EachFailed, EachSilent, EachGarbled,
         EachReadable, ListFinished, Clean, WatchIA, DeliverIA, WatchPod, DeliverPod, Restart,
         TargetChange, Kubelet, FinishPod, Collector, CollectPod, vars, cluster

LEMMA LifeInvStep == LifeInv /\ [OpenNext]_vars => LifeInv'
<1> SUFFICES ASSUME LifeInv, [OpenNext]_vars PROVE LifeInv'
  OBVIOUS
<1>1. IInv' /\ SeenBorn' /\ ReportInv'
  BY NextInv, ReportStep DEF LifeInv, IInv
<1>2. NoError'
  BY StepSeen DEF LifeInv, NoError, ObjectSeen, Walks
<1> QED BY <1>1, <1>2 DEF LifeInv

-----------------------------------------------------------------------------
(***************************************************************************)
(* The simulation.                                                         *)
(***************************************************************************)

LEMMA NothingSeen ==
  ASSUME UNCHANGED <<ia.uid, ia.rv, ia.status.phase>>, Started' = Started, Probed' = Probed
  PROVE  UNCHANGED Life!vars
BY DEF Life!vars, Probed, Started

\* A pod is started for an object that has had none, and is past Pending.
LEMMA CreateSimulates ==
  ASSUME IsFiniteSet(Pods), LifeInv, Create
  PROVE  Life!Probe \/ UNCHANGED Life!vars
<1>1. /\ ia' = ia /\ ia \in IA /\ dr.app \in IA /\ pods \in [Pods -> Pod] /\ Launching
      /\ dr.app.uid # 0 /\ dr.app.uid \in Nat /\ dr.app.uid <= ia.rv /\ ia.rv \in Nat
  BY DEF Create, LifeInv, IInv, TypeOK, ClusterTypeOK, CopiesCurrent, Current, LaunchesFirst,
         Launching, IA
<1>2. CASE UNCHANGED pods
  <2>1. SameOwners
    BY <1>2 DEF SameOwners, Born
  <2> QED BY <1>1, <2>1, SameProbed, NothingSeen
<1>3. ASSUME NEW p \in Pods, pods[p].state = "unborn",
             pods' = [pods EXCEPT ![p] = [NoPod EXCEPT !.owner = dr.app.uid, !.state = "active"]]
      PROVE  Life!Probe
  <2>1. pods'[p].owner = dr.app.uid /\ Born(p)' /\ ~Born(p)
    BY <1>1, <1>3 DEF NoPod, Born
  <2>2. \A q \in Pods : q # p => pods'[q] = pods[q]
    BY <1>1, <1>3
  <2>3. Started' = Started \union {p} /\ p \notin Started
    BY <2>1, <2>2 DEF Started, Born
  <2>4. Probed' = Probed \union {dr.app.uid}
    <3>1. \A q \in Started : pods'[q].owner = pods[q].owner
      BY <2>2, <2>3 DEF Started
    <3>2. Probed' = {pods'[q].owner : q \in Started'}
      BY DEF Probed
    <3> QED BY <2>1, <2>3, <3>1, <3>2 DEF Probed
  <2>5. Cardinality(Started)' = Cardinality(Started) + 1
    <3>1. IsFiniteSet(Started)
      BY FS_Subset DEF Started
    <3> QED BY <2>3, <3>1, FS_AddElement
  <2>6. dr.app.uid \in 1..ia.rv \ Probed
    BY <1>1 DEF LifeInv, IInv, LaunchesFirst, Probed, Started
  <2>7. dr.app.uid = ia.uid => ia.status.phase \in {"Running", "Completed"}
    BY <1>1 DEF LifeInv, IInv, NothingStartedEarly, NoError, Early, TypeOK, ClusterTypeOK,
                IA, IAStatus, Phases
  <2> QED BY <1>1, <2>4, <2>5, <2>6, <2>7 DEF Life!Probe, Probed, Started
<1> QED BY <1>2, <1>3 DEF Create, CreatePod

LEMMA Simulates ==
  ASSUME IsFiniteSet(Pods), LifeInv, [OpenNext]_vars
  PROVE  [Life!Next]_(Life!vars)
<1>1. CASE Create
  BY <1>1, CreateSimulates DEF Life!Next
<1>2. CASE SameOwners
  <2>1. Started' = Started /\ Probed' = Probed /\ Cardinality(Started)' = Cardinality(Started)
    BY <1>2, SameProbed
  <2>2. ia.rv \in Nat /\ ia.uid \in Nat /\ ia.rv + 1 >= ia.rv /\ ia.rv + 1 > ia.rv
    BY DEF LifeInv, IInv, TypeOK, ClusterTypeOK, IA
  <2>3. CASE ia'.uid = ia.uid /\ ia'.rv = ia.rv /\ ia'.status.phase = ia.status.phase
    BY <2>1, <2>3, NothingSeen
  <2>4. CASE ia'.rv = ia.rv + 1 /\ ia'.uid = ia.uid /\ ia'.status.phase = ia.status.phase
    BY <2>1, <2>2, <2>4 DEF Life!Next, Life!Pass, Life!Age, Probed, Started
  <2>5. CASE ia'.rv = ia.rv + 1 /\ ia.uid = 0 /\ ia'.uid = ia'.rv /\ ia'.status.phase = ""
    BY <2>1, <2>2, <2>5 DEF Life!Next, Life!Appear, Life!Age, Probed, Started
  <2>6. CASE ia'.rv = ia.rv + 1 /\ ia.uid # 0 /\ ia'.uid = 0 /\ ia'.status.phase = ""
    BY <2>1, <2>2, <2>6 DEF Life!Next, Life!Vanish, Life!Age, Probed, Started
  <2>7. ASSUME NEW from, NEW to, ia'.rv = ia.rv + 1, ia.uid # 0, ia'.uid = ia.uid, Walks(from, to)
        PROVE  Life!Move(from, to)
    BY <2>1, <2>2, <2>7 DEF Life!Move, Life!Age, Walks, Probed, Started
  <2>8. CASE /\ ia'.rv = ia.rv + 1 /\ ia.uid # 0 /\ ia'.uid = ia.uid
             /\ \/ Walks({""}, "Pending")
                \/ Walks({"Pending"}, "Running")
                \/ Walks({"", "Pending", "Running"}, "Completed") /\ Probed # {}
    BY <2>7, <2>8 DEF Life!Next, Life!Admit, Life!Begin, Life!Conclude, Probed, Started
  <2> QED BY <2>3, <2>4, <2>5, <2>6, <2>8, StepSeen DEF ObjectSeen
<1> QED BY <1>1, <1>2, PodsOwned DEF LifeInv, IInv

LEMMA OpenLifecycle ==
  ASSUME IsFiniteSet(Pods)
  PROVE  OpenSpec => LifecycleSpec
<1>1. Init => LifeInv /\ Life!Init
  <2> SUFFICES ASSUME Init PROVE LifeInv /\ Life!Init
    OBVIOUS
  <2>1. /\ ia = NoIA /\ iaCache = NoIA /\ iaFeed = {} /\ dr = Idle /\ dr.app = NoIA /\ dr.pc = "idle"
        /\ pods = [p \in Pods |-> NoPod] /\ podCache = [p \in Pods |-> NoPod]
    BY NoCopy DEF Init, ClusterInit
  <2>2. SeenBorn /\ NothingReportedEarly /\ NoError
    BY <2>1 DEF SeenBorn, NothingReportedEarly, NoError, NoPod, Idle, NoIA, BlankStatus
  <2>3. ReportInv
    BY <2>1, <2>2, BlankReported DEF ReportInv, CopiesReported, WritesWhatItRead
  <2>4. LifeInv
    BY <2>2, <2>3, InitInv DEF LifeInv
  <2>5. Started = {} /\ Probed = {}
    BY <2>1 DEF Started, Probed, Born, NoPod
  <2>6. ia.uid = 0 /\ ia.rv = 0 /\ ia.status.phase = ""
    BY <2>1 DEF NoIA, BlankStatus
  <2> QED BY <2>4, <2>5, <2>6, FS_EmptySet DEF Life!Init, Probed, Started
<1>2. LifeInv /\ [OpenNext]_vars => LifeInv' /\ [Life!Next]_(Life!vars)
  BY LifeInvStep, Simulates
<1> QED BY <1>1, <1>2, PTL DEF OpenSpec, LifecycleSpec, Life!Spec

\* The controller implements the life of an InstrumentedApplication: behind its
\* caches, conflicts, retries and crashes nothing can be seen but objects that
\* walk through the phases in order and pods that are started once for each.
THEOREM ImplementsLifecycle ==
  ASSUME IsFiniteSet(Pods)
  PROVE  Spec => LifecycleSpec
<1> QED BY OpenLifecycle, Opened, PTL
=============================================================================
