----------------------------- MODULE Detection -----------------------------
(***************************************************************************)
(* The InstrumentedApplication controller                                   *)
(* (instrumentor/controllers/instrumentedapplication_controller.go): it     *)
(* starts one detection pod per InstrumentedApplication, stores what the    *)
(* pod reports and cleans the pod up.                                       *)
(*                                                                          *)
(* One worker runs Reconcile; each of its API calls is a step, so every     *)
(* other writer, the watch, the kubelet and a crash may come in between.    *)
(* The other writers of the object are the action Others: anything a user   *)
(* or the workload controllers may do to it.  Module Instrumentor has the   *)
(* workload controller itself in its place.                                 *)
(***************************************************************************)
EXTENDS Cluster, FiniteSets

CONSTANTS
  DeletePods,   \* DeleteInstrumentationDetectorPods, a flag of the manager
  MaxRv,        \* bound: Elsewhere writes only below this version
  MaxCrashes    \* bound: restarts of the manager

ASSUME DetectionAssumption == DeletePods \in BOOLEAN /\ MaxCrashes \in Nat /\ MaxRv \in Nat

VARIABLES
  dr,           \* the reconciler's worker: where it is and what it holds
  drQueued,     \* the request is in the controller's work queue
  target,       \* the cache shows a Running pod of the workload
  crashes

detection == <<dr, drQueued, target, crashes>>
vars == <<cluster, detection>>

Pcs == {"idle", "markRunning", "choose", "create", "list", "each", "spec", "status",
        "listFinished", "clean"}

\* app is the InstrumentedApplication in memory, kept while something of it is
\* still to be written, todo the finished pods of the last List still to be
\* looked at.
Idle == [pc |-> "idle", app |-> NoIA, todo |-> {}]

Detected(app) == app.spec.langs /\ app.spec.apps

\* Mutant: anything not completed is started.
ShouldStartUnlessCompleted(app) == ~Detected(app) /\ app.status.phase # "Completed"

ShouldStartDetection(app) == ~Detected(app) /\ app.status.phase = "Pending"

-----------------------------------------------------------------------------
\* How a step leaves Reconcile: a returned error puts the request back in the
\* queue, a nil one does not.

Return == dr' = Idle /\ UNCHANGED drQueued

Retry == dr' = Idle /\ drQueued' = TRUE

GoTo(pc) == dr' = [dr EXCEPT !.pc = pc] /\ UNCHANGED drQueued

\* Reconcile takes the request and reads the object from the cache; a missing
\* object, or one in no phase the reconciler acts on, ends it there.
Get ==
  LET app == iaCache
      next == IF app.uid = 0 THEN "idle"
              ELSE CASE ShouldStartDetection(app)                    -> "markRunning"
                     [] app.status.phase = "Running"                 -> "list"
                     [] app.status.phase \in {"Completed", "Error"} -> "listFinished"
                     [] OTHER                                        -> "idle"
  IN /\ dr.pc = "idle" /\ drQueued
     /\ drQueued' = FALSE
     /\ dr' = [Idle EXCEPT !.pc = next, !.app = IF next = "markRunning" THEN app ELSE NoIA]
     /\ UNCHANGED <<cluster, target, crashes>>

\* Mutant: the error of the status update is not looked at.
MarkRunningUnchecked ==
  /\ dr.pc = "markRunning"
  /\ \E reply \in Replies :
       UpdateStatus(dr.app, [dr.app.status EXCEPT !.phase = "Running"], reply)
  /\ GoTo("choose")
  /\ UNCHANGED <<iaCache, pods, podCache, target, crashes>>

\* Mutant: a phase that is not one.
MarkRunningMisspelt ==
  /\ dr.pc = "markRunning"
  /\ \E reply \in Replies :
       UpdateStatus(dr.app, [dr.app.status EXCEPT !.phase = "running"], reply)
  /\ GoTo("choose")
  /\ UNCHANGED <<iaCache, pods, podCache, target, crashes>>

MarkRunning ==
  /\ dr.pc = "markRunning"
  /\ \E reply \in Replies :
       /\ UpdateStatus(dr.app, [dr.app.status EXCEPT !.phase = "Running"], reply)
       /\ IF reply = "done"
          THEN dr' = [dr EXCEPT !.pc = "choose", !.app = ia'] /\ UNCHANGED drQueued
          ELSE Retry
  /\ UNCHANGED <<iaCache, pods, podCache, target, crashes>>

\* getOwnerTemplateLabels and choosePod: both read the cache, and both fail when
\* what they look for is not there.
Choose ==
  /\ dr.pc = "choose"
  /\ IF target THEN GoTo("create") ELSE Retry
  /\ UNCHANGED <<cluster, target, crashes>>

Create ==
  /\ dr.pc = "create"
  /\ \E reply \in {"done", "error"} :
       /\ CreatePod(dr.app.uid, reply)
       /\ IF reply = "done" THEN Return ELSE Retry
  /\ UNCHANGED <<ia, iaCache, iaFeed, podCache, target, crashes>>

-----------------------------------------------------------------------------
\* Detection is running: look for pods that have finished.

List ==
  /\ dr.pc = "list"
  /\ IF Finished = {}
     THEN Return
     ELSE dr' = [dr EXCEPT !.pc = "each", !.todo = Finished] /\ UNCHANGED drQueued
  /\ UNCHANGED <<cluster, target, crashes>>

\* The reconciler is done with pod p of the list.
Skip(p) ==
  IF dr.todo = {p} THEN dr' = Idle
  ELSE dr' = [dr EXCEPT !.pc = "each", !.todo = @ \ {p}]

\* Mutant: a failed pod counts as one that found nothing.
EachFailedIsEmpty ==
  /\ dr.pc = "each" /\ iaCache.uid # 0
  /\ \E p \in dr.todo :
       /\ pods[p].outcome = "failed"
       /\ dr' = [pc |-> "spec", app |-> iaCache, todo |-> dr.todo \ {p}]
  /\ UNCHANGED <<cluster, drQueued, target, crashes>>

\* A failed pod ends the reconcile without an error, whatever is left of the list.
EachFailed ==
  /\ dr.pc = "each"
  /\ \E p \in dr.todo : pods[p].outcome = "failed"
  /\ Return
  /\ UNCHANGED <<cluster, target, crashes>>

EachSilent ==
  /\ dr.pc = "each"
  /\ \E p \in dr.todo : pods[p].outcome = "silent" /\ Skip(p)
  /\ UNCHANGED <<cluster, drQueued, target, crashes>>

EachGarbled ==
  /\ dr.pc = "each"
  /\ \E p \in dr.todo : pods[p].outcome = "garbled"
  /\ Retry
  /\ UNCHANGED <<cluster, target, crashes>>

\* updatePodWithDetectionResult reads the object again, and puts the result in it.
EachReadable ==
  /\ dr.pc = "each"
  /\ \E p \in dr.todo :
       /\ pods[p].outcome \in Readable
       /\ IF iaCache.uid = 0
          THEN Retry
          ELSE /\ dr' = [pc |-> "spec",
                         app |-> [iaCache EXCEPT !.spec.langs = FindsLangs(pods[p].outcome),
                                                 !.spec.apps = FindsApps(pods[p].outcome),
                                                 !.spec.active = pods[p].name],
                         todo |-> dr.todo \ {p}]
               /\ UNCHANGED drQueued
  /\ UNCHANGED <<cluster, target, crashes>>

\* Mutant: every error is swallowed.
GiveUpOnAll(reply) == Return

\* A Conflict is swallowed: Reconcile returns nil and waits for the next event.
GiveUp(reply) == IF reply = "conflict" THEN Return ELSE Retry

PutSpec ==
  /\ dr.pc = "spec"
  /\ \E reply \in Replies :
       /\ UpdateSpec(dr.app, dr.app.spec, reply)
       /\ IF reply = "done"
          THEN dr' = [dr EXCEPT !.pc = "status", !.app = ia'] /\ UNCHANGED drQueued
          ELSE GiveUp(reply)
  /\ UNCHANGED <<iaCache, pods, podCache, target, crashes>>

\* Mutant: when nothing was found, detection is to be tried again.
PutCompletedOrAgain ==
  /\ dr.pc = "status"
  /\ \E reply \in Replies :
       /\ UpdateStatus(dr.app, [dr.app.status EXCEPT !.phase =
                         IF dr.app.spec.langs \/ dr.app.spec.apps THEN "Completed" ELSE "Pending"], reply)
       /\ IF reply = "done" THEN Return ELSE GiveUp(reply)
  /\ UNCHANGED <<iaCache, pods, podCache, target, crashes>>

PutCompleted ==
  /\ dr.pc = "status"
  /\ \E reply \in Replies :
       /\ UpdateStatus(dr.app, [dr.app.status EXCEPT !.phase = "Completed"], reply)
       /\ CASE reply # "done"              -> GiveUp(reply)
            [] reply = "done" /\ dr.todo = {} -> Return
            [] OTHER -> dr' = [dr EXCEPT !.pc = "each", !.app = NoIA] /\ UNCHANGED drQueued
  /\ UNCHANGED <<iaCache, pods, podCache, target, crashes>>

-----------------------------------------------------------------------------
\* Detection is over: delete the pods that have finished.

ListFinished ==
  /\ dr.pc = "listFinished"
  /\ IF Finished = {} \/ ~DeletePods
     THEN Return
     ELSE dr' = [dr EXCEPT !.pc = "clean", !.todo = Finished] /\ UNCHANGED drQueued
  /\ UNCHANGED <<cluster, target, crashes>>

\* Mutant: a failed delete is not tried again.
CleanOnce ==
  /\ dr.pc = "clean"
  /\ \E p \in dr.todo, reply \in {"done", "error"} :
       /\ DeletePod(p, reply)
       /\ IF dr.todo = {p} THEN dr' = Idle ELSE dr' = [dr EXCEPT !.todo = @ \ {p}]
  /\ UNCHANGED <<ia, iaCache, iaFeed, podCache, drQueued, target, crashes>>

Clean ==
  /\ dr.pc = "clean"
  /\ \E p \in dr.todo, reply \in {"done", "error"} :
       /\ DeletePod(p, reply)
       /\ CASE reply # "done"      -> Retry
            [] reply = "done" /\ dr.todo = {p} -> Return
            [] OTHER               -> dr' = [dr EXCEPT !.todo = @ \ {p}] /\ UNCHANGED drQueued
  /\ UNCHANGED <<ia, iaCache, iaFeed, podCache, target, crashes>>

Reconcile ==
  \/ Get \/ MarkRunning \/ Choose \/ Create
  \/ List \/ EachFailed \/ EachSilent \/ EachGarbled \/ EachReadable \/ PutSpec \/ PutCompleted
  \/ ListFinished \/ Clean

-----------------------------------------------------------------------------
\* The controller's watches: an event of the object or of a pod it owns queues
\* the request.

WatchIA == DeliverIA /\ drQueued' = TRUE /\ UNCHANGED <<dr, target, crashes>>

WatchPod == DeliverPod /\ drQueued' = TRUE /\ UNCHANGED <<dr, target, crashes>>

\* A restart loses the worker and the queue; the initial list queues the object.
Restart ==
  /\ crashes' = crashes + 1
  /\ dr' = Idle
  /\ drQueued' = TRUE
  /\ Relist
  /\ UNCHANGED <<ia, pods, faults, target>>

Crash == crashes < MaxCrashes /\ Restart

\* The workload's own pods come and go.
TargetChange == target' = ~target /\ UNCHANGED <<cluster, dr, drQueued, crashes>>

Kubelet == FinishPod /\ UNCHANGED detection

Collector == CollectPod /\ UNCHANGED detection

-----------------------------------------------------------------------------
\* The object's other writers, whose own calls may fail too.  The workload
\* controller creates the object, makes it Pending, and owns every field but the
\* phase and the findings.  It means to leave the object alone until detection has
\* completed, but looks at the phase only once, on a copy it then reads again: the
\* object it writes may be a new one.  Anybody may delete the object.

Appeared == ia.uid = 0 /\ Store(NewIA)

Pended ==
  /\ ia.uid # 0 /\ ia.status.phase = ""
  /\ Store([ia EXCEPT !.status.phase = "Pending"])

Touched ==
  /\ ia.uid # 0
  /\ \E a \in Names \union {NoName}, l \in LogTypes \union {NoLogType},
        t \in BOOLEAN, d \in BOOLEAN :
       Store([ia EXCEPT !.spec.active = a, !.spec.logType = l,
                        !.status.traces = t, !.status.detected = d])

Others ==
  /\ \/ Appeared
     \/ Pended
     \/ Touched
     \/ RemoveIA
     \/ UNCHANGED <<ia, iaFeed>>
  /\ UNCHANGED faults \/ Fails
  /\ UNCHANGED <<iaCache, pods, podCache, detection>>

Elsewhere == ia.rv < MaxRv /\ Others

-----------------------------------------------------------------------------
Init ==
  /\ ClusterInit
  /\ dr = Idle
  /\ drQueued = FALSE
  /\ target \in BOOLEAN
  /\ crashes = 0

Next ==
  \/ Reconcile
  \/ WatchIA
  \/ WatchPod
  \/ Crash
  \/ TargetChange
  \/ Kubelet
  \/ Collector
  \/ Elsewhere

\* The worker runs, the watches deliver and the garbage collector collects.
\* Nothing makes the kubelet, the users or the workload's pods do anything.
Fairness ==
  /\ WF_vars(Reconcile)
  /\ WF_vars(WatchIA)
  /\ WF_vars(WatchPod)
  /\ WF_vars(Collector)

Spec == Init /\ [][Next]_vars

\* The same without its bounds: the process may restart, and others may write, as
\* often as they like.
OpenNext ==
  \/ Reconcile
  \/ WatchIA
  \/ WatchPod
  \/ Restart
  \/ TargetChange
  \/ Kubelet
  \/ Collector
  \/ Others

OpenSpec == Init /\ [][OpenNext]_vars

FairSpec == Spec /\ Fairness

-----------------------------------------------------------------------------
(***************************************************************************)
(* Properties.  AtMostOnePod is stated in Cluster.                          *)
(***************************************************************************)

\* The type of every variable.
TypeOK ==
  /\ ClusterTypeOK
  /\ dr \in [pc : Pcs, app : IA, todo : SUBSET Pods]
  /\ drQueued \in BOOLEAN
  /\ target \in BOOLEAN
  /\ crashes \in Nat

Rank == [ph \in Phases |->
  CASE ph = "" -> 0 [] ph = "Pending" -> 1 [] ph = "Running" -> 2 [] OTHER -> 3]

\* The phase of an InstrumentedApplication never goes back: detection that has
\* been concluded is not started again, whatever it found, and no status update
\* repeated, or sent from a copy held across other writes, undoes a later phase
\* (Reconcile 81-87, startDetection 189-194, updatePodWithDetectionResult 178-182).
PhaseNeverGoesBack ==
  [][ia'.uid = ia.uid => Rank[ia'.status.phase] >= Rank[ia.status.phase]]_vars

\* What the object says was found, a detection pod has reported: Completed
\* stands on a readable result, and languages and applications on a result
\* that names them (updatePodWithDetectionResult 156-186).
ResultsAreReported ==
  /\ ia.status.phase = "Completed" => \E p \in Pods : pods[p].outcome \in Readable
  /\ ia.spec.langs => \E p \in Pods : FindsLangs(pods[p].outcome)
  /\ ia.spec.apps => \E p \in Pods : FindsApps(pods[p].outcome)

Own(p) == pods[p].owner = ia.uid

\* The object says what pod p has reported.
Tells(p) ==
  /\ ia.status.phase = "Completed" /\ pods[p].outcome \in Readable
  /\ ia.spec.langs = FindsLangs(pods[p].outcome)
  /\ ia.spec.apps = FindsApps(pods[p].outcome)

\* What the object's own pod has found is what the object says in the end,
\* although Reconcile swallows conflicts (106-108), stops its loop at the first
\* failed pod (125), which may be that of a predecessor of the same name, and
\* reads a cache that may be behind.  Only a readable report of such a
\* predecessor's pod may stand in its place: pods are found by the owner's name
\* (getFinishedDetectionPods), and the first result completes the object.
ResultStored ==
  \A p \in Pods :
    (pods[p].state = "finished" /\ pods[p].outcome \in Readable /\ Own(p))
      ~> (~Own(p) \/ Tells(p) \/ \E q \in Pods : pods[q].owner \notin {0, ia.uid} /\ Tells(q))

\* Once detection is over its finished pod is deleted (clean up, 130-151).
PodsCleanedUp ==
  \A p \in Pods :
    (DeletePods /\ pods[p].state = "finished" /\ ia.status.phase = "Completed")
      ~> (pods[p].state = "gone" \/ ia.uid = 0)

\* The doc comment of Reconcile (65-66): it "will clean up lang detection pods
\* upon completion / error".
FailedPodsCleanedUp ==
  \A p \in Pods :
    (DeletePods /\ pods[p].state = "finished" /\ pods[p].outcome = "failed")
      ~> pods[p].state = "gone"

\* The doc comment of Reconcile (65-66): it "starts the lang detection process
\* if the InstrumentedApplication object does not have a languages field".
\* Asked only of objects that stay, and of workloads that keep a running pod.
DetectionStarted ==
  \A u \in 1..MaxRv :
    (ia.uid = u /\ ia.status.phase = "Pending" /\ <>[](ia.uid = u /\ target))
      ~> (\E p \in Pods : pods[p].owner = u)

\* The controller implements the abstract life of an InstrumentedApplication.
Born(p) == pods[p].state # "unborn"

Life == INSTANCE Lifecycle WITH
          uid <- ia.uid, last <- ia.rv, phase <- ia.status.phase,
          probed <- {pods[p].owner : p \in {q \in Pods : Born(q)}},
          launched <- Cardinality({q \in Pods : Born(q)})

LifecycleSpec == Life!Spec
=============================================================================
