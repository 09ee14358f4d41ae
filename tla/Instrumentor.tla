---------------------------- MODULE Instrumentor ----------------------------
(***************************************************************************)
(* The manager (instrumentor/main.go): the InstrumentedApplication          *)
(* controller of module Detection and the workload controller of module     *)
(* Workload in one process, over one informer cache, beside the users, the  *)
(* kubelet and the garbage collector.                                       *)
(***************************************************************************)
EXTENDS Detection, Workload

all == <<vars, workload>>

\* Mutant: the workload controller does not own the objects it creates.
IAEventUnowned ==
  /\ DeliverIA
  /\ drQueued' = TRUE
  /\ UNCHANGED <<dr, target, crashes, workload>>

\* One event of the object queues it in both controllers: For in one, Owns in
\* the other, where it is an event of the objects before and behind it.
IAEvent ==
  /\ DeliverIA
  /\ drQueued' = TRUE
  /\ wrQueued' = (wrQueued \/ {iaCache.uid, iaCache'.uid} \cap ours # {})
  /\ UNCHANGED <<dr, target, crashes, wl, wlCache, wlFeed, wr, beside>>

PodEvent == WatchPod /\ UNCHANGED workload

WLEvent == DeliverWL /\ UNCHANGED detection

Detect == Reconcile /\ UNCHANGED workload

Instrument == WReconcile /\ UNCHANGED detection

CrashAll == Crash /\ WRestart

PanicAll == WPanics /\ Restart /\ WRestart

UserEdit == EditWL /\ UNCHANGED detection

\* Somebody deletes the InstrumentedApplication.
UserDelete ==
  /\ Upset
  /\ RemoveIA
  /\ UNCHANGED <<iaCache, pods, podCache, faults, detection, wl, wlCache, wlFeed, wr, wrQueued>>

\* Another workload of the same name, but of the other kind, has its object
\* created, and that made Pending by its own controller.
RivalCreates ==
  /\ Upset
  /\ ia.uid = 0 /\ Store(NewIA)
  /\ UNCHANGED <<iaCache, pods, podCache, faults, detection, wl, wlCache, wlFeed, wr, wrQueued>>

RivalPends ==
  /\ ia.uid \notin ours \union {0} /\ ia.status.phase = ""
  /\ Store([ia EXCEPT !.status.phase = "Pending"])
  /\ UNCHANGED <<iaCache, pods, podCache, faults, detection, workload>>

\* The workload's pods come and go with its other changes.
UserScale ==
  /\ Upset
  /\ TargetChange
  /\ UNCHANGED <<wl, wlCache, wlFeed, wr, wrQueued>>

PodsChange == (Kubelet \/ Collector) /\ UNCHANGED workload

\* The workload has no object yet.
InstrumentorInit == Init /\ WorkloadInit /\ ours = {}

InstrumentorNext ==
  \/ Detect
  \/ Instrument
  \/ IAEvent
  \/ PodEvent
  \/ WLEvent
  \/ CrashAll
  \/ PanicAll
  \/ UserEdit
  \/ UserDelete
  \/ UserScale
  \/ RivalCreates
  \/ RivalPends
  \/ PodsChange

InstrumentorSpec == InstrumentorInit /\ [][InstrumentorNext]_all

\* As in Detection: the two workers run, the watches deliver and the garbage
\* collector collects.
InstrumentorFairness ==
  /\ WF_all(Detect)
  /\ WF_all(Instrument)
  /\ WF_all(IAEvent)
  /\ WF_all(PodEvent)
  /\ WF_all(WLEvent)
  /\ WF_all(Collector /\ UNCHANGED workload)

-----------------------------------------------------------------------------
InstrumentorTypeOK == TypeOK /\ WorkloadTypeOK

\* The agent is never in a template twice, however often the two writers of the
\* template race, calls are repeated after their answer was lost, or the process
\* restarts: the patchers' environment is appended without a look at what is
\* there (patch/java.go 96-153), so the annotation checked on the copy that is
\* written is all that prevents it (common.go 225-251).
AgentPatchedOnce == wl.agent <= 1

\* What a reconcile writes to the workload never undoes an edit of anybody else.
EditsKept ==
  [][wr' # wr => /\ wl'.wish = wl.wish /\ wl'.skip = wl.skip /\ wl'.ready = wl.ready]_all

\* The agent leaves a template only while the template asks for the rollback:
\* processRollback looks at the annotation again after it has read the workload
\* again (common.go 195).
RolledBackOnRequest ==
  [][(wr' # wr /\ wl'.agent < wl.agent) => wl.wish.ask = "rollback"]_all

\* The workload controller respects the part of the object that belongs to
\* detection: with it in the place of Others, every behaviour of the manager is
\* one of Detection, so what is shown of Detection holds here.
ImplementsDetection == OpenSpec

\* Seen from the template, the manager does what module Template promises, each
\* of its writes on the template as it is stored at that moment.
Promise == INSTANCE Template WITH
             name <- ServiceName(wl), withdrawn <- ShouldRollBack(wl),
             rest <- <<wl.wish, wl.skip, wl.ready>>,
             agent <- wl.agent, env <- wl.env,
             found <- \E p \in Pods : FindsLangs(pods[p].outcome),
             work <- wr

TemplateSpec == Promise!Spec

\* Instrumentation is opt-in (common.go 314-325): the template of a workload that
\* has never asked for it, or asked only under the skip annotation, is left as it
\* is, whatever copy of it, or of its object, the controller may go by.
LeftAloneUnasked == [](~ShouldInstrument(wl)) => [](wl.agent = 0)

\* The workload controller keeps its hands off the object of a workload of the
\* same name: what it lists it finds by owner (common.go 346-354), and only once
\* it has had an object of its own can it be led on to another's, by the later
\* reads, which go by name (common.go 156, 180, 229).
RivalLeftAlone ==
  [][(wr' # wr /\ ia' # ia /\ ia.uid # 0) => ours # {}]_all

-----------------------------------------------------------------------------
\* What the user asks for in the end.
Stays(ask) == wl.wish.ask = ask /\ ~wl.wish.skipApps /\ ~wl.skip

\* After the last call that fails the request is taken up once more, for whatever
\* reason.
ServedAfterFaults ==
  \A n \in 0..MaxFaults : <>[](faults = n) => <>(faults = n /\ At("idle") /\ wrQueued)

\* A workload that asks for it is instrumented in the end, and the object says
\* so, once languages have been found.  All errors of the controller are swallowed
\* (deployment_controller.go 66-75): after a conflict, or a call whose answer alone
\* was lost, an event is on its way and brings the request back; after a call that
\* failed without effect nothing does but the next event there happens to be.
Instrumented ==
  ServedAfterFaults /\ <>[](Stays("true") /\ ia.spec.langs /\ ia.status.phase = "Completed")
    => <>[](wl.agent = 1 /\ ia.status.traces)

\* A workload that asks for it is rolled back in the end, and the object says so,
\* under the same condition.
RolledBack ==
  ServedAfterFaults /\ <>[](Stays("rollback") /\ ia.spec.langs /\ ia.status.phase = "Completed")
    => <>[](wl.agent = 0 /\ ~ia.status.traces)

\* The two controllers, each woken by what the other writes in the object, and by
\* what it writes itself, come to rest once the users do: no reconcile finds
\* something to write in what the one before it has written (common.go 184-190,
\* 233-240).  Not so where an object without languages is to be rolled back: with
\* no patcher to ask, it is recorded as instrumented (185) and then as not (214),
\* and each of the two writes brings the request back, for ever.
ComesToRest ==
  [](ShouldRollBack(wl) => ia.spec.langs)
    => <>[](dr.pc = "idle" /\ ~drQueued /\ wr.pc = "idle" /\ ~wrQueued)

\* deployment_controller.go:47: Reconcile "keeps the `instrumented` field of
\* InstrumentedApplication up to date with the deployment spec".
StatusFollowsTemplate ==
  <>[](ia.status.phase = "Completed" /\ ~wl.skip) => []<>(ia.status.traces = (wl.agent > 0))

\* common.go:267: "if the app is instrumented update the active service name".
ServiceNameFollows ==
  <>[](Stays("true") /\ ia.spec.langs /\ wl.agent = 1) => []<>(wl.env = ServiceName(wl))
=============================================================================
