------------------------- MODULE ManagerRefinement -------------------------
(***************************************************************************)
(* The manager implements Detection, and with it Lifecycle: beside the      *)
(* workload controller, the users and the rivals of its name, for any       *)
(* number of edits, restarts and failing calls, an InstrumentedApplication  *)
(* lives as it does beside the writers module Detection allows.             *)
(***************************************************************************)
EXTENDS InstrumentorProofs, LifecycleProofs

(***************************************************************************)
(* What the workload controller's copies of the object agree on.           *)
(***************************************************************************)

\* A copy of the stored version has its findings.  Detection's own copy, with
\* new findings in it, does not: this is about the others.
SameFindings(copy, object) ==
  (copy.uid # 0 /\ copy.uid = object.uid /\ copy.rv = object.rv) =>
    copy.spec.langs = object.spec.langs /\ copy.spec.apps = object.spec.apps

FindingsCurrent ==
  /\ SameFindings(iaCache, ia)
  /\ \A v \in iaFeed : SameFindings(v, ia)
  /\ SameFindings(wr.ia, ia)

\* The object the worker has just created, and means to make Pending.
PendingBlank == wr.pc = "pending" => wr.ia.status = BlankStatus

WriterInv == FindingsCurrent /\ PendingBlank

-----------------------------------------------------------------------------
(***************************************************************************)
(* A write of the object by anybody but detection.                         *)
(***************************************************************************)

\* Others, without what they leave alone.
Written ==
  /\ \/ Appeared \/ Pended \/ Touched \/ RemoveIA \/ UNCHANGED <<ia, iaFeed>>
  /\ UNCHANGED faults \/ Fails

LEMMA WrittenByOthers ==
  ASSUME Written, UNCHANGED <<iaCache, pods, podCache, detection>>
  PROVE  [OpenNext]_vars
BY DEF Written, OpenNext, Others

LEMMA Stutters ==
  ASSUME UNCHANGED <<cluster, detection>>
  PROVE  [OpenNext]_vars
BY DEF vars

LEMMA SameRecords ==
  ASSUME NEW x \in IA, NEW y \in IA,
         x.uid = y.uid, x.rv = y.rv, x.spec = y.spec, x.status = y.status
  PROVE  x = y
BY DEF IA

\* The fields of the object that are not detection's.
LEMMA TouchedTo ==
  ASSUME ia \in IA, ia.uid # 0, NEW new \in IA, Store(new),
         new.uid = ia.uid, new.rv = ia.rv,
         new.spec.langs = ia.spec.langs, new.spec.apps = ia.spec.apps,
         new.status.phase = ia.status.phase
  PROVE  Touched
<1> DEFINE touched == [ia EXCEPT !.spec.active = new.spec.active,
                                 !.spec.logType = new.spec.logType,
                                 !.status.traces = new.status.traces,
                                 !.status.detected = new.status.detected]
<1>1. /\ new.spec.active \in Names \union {NoName}
      /\ new.spec.logType \in LogTypes \union {NoLogType}
      /\ new.status.traces \in BOOLEAN /\ new.status.detected \in BOOLEAN
  BY DEF IA, IASpec, IAStatus
<1>2. touched = new
  <2>1. /\ touched \in IA /\ touched.uid = ia.uid /\ touched.rv = ia.rv
        /\ touched.spec.langs = ia.spec.langs /\ touched.spec.apps = ia.spec.apps
        /\ touched.spec.active = new.spec.active /\ touched.spec.logType = new.spec.logType
        /\ touched.status.phase = ia.status.phase
        /\ touched.status.traces = new.status.traces
        /\ touched.status.detected = new.status.detected
    BY <1>1 DEF IA, IASpec, IAStatus
  <2> HIDE DEF touched
  <2>2. touched.spec = new.spec
    BY <2>1 DEF IA, IASpec
  <2>3. touched.status = new.status
    BY <2>1 DEF IA, IAStatus
  <2> QED BY <2>1, <2>2, <2>3, SameRecords
<1>3. Store(touched)
  BY <1>2
<1> QED BY <1>1, <1>3 DEF Touched

LEMMA UpdateWritten ==
  ASSUME NEW copy, NEW new, NEW reply, Update(copy, new, reply),
         Matches(copy) /\ Store(new) => Touched \/ Pended
  PROVE  Written
BY DEF Update, Written

LEMMA StatusPut ==
  ASSUME ManagerInv, NEW status \in IAStatus, NEW reply, UpdateStatus(wr.ia, status, reply),
         status.phase = wr.ia.status.phase
  PROVE  Written
<1> DEFINE new == [ia EXCEPT !.status = status]
           copy == wr.ia
<1>1. /\ new \in IA /\ new.uid = ia.uid /\ new.rv = ia.rv /\ new.spec = ia.spec
      /\ new.status = status /\ ia \in IA
  BY HeldTyped DEF IA
<1>2. Matches(copy) => ia.uid # 0 /\ ia.status = copy.status
  BY HeldTyped DEF Matches, Current
<1>3. Update(copy, new, reply)
  BY DEF UpdateStatus
<1>4. status.phase = copy.status.phase
  OBVIOUS
<1> HIDE DEF new, copy
<1>5. Matches(copy) /\ Store(new) => Touched
  BY <1>1, <1>2, <1>4, TouchedTo
<1> QED BY <1>3, <1>5, UpdateWritten

LEMMA PendingPut ==
  ASSUME ManagerInv, WriterInv, WPending
  PROVE  Written
<1> DEFINE status == [BlankStatus EXCEPT !.phase = "Pending"]
           new == [ia EXCEPT !.status = status]
           pended == [ia EXCEPT !.status.phase = "Pending"]
           copy == wr.ia
<1>1. PICK reply \in Replies : Update(copy, new, reply)
  BY DEF WPending, UpdateStatus
<1>2. Matches(copy) => ia.uid # 0 /\ ia.status = BlankStatus
  BY HeldTyped DEF Matches, Current, WPending, At, WriterInv, PendingBlank
<1>3. ia.status = BlankStatus => new = pended /\ ia.status.phase = ""
  <2> SUFFICES ASSUME ia.status = BlankStatus PROVE new = pended /\ ia.status.phase = ""
    OBVIOUS
  <2>1. ia \in IA /\ BlankStatus \in IAStatus /\ BlankStatus.phase = ""
    <3>1. BlankStatus \in IAStatus /\ BlankStatus.phase = ""
      BY DEF BlankStatus, IAStatus, Phases
    <3> QED BY <3>1, HeldTyped
  <2>2. /\ new \in IA /\ new.uid = ia.uid /\ new.rv = ia.rv /\ new.spec = ia.spec
        /\ new.status = status
    BY <2>1 DEF IA, IAStatus, Phases
  <2>3. /\ pended \in IA /\ pended.uid = ia.uid /\ pended.rv = ia.rv /\ pended.spec = ia.spec
        /\ pended.status = status
    BY <2>1 DEF IA, IAStatus, Phases
  <2> HIDE DEF status, new, pended
  <2>4. new = pended
    BY <2>2, <2>3, SameRecords
  <2> QED BY <2>1, <2>4
<1>4. Matches(copy) /\ Store(new) => Pended
  <2>1. Pended <=> ia.uid # 0 /\ ia.status.phase = "" /\ Store(pended)
    BY DEF Pended
  <2> HIDE DEF new, pended, copy
  <2> QED BY <1>2, <1>3, <2>1
<1> HIDE DEF new, copy
<1> QED BY <1>1, <1>4, UpdateWritten

LEMMA SpecPut ==
  ASSUME ManagerInv, WriterInv, NEW spec \in IASpec, NEW reply, UpdateSpec(wr.ia, spec, reply),
         spec.langs = wr.ia.spec.langs, spec.apps = wr.ia.spec.apps
  PROVE  Written
<1> DEFINE new == [ia EXCEPT !.spec = spec]
           copy == wr.ia
<1>1. /\ new \in IA /\ new.uid = ia.uid /\ new.rv = ia.rv /\ new.spec = spec
      /\ new.status = ia.status /\ ia \in IA
  BY HeldTyped DEF IA
<1>2. Matches(copy) => /\ ia.uid # 0
                       /\ copy.spec.langs = ia.spec.langs /\ copy.spec.apps = ia.spec.apps
  BY DEF Matches, WriterInv, FindingsCurrent, SameFindings
<1>3. Update(copy, new, reply)
  BY DEF UpdateSpec
<1>4. spec.langs = copy.spec.langs /\ spec.apps = copy.spec.apps
  OBVIOUS
<1> HIDE DEF new, copy
<1>5. Matches(copy) /\ Store(new) => Touched
  BY <1>1, <1>2, <1>4, TouchedTo
<1> QED BY <1>3, <1>5, UpdateWritten

\* The writes of the object in hand.
LEMMA PutsWritten ==
  ASSUME ManagerInv, WriterInv,
         \/ WPutLogType \/ WInstrumentStatus \/ WPutActive \/ WPutTraces \/ WPutName
         \/ WRollbackStatus \/ WPutNoActive \/ WPutNoTraces \/ WPutDetected
  PROVE  Written /\ UNCHANGED <<iaCache, pods, podCache>>
<1>1. wr.ia.spec \in IASpec /\ wr.ia.status \in IAStatus /\ wr.wl \in WL
  BY HeldTyped DEF IA
<1>2. UNCHANGED <<iaCache, pods, podCache>>
  BY DEF WPutLogType, WInstrumentStatus, WPutActive, WPutTraces, WPutName, WRollbackStatus,
         WPutNoActive, WPutNoTraces, WPutDetected, PutInstrumented, WPutSpec, WPutStatus
<1>3. CASE WPutLogType
  <2> DEFINE spec == [wr.ia.spec EXCEPT !.logType = wr.wl.wish.logType]
  <2>1. spec \in IASpec /\ spec.langs = wr.ia.spec.langs /\ spec.apps = wr.ia.spec.apps
    BY <1>1 DEF IASpec, WL, Wish
  <2>2. \E reply \in Replies : UpdateSpec(wr.ia, spec, reply)
    BY <1>3 DEF WPutLogType, WPutSpec
  <2> HIDE DEF spec
  <2> QED BY <1>2, <2>1, <2>2, SpecPut
<1>4. CASE WPutActive \/ WPutName \/ WPutNoActive
  <2>1. \E reply \in Replies : UpdateSpec(wr.ia, wr.ia.spec, reply)
    BY <1>4 DEF WPutActive, WPutName, WPutNoActive, WPutSpec
  <2> QED BY <1>1, <1>2, <2>1, SpecPut
<1>5. CASE WInstrumentStatus \/ WRollbackStatus \/ WPutTraces \/ WPutNoTraces
  <2>1. IsTracesInstrumented(wr.wl, wr.ia) \in BOOLEAN
    BY DEF IsTracesInstrumented
  <2>2. PICK b \in BOOLEAN, reply \in Replies :
          UpdateStatus(wr.ia, [wr.ia.status EXCEPT !.traces = b], reply)
    BY <1>5, <2>1 DEF WInstrumentStatus, WRollbackStatus, PutInstrumented, WPutTraces,
                      WPutNoTraces, WPutStatus
  <2> DEFINE status == [wr.ia.status EXCEPT !.traces = b]
  <2>3. status \in IAStatus /\ status.phase = wr.ia.status.phase
    BY <1>1 DEF IAStatus
  <2>4. UpdateStatus(wr.ia, status, reply)
    BY <2>2
  <2> HIDE DEF status
  <2> QED BY <1>2, <2>3, <2>4, StatusPut
<1>6. CASE WPutDetected
  <2> DEFINE status == [wr.ia.status EXCEPT !.detected = TRUE]
  <2>1. status \in IAStatus /\ status.phase = wr.ia.status.phase
    BY <1>1 DEF IAStatus
  <2>2. \E reply \in Replies : UpdateStatus(wr.ia, status, reply)
    BY <1>6 DEF WPutDetected
  <2> HIDE DEF status
  <2> QED BY <1>2, <2>1, <2>2, StatusPut
<1> QED BY <1>3, <1>4, <1>5, <1>6

\* A write of the template is none of the object, but may cost a failing call.
LEMMA TemplateWritten ==
  ASSUME NEW copy, NEW new, NEW reply, UpdateWL(copy, new, reply), UNCHANGED <<ia, iaFeed>>
  PROVE  Written
BY DEF UpdateWL, Written

-----------------------------------------------------------------------------
(***************************************************************************)
(* Every step of the manager is one of Detection.                          *)
(***************************************************************************)

LEMMA InstrumentImplements ==
  ASSUME ManagerInv, WriterInv, Instrument
  PROVE  [OpenNext]_vars
<1>1. WReconcile /\ UNCHANGED detection
  BY DEF Instrument
<1>2. CASE WBegin \/ WSync \/ WLogType \/ WInstrument \/ WRollback \/ WNothingToUnpatch \/ WApps
  <2>1. UNCHANGED cluster
    BY <1>2 DEF WBegin, WSync, WLogType, WInstrument, WRollback, Reread, WNothingToUnpatch,
                WApps, Local
  <2> QED BY <1>1, <2>1, Stutters
<1>3. CASE WCreate
  <2>1. PICK reply \in {"done", "error"} : CreateIA(reply)
    BY <1>3 DEF WCreate
  <2>2. Written
    BY <2>1 DEF CreateIA, Appeared, Written
  <2> QED BY <1>1, <1>3, <2>2, WrittenByOthers DEF WCreate
<1>4. CASE WPending
  BY <1>1, <1>4, PendingPut, WrittenByOthers DEF WPending
<1>5. CASE \/ WPutLogType \/ WInstrumentStatus \/ WPutActive \/ WPutTraces \/ WPutName
           \/ WRollbackStatus \/ WPutNoActive \/ WPutNoTraces \/ WPutDetected
  BY <1>1, <1>5, PutsWritten, WrittenByOthers
<1>6. CASE WPatch \/ WUnpatch
  <2>1. \E template, reply : UpdateWL(wr.wl, template, reply)
    BY <1>6 DEF WPatch, WUnpatch
  <2>2. UNCHANGED <<ia, iaCache, iaFeed, pods, podCache>>
    BY <1>6 DEF WPatch, WUnpatch
  <2> QED BY <1>1, <2>1, <2>2, TemplateWritten, WrittenByOthers
<1> QED BY <1>1, <1>2, <1>3, <1>4, <1>5, <1>6 DEF WReconcile

LEMMA StepImplements ==
  ASSUME ManagerInv, WriterInv, [InstrumentorNext]_all
  PROVE  [OpenNext]_vars
<1>1. CASE Detect \/ IAEvent \/ PodEvent \/ UserScale \/ PodsChange \/ CrashAll \/ PanicAll
  <2>1. \/ Reconcile \/ WatchIA \/ WatchPod \/ TargetChange \/ Kubelet \/ Collector \/ Restart
    BY <1>1 DEF Detect, IAEvent, WatchIA, PodEvent, UserScale, PodsChange, CrashAll, Crash, PanicAll
  <2> QED BY <2>1 DEF OpenNext
<1>2. CASE WLEvent \/ UserEdit
  BY <1>2, Stutters DEF WLEvent, DeliverWL, UserEdit, EditWL
<1>3. CASE UserDelete
  BY <1>3, WrittenByOthers DEF UserDelete, Written
<1>4. CASE RivalCreates
  BY <1>4, WrittenByOthers DEF RivalCreates, Appeared, Written
<1>5. CASE RivalPends
  <2>1. ia.uid # 0
    BY <1>5 DEF RivalPends
  <2> QED BY <1>5, <2>1, WrittenByOthers DEF RivalPends, Pended, Written
<1>6. CASE UNCHANGED all
  BY <1>6 DEF all
<1> QED BY <1>1, <1>2, <1>3, <1>4, <1>5, <1>6, InstrumentImplements DEF InstrumentorNext

-----------------------------------------------------------------------------
(***************************************************************************)
(* The copies agree with the object after any step.                        *)
(***************************************************************************)

\* A copy of an older version stays one, and a new version agrees with itself.
LEMMA FindingsKept ==
  ASSUME ia \in IA, ia' \in IA, NEW copy \in IA, Current(copy, ia), SameFindings(copy, ia),
         Stored
  PROVE  SameFindings(copy, ia')
<1>1. CASE ia' = ia
  BY <1>1
<1>2. CASE ia'.rv = ia.rv + 1
  <2>1. ia.rv \in Nat /\ copy.rv \in Nat
    BY DEF IA
  <2>2. copy.uid # 0 => copy.rv # ia'.rv
    BY <1>2, <2>1 DEF Current
  <2> QED BY <2>2 DEF SameFindings
<1> QED BY <1>1, <1>2 DEF Stored

LEMMA OwnFindings == \A x : SameFindings(x, x) /\ SameFindings(NoIA, x)
BY DEF SameFindings, NoIA

\* The worker reads what it holds from the cache or from the server's answer, and
\* records in it nothing but a service name.
Holds(app) ==
  \/ app \in {wr.ia, iaCache, ia', NoIA}
  \/ \E name \in Names \union {NoName} : app = Record(wr.ia, name)

LEMMA WorkerHolds ==
  ASSUME ManagerInv, Instrument
  PROVE  /\ Holds(wr'.ia)
         /\ wr'.pc = "pending" => wr'.ia = ia' /\ ia'.status = BlankStatus
<1>1. /\ wr \in WR /\ wr.ia \in IA /\ wr.wl \in WL /\ ia \in IA /\ iaFeed \in SUBSET IA
      /\ faults \in 0..MaxFaults /\ ServiceName(wr.wl) \in Names
  BY HeldTyped, NameTyped
<1>2. \A w : Branch(w) # "pending" /\ Rest(w) # "pending"
  BY DEF Branch, Rest
<1>3. CASE WReturn
  BY <1>3, IdleHolds DEF WReturn, Holds
<1>4. ASSUME NEW pc, pc # "pending", wr'.pc = pc, Holds(wr'.ia)
      PROVE  /\ Holds(wr'.ia)
             /\ wr'.pc = "pending" => wr'.ia = ia' /\ ia'.status = BlankStatus
  BY <1>4
<1>5. CASE \/ WPutLogType \/ WInstrumentStatus \/ WPutActive \/ WPutTraces \/ WPutName
           \/ WRollbackStatus \/ WPutNoActive \/ WPutNoTraces
  <2>1. \E pc : pc # "pending" /\ (wr' = [wr EXCEPT !.pc = pc, !.ia = ia'] \/ WReturn)
    BY <1>2, <1>5 DEF WPutLogType, WInstrumentStatus, WPutActive, WPutTraces, WPutName,
         WRollbackStatus, WPutNoActive, WPutNoTraces, PutInstrumented, WPutSpec, WPutStatus
  <2> QED BY <1>1, <1>3, <2>1 DEF WR, Holds
<1>6. CASE WBegin
  <2>1. WReturn \/ (wr'.pc = "sync" /\ wr'.ia = NoIA)
    BY <1>6, IdleHolds DEF WBegin, WR
  <2> QED BY <1>3, <2>1 DEF Holds
<1>7. CASE WSync \/ WNothingToUnpatch
  <2>1. WReturn \/ (wr'.pc \in {"createIA", "logType", "apps"} /\ wr'.ia = wr.ia)
    BY <1>1, <1>7 DEF WSync, WNothingToUnpatch, WR
  <2> QED BY <1>3, <2>1 DEF Holds
<1>8. CASE WCreate
  <2>1. PICK reply \in {"done", "error"} :
          /\ CreateIA(reply)
          /\ IF reply = "done" THEN wr' = [wr EXCEPT !.pc = "pending", !.ia = ia'] ELSE WReturn
    BY <1>8 DEF WCreate
  <2>2. reply = "done" => ia'.status = BlankStatus
    BY <1>1, <2>1, CreateIAEffect
  <2>3. WReturn \/ (wr'.ia = ia' /\ ia'.status = BlankStatus)
    BY <1>1, <2>1, <2>2 DEF WR
  <2> QED BY <1>3, <2>3 DEF Holds
<1>9. CASE WPending \/ WPutDetected
  BY <1>3, <1>9 DEF WPending, WPutDetected
<1>10. CASE WLogType
  <2>1. \E pc : pc # "pending" /\ (wr' = [wr EXCEPT !.pc = pc, !.ia = iaCache] \/ WReturn)
    BY <1>2, <1>10 DEF WLogType
  <2> QED BY <1>1, <1>3, <2>1 DEF WR, Holds
<1>11. CASE WInstrument \/ WRollback
  <2>1. \/ WReturn
        \/ \E pc \in {"instrumentStatus", "patch", "rollbackStatus", "unpatch"} :
             wr' = [wr EXCEPT !.wl = wlCache, !.ia = iaCache, !.pc = pc]
    BY <1>11 DEF WInstrument, WRollback, Reread
  <2> QED BY <1>1, <1>3, <2>1 DEF WR, Holds
<1>12. CASE WPatch \/ WUnpatch
  <2>1. \E pc, app : /\ pc # "pending" /\ Holds(app)
                     /\ \/ wr' = [wr EXCEPT !.wl = wl', !.ia = app, !.pc = pc]
                        \/ wr' = [wr EXCEPT !.pc = pc, !.wl = wl', !.ia = app]
                        \/ WReturn
    BY <1>1, <1>12 DEF WPatch, WUnpatch, Holds
  <2> QED BY <1>1, <1>3, <2>1 DEF WR
<1>13. CASE WApps
  <2>1. \E app \in {wr.ia, iaCache} : wr' = [wr EXCEPT !.pc = "putDetected", !.ia = app] \/ WReturn
    BY <1>13 DEF WApps
  <2> QED BY <1>1, <1>3, <2>1 DEF WR, Holds
<1> QED
  BY <1>5, <1>6, <1>7, <1>8, <1>9, <1>10, <1>11, <1>12, <1>13 DEF Instrument, WReconcile

LEMMA WriterStep ==
  ASSUME ManagerInv, WriterInv, [InstrumentorNext]_all
  PROVE  WriterInv'
<1>1. /\ ia \in IA /\ iaCache \in IA /\ iaFeed \in SUBSET IA /\ wr.ia \in IA
      /\ Current(ia, ia) /\ Current(iaCache, ia) /\ Current(wr.ia, ia)
      /\ \A v \in iaFeed : Current(v, ia)
  <2>1. Current(ia, ia)
    BY HeldTyped, OwnCopy
  <2> QED BY <2>1, HeldTyped DEF ManagerInv, DetectionInv, IInv, CopiesCurrent
<1>2. ia' \in IA
  BY ManagerStep, HeldTyped DEF ManagerInv, DetectionInv, IInv, TypeOK, ClusterTypeOK
<1>3. Stored /\ iaCache' \in {iaCache, ia} \union iaFeed
  BY StepImplements, StepStores DEF ManagerInv, DetectionInv, IInv
<1>4. ASSUME NEW x \in {iaCache, ia, ia', wr.ia, NoIA} \union iaFeed
      PROVE  SameFindings(x, ia')
  BY <1>1, <1>2, <1>3, <1>4, FindingsKept, OwnFindings DEF WriterInv, FindingsCurrent
<1>5. SameFindings(iaCache', ia') /\ \A v \in iaFeed' : SameFindings(v, ia')
  BY <1>3, <1>4 DEF Stored
<1>6. \/ Instrument
      \/ wr' = wr
      \/ wr' = WIdle
  BY DEF InstrumentorNext, Detect, IAEvent, PodEvent, WLEvent, DeliverWL, CrashAll, PanicAll,
         WRestart, UserEdit, EditWL, UserDelete, UserScale, RivalCreates, RivalPends, PodsChange,
         workload, all
<1>7. SameFindings(wr'.ia, ia') /\ PendingBlank'
  <2>1. CASE Instrument
    <3>1. ASSUME NEW name \in Names \union {NoName}, wr'.ia = Record(wr.ia, name)
          PROVE  SameFindings(wr'.ia, ia')
      BY <1>1, <1>4, <3>1, RecordKeeps DEF SameFindings
    <3> QED BY <1>4, <2>1, <3>1, WorkerHolds DEF Holds, PendingBlank
  <2>2. CASE wr' = wr
    BY <1>4, <2>2 DEF WriterInv, PendingBlank
  <2>3. CASE wr' = WIdle
    BY <1>4, <2>3, IdleHolds DEF PendingBlank
  <2> QED BY <1>6, <2>1, <2>2, <2>3
<1> QED BY <1>5, <1>7 DEF WriterInv, FindingsCurrent

LEMMA WriterInductive == InstrumentorSpec => [](ManagerInv /\ WriterInv)
<1>1. InstrumentorInit => WriterInv
  <2> SUFFICES ASSUME InstrumentorInit PROVE WriterInv
    OBVIOUS
  <2>1. iaCache = NoIA /\ iaFeed = {} /\ wr = WIdle
    BY DEF InstrumentorInit, Init, ClusterInit, WorkloadInit
  <2> QED BY <2>1, OwnFindings, IdleHolds DEF WriterInv, FindingsCurrent, PendingBlank
<1>2. ManagerInv /\ WriterInv /\ [InstrumentorNext]_all => ManagerInv' /\ WriterInv'
  BY ManagerStep, WriterStep
<1> QED BY <1>1, <1>2, ManagerInit, PTL DEF InstrumentorSpec

-----------------------------------------------------------------------------
(***************************************************************************)
(* The theorems.                                                           *)
(***************************************************************************)

\* The manager implements Detection without its bounds: what the workload
\* controller, the users and the rivals do to the object, from copies of any age,
\* is within what Others allows, and all else is Detection's own step or none.
THEOREM ManagerImplementsDetection == InstrumentorSpec => ImplementsDetection
<1>1. InstrumentorInit => Init
  BY DEF InstrumentorInit
<1>2. ManagerInv /\ WriterInv /\ [InstrumentorNext]_all => [OpenNext]_vars
  BY StepImplements
<1> QED BY <1>1, <1>2, WriterInductive, PTL DEF InstrumentorSpec, ImplementsDetection, OpenSpec

\* So the manager as a whole implements the life of an InstrumentedApplication:
\* objects walk through the phases in order, and one pod is started for each.
THEOREM ManagerImplementsLifecycle ==
  ASSUME IsFiniteSet(Pods)
  PROVE  InstrumentorSpec => LifecycleSpec
<1>1. OpenSpec => LifecycleSpec
  BY OpenLifecycle
<1>2. InstrumentorSpec => OpenSpec
  BY ManagerImplementsDetection DEF ImplementsDetection
<1> QED BY <1>1, <1>2, PTL
=============================================================================
