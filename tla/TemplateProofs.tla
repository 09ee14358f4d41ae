--------------------------- MODULE TemplateProofs ---------------------------
(***************************************************************************)
(* The manager implements module Template, and keeps its hands off a        *)
(* workload that never asks to be instrumented: for any pods, names, edits, *)
(* restarts and failing calls.                                              *)
(***************************************************************************)
EXTENDS InstrumentorProofs

(***************************************************************************)
(* What the steps that leave the template alone let be seen of the rest.   *)
(***************************************************************************)

\* Nobody but the manager's own steps, its death included, changes what it is
\* about, and none of these takes a report with it.
LEMMA PodsOrWorker ==
  ASSUME ManagerInv, [InstrumentorNext]_all
  PROVE  OutcomesStay /\ (wr' # wr => UNCHANGED pods)
<1>1. IInv /\ SeenBorn /\ ReportInv /\ TypeOK
  BY DEF ManagerInv, DetectionInv, IInv
<1>2. Reconcile \/ WatchIA \/ WatchPod \/ TargetChange \/ Kubelet \/ Collector => OutcomesStay
  BY <1>1, OutcomesStep DEF OpenNext, ReportInv
<1>3. UNCHANGED pods => OutcomesStay
  BY DEF OutcomesStay
<1>4. CASE Instrument
  <2>1. UNCHANGED pods
    BY <1>4 DEF Instrument, WReconcile, WBegin, WSync, WCreate, WPending, WLogType, WPutLogType,
         WInstrument, WInstrumentStatus, WPatch, WPutActive, WPutTraces, WPutName, WRollback,
         WRollbackStatus, WUnpatch, WNothingToUnpatch, WPutNoActive, WPutNoTraces, WApps,
         WPutDetected, Reread, PutInstrumented, WPutSpec, WPutStatus, Local, cluster
  <2> QED BY <1>3, <2>1
<1>5. CASE CrashAll \/ PanicAll
  BY <1>3, <1>5 DEF CrashAll, PanicAll, Crash, Restart, Relist
<1> QED
  BY <1>2, <1>3, <1>4, <1>5
     DEF InstrumentorNext, all, vars, cluster, workload, Detect, IAEvent, WatchIA, PodEvent,
         WLEvent, DeliverWL, UserEdit, EditWL, UserDelete, RivalCreates, RivalPends, UserScale,
         PodsChange

LEMMA FoundStays ==
  ASSUME OutcomesStay, LangsFound
  PROVE  LangsFound'
BY DEF OutcomesStay, LangsFound, FindsLangs

-----------------------------------------------------------------------------
(***************************************************************************)
(* The refinement.                                                         *)
(***************************************************************************)

LEMMA StepPromised ==
  ASSUME ManagerInv, [InstrumentorNext]_all
  PROVE  [Promise!Next]_(Promise!vars)
<1>1. TemplateStep /\ OutcomesStay /\ (wr' # wr => UNCHANGED pods)
  BY ManagerStep, PodsOrWorker DEF StepSafe
<1> DEFINE owned == <<ServiceName(wl), ShouldRollBack(wl), <<wl.wish, wl.skip, wl.ready>>>>
<1>2. UNCHANGED pods => UNCHANGED LangsFound
  BY DEF LangsFound
<1>3. /\ wl'.wish = wl.wish => UNCHANGED <<ServiceName(wl), ShouldRollBack(wl)>>
  BY DEF ServiceName, ShouldRollBack
<1>4. CASE wl' = wl
  <2>1. UNCHANGED <<owned, wl.agent, wl.env>>
    BY <1>4 DEF ServiceName, ShouldRollBack
  <2> QED
    BY <1>1, <1>2, <2>1, FoundStays
       DEF Promise!Next, Promise!vars, Promise!owned, Promise!Look, Promise!Working,
           Promise!Find, LangsFound
<1>5. CASE UNCHANGED pods /\ ManagerWrites
  BY <1>2, <1>3, <1>5
     DEF ManagerWrites, AgentPut, AgentRenamed, AgentGone, AgentKept, LangsFound, ShouldRollBack,
         Promise!Next, Promise!owned, Promise!Working, Promise!Instrument, Promise!Rename,
         Promise!RollBack, Promise!Look
<1>6. CASE UNCHANGED pods /\ OwnerWrites
  BY <1>2, <1>6
     DEF OwnerWrites, AgentGone, AgentKept, LangsFound, Promise!Next, Promise!Edit, Promise!Replace
<1> QED BY <1>1, <1>4, <1>5, <1>6 DEF TemplateStep

\* The manager keeps the promise module Template makes to a workload's owner: its
\* writes, decided on copies of any age, are sound for the template as it is stored
\* when they are accepted (common.go 195-304).
THEOREM ManagerKeepsPromise == InstrumentorSpec => TemplateSpec
<1>1. InstrumentorInit => Promise!Init
  BY DEF InstrumentorInit, WorkloadInit, NoWL, Promise!Init
<1> QED BY <1>1, ManagerInductive, StepPromised, PTL
        DEF InstrumentorSpec, TemplateSpec, Promise!Spec

-----------------------------------------------------------------------------
(***************************************************************************)
(* Workloads that never ask.                                               *)
(***************************************************************************)

\* The places behind the decision to instrument.
Instrumenting ==
  {"instrument", "instrumentStatus", "patch", "putActive", "putTraces", "putName"}

\* As long as the template has not asked, no copy of it does, and the worker is not
\* on its way to instrument it.
UnaskedInv ==
  /\ wl.agent = 0
  /\ ~ShouldInstrument(wlCache)
  /\ \A v \in wlFeed : ~ShouldInstrument(v)
  /\ ~ShouldInstrument(wr.wl)
  /\ wr.pc \notin Instrumenting

\* Copies of the template are copies of what was stored.
LEMMA CopiesOfStored ==
  ASSUME ManagerInv, [InstrumentorNext]_all
  PROVE  /\ wlFeed' \subseteq wlFeed \union {wl'}
         /\ wlCache' \in wlFeed \union {wlCache, wl}
<1>1. \A new : StoreWL(new) => wlFeed' \subseteq wlFeed \union {wl'}
  BY DEF StoreWL
<1>2. \A copy, new, reply : UpdateWL(copy, new, reply) => wlFeed' \subseteq wlFeed \union {wl'}
  BY <1>1 DEF UpdateWL
<1>3. CASE Instrument
  <2>1. CASE WPatch \/ WUnpatch
    BY <1>2, <2>1 DEF WPatch, WUnpatch
  <2>2. CASE UNCHANGED <<wlFeed, wlCache>>
    BY <2>2
  <2> QED
    BY <1>3, <2>1, <2>2
       DEF Instrument, WReconcile, WBegin, WSync, WCreate, WPending, WLogType, WPutLogType,
           WInstrument, WInstrumentStatus, WPutActive, WPutTraces, WPutName, WRollback,
           WRollbackStatus, WNothingToUnpatch, WPutNoActive, WPutNoTraces, WApps,
           WPutDetected, Reread, PutInstrumented, WPutSpec, WPutStatus, Local
<1>4. CASE WLEvent
  BY <1>4 DEF WLEvent, DeliverWL
<1>5. CASE CrashAll \/ PanicAll
  BY <1>5 DEF CrashAll, PanicAll, WRestart
<1>6. CASE UserEdit
  BY <1>1, <1>6 DEF UserEdit, EditWL
<1>7. CASE UNCHANGED <<wlFeed, wlCache>>
  BY <1>7
<1> QED
  BY <1>3, <1>4, <1>5, <1>6, <1>7
     DEF InstrumentorNext, all, workload, Detect, IAEvent, PodEvent, UserDelete, RivalCreates,
         RivalPends, UserScale, PodsChange

\* Where the worker goes, and with what copy of the template.
LEMMA WorkerUnasked ==
  ASSUME ManagerInv, UnaskedInv, Instrument
  PROVE  wr'.pc \notin Instrumenting /\ wr'.wl \in {NoWL, wr.wl, wlCache, wl'}
<1>1. wr \in WR /\ iaCache \in IA /\ wlCache \in WL
  BY HeldTyped
<1>2. CASE WReturn
  BY <1>2, IdleHolds DEF WReturn, Instrumenting
<1>3. ASSUME NEW next \in WPcs \ Instrumenting, NEW app, wr' = [wr EXCEPT !.pc = next, !.ia = app]
      PROVE  wr'.pc \notin Instrumenting /\ wr'.wl \in {NoWL, wr.wl, wlCache, wl'}
  BY <1>1, <1>3 DEF WR
<1>4. /\ Branch(wr.wl) \in WPcs \ Instrumenting
      /\ \A w : Rest(w) \in WPcs \ Instrumenting
  BY DEF UnaskedInv, Branch, Rest, WPcs, Instrumenting
<1>5. CASE WBegin \/ WSync \/ WCreate \/ WPending
  BY <1>1, <1>2, <1>5
     DEF WBegin, WSync, WCreate, WPending, WR, Instrumenting, WIdle, WReturn
<1>6. CASE WLogType
  <2>1. CASE iaCache.uid # 0
    <3>1. PICK next \in {Branch(wr.wl), "putLogType"} : wr' = [wr EXCEPT !.pc = next, !.ia = iaCache]
      BY <1>6, <2>1 DEF WLogType
    <3>2. next \in WPcs \ Instrumenting
      BY <1>4, <3>1 DEF WPcs, Instrumenting
    <3> QED BY <1>3, <3>1, <3>2
  <2> QED BY <1>2, <1>6, <2>1 DEF WLogType
<1>7. CASE WPutLogType \/ WPutNoActive
  <2>1. PICK next \in {Branch(wr.wl), "putNoTraces"} :
          wr' = [wr EXCEPT !.pc = next, !.ia = ia'] \/ WReturn
    BY <1>7 DEF WPutLogType, WPutNoActive, WPutSpec
  <2>2. next \in WPcs \ Instrumenting
    BY <1>4, <2>1 DEF WPcs, Instrumenting
  <2> QED BY <1>2, <1>3, <2>1, <2>2
<1>8. CASE WRollbackStatus \/ WPutNoTraces
  <2>1. PICK next \in {"unpatch", "apps"} :
          wr' = [wr EXCEPT !.pc = next, !.ia = ia'] \/ WReturn
    BY <1>8 DEF WRollbackStatus, WPutNoTraces, PutInstrumented, WPutStatus
  <2>2. next \in WPcs \ Instrumenting
    BY <2>1 DEF WPcs, Instrumenting
  <2> QED BY <1>2, <1>3, <2>1, <2>2
<1>9. CASE WRollback
  <2>1. CASE iaCache.uid # 0
    <3>1. PICK next \in {"unpatch", "rollbackStatus"} :
            wr' = [wr EXCEPT !.wl = wlCache, !.ia = iaCache, !.pc = next]
      BY <1>9, <2>1 DEF WRollback, Reread
    <3> QED BY <1>1, <3>1 DEF WR, Instrumenting
  <2> QED BY <1>2, <1>9, <2>1 DEF WRollback, Reread
<1>10. CASE WUnpatch
  BY <1>1, <1>2, <1>10 DEF WUnpatch, WR, Instrumenting
<1>11. CASE WNothingToUnpatch \/ WApps \/ WPutDetected
  BY <1>1, <1>2, <1>11 DEF WNothingToUnpatch, WApps, WPutDetected, WR, Instrumenting
<1>12. /\ ~WInstrument /\ ~WInstrumentStatus /\ ~WPatch
       /\ ~WPutActive /\ ~WPutTraces /\ ~WPutName
  BY DEF UnaskedInv, Instrumenting, WInstrument, WInstrumentStatus, WPatch, WPutActive,
         WPutTraces, WPutName, Reread, PutInstrumented, WPutSpec, WPutStatus, At
<1> QED
  BY <1>5, <1>6, <1>7, <1>8, <1>9, <1>10, <1>11, <1>12 DEF Instrument, WReconcile

LEMMA UnaskedStep ==
  ASSUME ManagerInv, UnaskedInv, ~ShouldInstrument(wl), ~ShouldInstrument(wl'),
         [InstrumentorNext]_all
  PROVE  UnaskedInv'
<1>1. wl'.agent = 0
  BY ManagerStep
     DEF StepSafe, TemplateStep, ManagerWrites, OwnerWrites, AgentPut, AgentRenamed, AgentGone,
         AgentKept, UnaskedInv, Instrumenting
<1>2. ~ShouldInstrument(wlCache') /\ \A v \in wlFeed' : ~ShouldInstrument(v)
  BY CopiesOfStored DEF UnaskedInv
<1>3. ~ShouldInstrument(NoWL)
  BY DEF ShouldInstrument, NoWL, NoWish
<1>4. ~ShouldInstrument(wr'.wl) /\ wr'.pc \notin Instrumenting
  <2>1. CASE Instrument
    BY <1>3, <2>1, WorkerUnasked DEF UnaskedInv
  <2>2. CASE wr' = wr
    BY <2>2 DEF UnaskedInv
  <2>3. CASE wr' = WIdle
    BY <1>3, <2>3, IdleHolds DEF Instrumenting
  <2> QED
    BY <2>1, <2>2, <2>3
       DEF InstrumentorNext, all, workload, Detect, IAEvent, PodEvent, WLEvent, DeliverWL, CrashAll,
           PanicAll, WRestart, UserEdit, EditWL, UserDelete, RivalCreates, RivalPends, UserScale,
           PodsChange
<1> QED BY <1>1, <1>2, <1>4 DEF UnaskedInv

\* Instrumentation is opt-in: no copy, however old, no retry and no restart brings
\* an agent into the template of a workload that never asked (common.go 314-325).
THEOREM UnaskedSafe == InstrumentorSpec => LeftAloneUnasked
<1>1. InstrumentorInit /\ ~ShouldInstrument(wl) => UnaskedInv
  BY IdleHolds DEF InstrumentorInit, WorkloadInit, UnaskedInv, NoWL, NoWish, ShouldInstrument,
                   Instrumenting
<1>2. /\ ManagerInv /\ UnaskedInv /\ ~ShouldInstrument(wl) /\ (~ShouldInstrument(wl))'
      /\ [InstrumentorNext]_all
      => UnaskedInv'
  BY UnaskedStep DEF ShouldInstrument
<1>3. UnaskedInv => wl.agent = 0
  BY DEF UnaskedInv
<1> QED BY <1>1, <1>2, <1>3, ManagerInductive, PTL DEF InstrumentorSpec, LeftAloneUnasked
=============================================================================
