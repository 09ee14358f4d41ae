------------------------- MODULE InstrumentorProofs -------------------------
(***************************************************************************)
(* What holds of the two controllers together, for every workload, any      *)
(* number of edits, restarts and failing calls: proofs about module         *)
(* Instrumentor.                                                            *)
(***************************************************************************)
EXTENDS Instrumentor, DetectionProofs

(***************************************************************************)
(* The inductive invariant.                                                *)
(***************************************************************************)

\* No copy of the workload is newer than it, and one of its own version is it.
\* As for the InstrumentedApplication, this is what the resourceVersion buys.
CurrentWL(copy, w) == copy.rv <= w.rv /\ (copy.rv = w.rv => copy = w)

\* The worker has listed the objects; it has read the workload.
Listed == wr.pc \notin {"idle", "sync", "createIA"}

Holding == Listed /\ wr.pc # "pending"

TemplatesCurrent ==
  /\ CurrentWL(wlCache, wl)
  /\ \A v \in wlFeed : CurrentWL(v, wl)
  /\ Holding => CurrentWL(wr.wl, wl)

\* No copy has the agent twice, so that none that is written does.
CopiesPatchedOnce ==
  /\ wl.agent <= 1
  /\ wlCache.agent <= 1
  /\ \A v \in wlFeed : v.agent <= 1
  /\ wr.wl.agent <= 1

\* What the worker holds of the object.
RecordSound ==
  /\ Current(wr.ia, ia)
  /\ Reported(wr.ia, pods)
  /\ wr.pc = "pending" => wr.ia.uid # 0 /\ wr.ia.status.phase = ""
  /\ Listed => ours # {}

DetectionInv == IInv /\ SeenBorn /\ ReportInv

ManagerInv ==
  /\ DetectionInv
  /\ WorkloadTypeOK
  /\ TemplatesCurrent
  /\ CopiesPatchedOnce
  /\ RecordSound

WR == [pc : WPcs, ready : BOOLEAN, wl : WL, ia : IA]

Forward == ia'.uid = ia.uid => Rank[ia'.status.phase] >= Rank[ia.status.phase]

\* The object is as it was, or there is a new version.
Moves == ia' = ia \/ ia'.rv = ia.rv + 1

-----------------------------------------------------------------------------
(***************************************************************************)
(* Types.                                                                  *)
(***************************************************************************)

LEMMA IdleHolds ==
  /\ NoWL \in WL /\ NoWL.agent = 0
  /\ WIdle \in WR /\ WIdle.pc = "idle" /\ WIdle.ia = NoIA /\ WIdle.wl = NoWL
<1>1. NoWish \in Wish
  BY DEF NoWish, Wish, NoLogType
<1>2. NoWL \in WL /\ NoWL.agent = 0
  BY <1>1 DEF NoWL, WL
<1> QED BY <1>2, BlanksTyped DEF WIdle, WR, WPcs

LEMMA NameTyped ==
  ASSUME NEW w \in WL
  PROVE  ServiceName(w) \in Names
BY WorkloadAssumption DEF ServiceName, WL, Wish

LEMMA RecordKeeps ==
  ASSUME NEW app \in IA, NEW name \in Names \union {NoName}
  PROVE  /\ Record(app, name) \in IA
         /\ Record(app, name).uid = app.uid /\ Record(app, name).rv = app.rv
         /\ Record(app, name).status = app.status
         /\ Record(app, name).spec.langs = app.spec.langs
         /\ Record(app, name).spec.apps = app.spec.apps
<1>1. CASE app.spec.langs
  BY <1>1 DEF Record, IA, IASpec
<1>2. CASE ~app.spec.langs
  BY <1>2 DEF Record
<1> QED BY <1>1, <1>2

-----------------------------------------------------------------------------
(***************************************************************************)
(* The object under the workload controller's writes.                      *)
(***************************************************************************)

LEMMA MovesFromEffect ==
  ASSUME SameObject \/ NewVersion
  PROVE  Moves
BY DEF SameObject, NewVersion, Moves

LEMMA CopyStays ==
  ASSUME ia \in IA, ia' \in IA, NEW copy \in IA, Current(copy, ia), Moves
  PROVE  Current(copy, ia')
BY DEF Moves, Current, IA

LEMMA OwnCopy ==
  ASSUME NEW x \in IA, x.uid <= x.rv
  PROVE  Current(x, x)
BY DEF Current, IA

\* Another writer of the object writes what is reported, and no phase goes back.
LEMMA ObjectWritten ==
  ASSUME DetectionInv, UNCHANGED <<iaCache, pods, podCache, detection>>,
         ia' \in IA, iaFeed' \in SUBSET IA, faults' \in 0..MaxFaults,
         SameObject \/ (NewVersion /\ (NotYounger \/ ia'.uid = ia'.rv)),
         Reported(ia', pods)
  PROVE  DetectionInv'
<1>1. TypeOK /\ CopiesCurrent /\ ia \in IA /\ iaCache \in IA /\ Current(iaCache, ia)
  BY DEF DetectionInv, IInv, TypeOK, ClusterTypeOK, CopiesCurrent
<1>2. TypeOK'
  BY <1>1 DEF TypeOK, ClusterTypeOK, detection
<1>3. Current(iaCache', ia')
  BY <1>1, CopyKept
<1>4. SameOwners /\ dr' = dr
  BY DEF SameOwners, Born, detection
<1>5. IInv'
  BY <1>2, <1>3, <1>4, ForeignStep DEF DetectionInv
<1>6. SeenBorn'
  BY DEF DetectionInv, SeenBorn, Born, detection
<1>7. ReportInv'
  <2>1. iaFeed' \subseteq iaFeed \union {ia'}
    BY DEF SameObject, NewVersion
  <2>2. NothingReportedEarly' /\ WritesWhatItRead'
    BY DEF DetectionInv, ReportInv, NothingReportedEarly, WritesWhatItRead, detection
  <2>3. CopiesReported'
    BY <2>1 DEF DetectionInv, ReportInv, CopiesReported, detection
  <2> QED BY <2>2, <2>3 DEF ReportInv
<1> QED BY <1>5, <1>6, <1>7 DEF DetectionInv

\* A phase that stays, or is the first one, goes forward.
LEMMA PhaseForward ==
  ASSUME ia \in IA, ia' \in IA,
         ia'.uid = ia.uid => (ia'.status.phase = ia.status.phase \/ ia.status.phase = "")
  PROVE  Forward
<1>1. ia.status.phase \in Phases /\ ia'.status.phase \in Phases
  BY DEF IA, IAStatus
<1> QED BY <1>1, RankOrder, Zenon DEF Forward, NoPhase

-----------------------------------------------------------------------------
(***************************************************************************)
(* The workload under anybody's writes.                                    *)
(***************************************************************************)

\* The workload is as it was, or there is a new version.
WLMoves == (wl' = wl /\ wlFeed' = wlFeed) \/ (wl'.rv = wl.rv + 1 /\ wlFeed' = wlFeed \union {wl'})

LEMMA StoreWLEffect ==
  ASSUME wl \in WL, wlFeed \in SUBSET WL, NEW new \in WL, StoreWL(new)
  PROVE  /\ wl' \in WL /\ wlFeed' \in SUBSET WL /\ WLMoves
         /\ wl'.wish = new.wish /\ wl'.skip = new.skip /\ wl'.ready = new.ready
         /\ wl'.agent = new.agent /\ wl'.env = new.env
<1>1. CASE new = wl
  BY <1>1 DEF StoreWL, WLMoves
<1>2. CASE new # wl
  BY <1>2 DEF StoreWL, WLMoves, WL
<1> QED BY <1>1, <1>2

LEMMA UpdateWLEffect ==
  ASSUME wl \in WL, wlFeed \in SUBSET WL, faults \in 0..MaxFaults,
         NEW copy, NEW new \in WL, NEW reply, UpdateWL(copy, new, reply)
  PROVE  /\ wl' \in WL /\ wlFeed' \in SUBSET WL /\ WLMoves /\ faults' \in 0..MaxFaults
         /\ \/ wl' = wl /\ reply # "done"
            \/ /\ copy.rv = wl.rv
               /\ wl'.wish = new.wish /\ wl'.skip = new.skip /\ wl'.ready = new.ready
               /\ wl'.agent = new.agent /\ wl'.env = new.env
<1>1. CASE reply = "done" /\ copy.rv = wl.rv /\ StoreWL(new) /\ UNCHANGED faults
  BY <1>1, StoreWLEffect
<1>2. CASE reply = "conflict" /\ UNCHANGED <<wl, wlFeed, faults>>
  BY <1>2 DEF WLMoves
<1>3. CASE reply = "error" /\ Fails /\ UNCHANGED <<wl, wlFeed>>
  BY <1>3, FailsType DEF WLMoves
<1>4. CASE reply = "error" /\ Fails /\ copy.rv = wl.rv /\ StoreWL(new)
  BY <1>4, FailsType, StoreWLEffect
<1> QED BY <1>1, <1>2, <1>3, <1>4 DEF UpdateWL

\* A new version leaves every copy behind.
LEMMA TemplateStays ==
  ASSUME wl \in WL, NEW copy \in WL, CurrentWL(copy, wl), WLMoves
  PROVE  CurrentWL(copy, wl')
BY DEF WLMoves, CurrentWL, WL

LEMMA OwnTemplate ==
  ASSUME wl' \in WL
  PROVE  CurrentWL(wl', wl')
BY DEF CurrentWL, WL

\* The copies of the workload stay current and patched once, if the worker's is.
LEMMA TemplatesKept ==
  ASSUME ManagerInv, wl' \in WL, WLMoves, UNCHANGED wlCache, wl'.agent <= 1,
         Holding' => CurrentWL(wr'.wl, wl'), wr'.wl.agent <= 1
  PROVE  TemplatesCurrent' /\ CopiesPatchedOnce'
<1>1. wl \in WL /\ wlCache \in WL /\ wlFeed \in SUBSET WL
  BY DEF ManagerInv, WorkloadTypeOK
<1>2. CurrentWL(wlCache', wl')
  BY <1>1, TemplateStays DEF ManagerInv, TemplatesCurrent
<1>3. ASSUME NEW v \in wlFeed'
      PROVE  CurrentWL(v, wl') /\ v.agent <= 1
  <2>1. CASE v \in wlFeed
    BY <1>1, <2>1, TemplateStays DEF ManagerInv, TemplatesCurrent, CopiesPatchedOnce
  <2>2. CASE v = wl'
    BY <2>2, OwnTemplate
  <2> QED BY <2>1, <2>2 DEF WLMoves
<1> QED BY <1>2, <1>3 DEF TemplatesCurrent, CopiesPatchedOnce, ManagerInv

-----------------------------------------------------------------------------
(***************************************************************************)
(* The kinds of steps of the workload controller.                          *)
(***************************************************************************)

\* The worker at rest holds nothing.
LEMMA RestSound ==
  ASSUME wr' = WIdle
  PROVE  wr' \in WR /\ ~Listed' /\ ~Holding' /\ RecordSound' /\ wr'.wl.agent <= 1
BY IdleHolds, NoCopy, BlankReported DEF Listed, Holding, RecordSound

\* A step that only reads the cache.
LEMMA ReadsCache ==
  ASSUME ManagerInv, UNCHANGED <<cluster, detection, wl, wlCache, wlFeed, beside>>,
         wrQueued' \in BOOLEAN, wr' \in WR,
         wr'.wl \in {NoWL, wr.wl, wlCache}, wr'.ia \in {NoIA, wr.ia, iaCache},
         Holding' => wr'.wl = wlCache \/ (Holding /\ wr'.wl = wr.wl),
         wr'.pc # "pending", Listed' => ours # {}
  PROVE  ManagerInv' /\ Forward
<1>1. UNCHANGED <<ia, iaCache, iaFeed, pods, podCache, faults>>
  BY DEF cluster
<1>2. /\ ia \in IA /\ faults \in 0..MaxFaults /\ iaFeed \in SUBSET IA
      /\ Reported(ia, pods) /\ Reported(iaCache, pods) /\ Current(iaCache, ia)
  BY DEF ManagerInv, DetectionInv, IInv, TypeOK, ClusterTypeOK, ReportInv, CopiesReported,
         CopiesCurrent
<1>3. DetectionInv'
  <2>1. SameObject
    BY <1>1 DEF SameObject
  <2> QED BY <1>1, <1>2, <2>1, ObjectWritten DEF ManagerInv
<1>4. WorkloadTypeOK'
  BY DEF ManagerInv, WorkloadTypeOK, beside, WR
<1>5. TemplatesCurrent' /\ CopiesPatchedOnce'
  <2>1. wr'.wl.agent <= 1
    BY IdleHolds DEF ManagerInv, CopiesPatchedOnce
  <2>2. Holding' => CurrentWL(wr'.wl, wl')
    BY DEF ManagerInv, TemplatesCurrent
  <2> QED BY <2>1, <2>2 DEF ManagerInv, TemplatesCurrent, CopiesPatchedOnce
<1>6. RecordSound'
  <2>1. Current(wr'.ia, ia) /\ Reported(wr'.ia, pods)
    BY <1>2, NoCopy, BlankReported DEF ManagerInv, RecordSound
  <2> QED BY <1>1, <2>1 DEF RecordSound, beside
<1>7. Forward
  BY <1>1, <1>2, PhaseForward
<1> QED BY <1>3, <1>4, <1>5, <1>6, <1>7 DEF ManagerInv

\* A step that writes the object, and goes on with the server's answer or ends.
LEMMA WritesObject ==
  ASSUME ManagerInv, Listed, UNCHANGED <<iaCache, pods, podCache, detection>>,
         UNCHANGED <<wl, wlCache, wlFeed, wrQueued, beside>>,
         ia' \in IA, iaFeed' \in SUBSET IA, faults' \in 0..MaxFaults,
         SameObject \/ (NewVersion /\ NotYounger),
         Reported(ia', pods),
         ia'.uid = ia.uid => (ia'.status.phase = ia.status.phase \/ ia.status.phase = ""),
         \/ wr' = WIdle
         \/ /\ wr' \in WR /\ wr'.ia = ia' /\ wr'.wl = wr.wl /\ Holding /\ wr'.pc # "pending"
  PROVE  ManagerInv' /\ Forward
<1>1. ia \in IA /\ ia.uid <= ia.rv /\ ia.uid \in Nat /\ ia.rv \in Nat
  BY DEF ManagerInv, DetectionInv, IInv, TypeOK, ClusterTypeOK, CopiesCurrent, IA
<1>2. DetectionInv'
  BY ObjectWritten DEF ManagerInv
<1>3. Forward
  BY <1>1, PhaseForward
<1>4. CASE wr' = WIdle
  <2>1. WorkloadTypeOK'
    BY <1>4, RestSound DEF ManagerInv, WorkloadTypeOK, beside, WR
  <2>2. TemplatesCurrent' /\ CopiesPatchedOnce'
    BY <1>4, RestSound DEF ManagerInv, TemplatesCurrent, CopiesPatchedOnce
  <2> QED BY <1>2, <1>3, <1>4, <2>1, <2>2, RestSound DEF ManagerInv
<1>5. CASE wr' \in WR /\ wr'.ia = ia' /\ wr'.wl = wr.wl /\ Holding /\ wr'.pc # "pending"
  <2>1. WorkloadTypeOK'
    BY <1>5 DEF ManagerInv, WorkloadTypeOK, beside, WR
  <2>2. TemplatesCurrent' /\ CopiesPatchedOnce'
    BY <1>5 DEF ManagerInv, TemplatesCurrent, CopiesPatchedOnce
  <2>3. Current(ia', ia')
    <3>1. ia'.uid <= ia'.rv
      BY <1>1 DEF SameObject, NewVersion
    <3> QED BY <3>1, OwnCopy
  <2>4. RecordSound'
    BY <1>5, <2>3 DEF ManagerInv, RecordSound, beside
  <2> QED BY <1>2, <1>3, <2>1, <2>2, <2>4 DEF ManagerInv
<1> QED BY <1>4, <1>5

\* What an accepted write of the copy in hand comes to.
ObjectStep ==
  /\ ia' \in IA /\ iaFeed' \in SUBSET IA /\ faults' \in 0..MaxFaults
  /\ SameObject \/ (NewVersion /\ NotYounger)
  /\ Reported(ia', pods)
  /\ ia'.uid = ia.uid => (ia'.status.phase = ia.status.phase \/ ia.status.phase = "")

LEMMA HeldTyped ==
  ASSUME ManagerInv
  PROVE  /\ ia \in IA /\ iaFeed \in SUBSET IA /\ faults \in 0..MaxFaults
         /\ ia.uid <= ia.rv /\ Reported(ia, pods)
         /\ wr \in WR /\ wr.ia \in IA /\ wr.wl \in WL
         /\ Current(wr.ia, ia) /\ Reported(wr.ia, pods)
         /\ iaCache \in IA /\ wl \in WL /\ wlCache \in WL /\ wlFeed \in SUBSET WL
         /\ pods \in [Pods -> Pod]
BY DEF ManagerInv, DetectionInv, IInv, TypeOK, ClusterTypeOK, CopiesCurrent, ReportInv,
       CopiesReported, WorkloadTypeOK, WR, RecordSound

LEMMA VersionAdded ==
  ASSUME ia \in IA, ia.uid <= ia.rv, ia'.rv = ia.rv + 1, ia'.uid = ia.uid,
         iaFeed' = iaFeed \union {ia'}
  PROVE  NewVersion
BY DEF NewVersion, IA

LEMMA StatusWritten ==
  ASSUME ManagerInv, NEW status \in IAStatus, NEW reply, UpdateStatus(wr.ia, status, reply),
         \/ status.phase = wr.ia.status.phase
         \/ wr.ia.status.phase = "" /\ status.phase = "Pending"
  PROVE  ObjectStep
<1>1. /\ ia' \in IA /\ iaFeed' \in SUBSET IA /\ faults' \in 0..MaxFaults
      /\ \/ ia' = ia /\ iaFeed' = iaFeed
         \/ /\ Matches(wr.ia)
            /\ ia'.rv = ia.rv + 1
            /\ ia'.uid = ia.uid /\ ia'.spec = ia.spec /\ ia'.status = status
            /\ iaFeed' = iaFeed \union {ia'}
  BY HeldTyped, UpdateStatusEffect
<1>2. CASE ia' = ia /\ iaFeed' = iaFeed
  BY <1>1, <1>2, HeldTyped DEF ObjectStep, SameObject
<1>3. CASE /\ Matches(wr.ia)
           /\ ia'.rv = ia.rv + 1
           /\ ia'.uid = ia.uid /\ ia'.spec = ia.spec /\ ia'.status = status
           /\ iaFeed' = iaFeed \union {ia'}
  <2>1. wr.ia.status = ia.status
    BY <1>3, HeldTyped DEF Matches, Current
  <2>2. \/ ia'.status.phase = ia.status.phase
        \/ ia.status.phase = "" /\ ia'.status.phase = "Pending"
    BY <1>3, <2>1
  <2>3. Reported(ia', pods)
    BY <1>3, <2>2, HeldTyped DEF Reported
  <2>4. NotYounger
    BY <1>3, <2>2 DEF NotYounger, Early
  <2>5. NewVersion
    BY <1>3, HeldTyped, VersionAdded
  <2> QED BY <1>1, <2>2, <2>3, <2>4, <2>5 DEF ObjectStep
<1> QED BY <1>1, <1>2, <1>3

LEMMA SpecWritten ==
  ASSUME ManagerInv, NEW spec \in IASpec, NEW reply, UpdateSpec(wr.ia, spec, reply),
         spec.langs = wr.ia.spec.langs, spec.apps = wr.ia.spec.apps
  PROVE  ObjectStep
<1>1. /\ ia' \in IA /\ iaFeed' \in SUBSET IA /\ faults' \in 0..MaxFaults
      /\ ia'.uid = ia.uid /\ ia'.status = ia.status
      /\ \/ ia' = ia /\ iaFeed' = iaFeed
         \/ /\ ia'.rv = ia.rv + 1 /\ ia'.spec = spec
            /\ iaFeed' = iaFeed \union {ia'}
  <2>1. ia \in IA /\ iaFeed \in SUBSET IA /\ faults \in 0..MaxFaults
    BY HeldTyped
  <2> DEFINE copy == wr.ia
  <2>2. UpdateSpec(copy, spec, reply)
    OBVIOUS
  <2> HIDE DEF copy
  <2> QED BY <2>1, <2>2, UpdateSpecEffect
<1>2. CASE ia' = ia /\ iaFeed' = iaFeed
  BY <1>1, <1>2, HeldTyped DEF ObjectStep, SameObject
<1>3. CASE ia'.rv = ia.rv + 1 /\ ia'.spec = spec /\ iaFeed' = iaFeed \union {ia'}
  <2>1. Reported(ia', pods)
    BY <1>1, <1>3, HeldTyped DEF Reported
  <2>2. NotYounger
    BY <1>1 DEF NotYounger, Early
  <2>3. NewVersion
    BY <1>1, <1>3, HeldTyped, VersionAdded
  <2> QED BY <1>1, <2>1, <2>2, <2>3 DEF ObjectStep
<1> QED BY <1>1, <1>2, <1>3

\* The places from which the object is written, and those where that leads.
Apart == {"idle", "sync", "createIA", "pending"}

LEMMA PutsObject ==
  ASSUME ManagerInv, NEW pc \in WPcs \ Apart, At(pc), NEW next \in WPcs \ Apart, NEW reply,
         ObjectStep, UNCHANGED <<iaCache, pods, podCache, detection>>,
         UNCHANGED <<wl, wlCache, wlFeed, wrQueued, beside>>,
         IF reply = "done" THEN wr' = [wr EXCEPT !.pc = next, !.ia = ia'] ELSE WReturn
  PROVE  ManagerInv' /\ Forward
<1>1. Listed /\ Holding
  BY DEF Listed, Holding, At, Apart
<1>2. CASE WReturn
  BY <1>1, <1>2, WritesObject DEF WReturn, ObjectStep
<1>3. CASE wr' = [wr EXCEPT !.pc = next, !.ia = ia']
  <2>1. /\ wr' \in WR /\ wr'.ia = ia' /\ wr'.wl = wr.wl /\ wr'.pc = next
    BY <1>3, HeldTyped DEF WR, ObjectStep
  <2>2. Holding' /\ wr'.pc # "pending"
    BY <2>1 DEF Holding, Listed, Apart
  <2>3. Holding'
    BY <2>2
  <2> QED BY <1>1, <2>1, <2>2, WritesObject DEF ObjectStep
<1> QED BY <1>2, <1>3

LEMMA PutsStatus ==
  ASSUME ManagerInv, NEW pc \in WPcs \ Apart, NEW next \in WPcs \ Apart, NEW status \in IAStatus,
         WPutStatus(pc, status, next), UNCHANGED detection, status.phase = wr.ia.status.phase
  PROVE  ManagerInv' /\ Forward
<1>1. PICK reply \in Replies :
        /\ UpdateStatus(wr.ia, status, reply)
        /\ IF reply = "done" THEN wr' = [wr EXCEPT !.pc = next, !.ia = ia'] ELSE WReturn
  BY DEF WPutStatus
<1>2. ObjectStep
  BY <1>1, StatusWritten
<1>3. At(pc) /\ UNCHANGED <<iaCache, pods, podCache, wl, wlCache, wlFeed, wrQueued, beside>>
  BY DEF WPutStatus
<1> QED BY <1>1, <1>2, <1>3, PutsObject

LEMMA PutsSpec ==
  ASSUME ManagerInv, NEW pc \in WPcs \ Apart, NEW next \in WPcs \ Apart, NEW spec \in IASpec,
         WPutSpec(pc, spec, next), UNCHANGED detection,
         spec.langs = wr.ia.spec.langs, spec.apps = wr.ia.spec.apps
  PROVE  ManagerInv' /\ Forward
<1>1. PICK reply \in Replies :
        /\ UpdateSpec(wr.ia, spec, reply)
        /\ IF reply = "done" THEN wr' = [wr EXCEPT !.pc = next, !.ia = ia'] ELSE WReturn
  BY DEF WPutSpec
<1>2. ObjectStep
  BY <1>1, SpecWritten
<1>3. At(pc) /\ UNCHANGED <<iaCache, pods, podCache, wl, wlCache, wlFeed, wrQueued, beside>>
  BY DEF WPutSpec
<1> QED BY <1>1, <1>2, <1>3, PutsObject

-----------------------------------------------------------------------------
(***************************************************************************)
(* The workload controller, action by action.                              *)
(***************************************************************************)

\* The writes of the object in hand.
LEMMA PutsInv ==
  ASSUME ManagerInv, UNCHANGED detection,
         \/ WPutLogType \/ WInstrumentStatus \/ WPutActive \/ WPutTraces \/ WPutName
         \/ WRollbackStatus \/ WPutNoActive \/ WPutNoTraces
  PROVE  ManagerInv' /\ Forward
<1>1. wr.ia \in IA /\ wr.wl \in WL /\ wr.ia.spec \in IASpec /\ wr.ia.status \in IAStatus
  BY HeldTyped DEF IA
<1>2. \A w : Branch(w) \in WPcs \ Apart /\ Rest(w) \in WPcs \ Apart
  BY DEF Branch, Rest, WPcs, Apart
<1>3. ASSUME NEW b \in BOOLEAN
      PROVE  LET s == [wr.ia.status EXCEPT !.traces = b]
             IN s \in IAStatus /\ s.phase = wr.ia.status.phase
  BY <1>1 DEF IAStatus
<1>4. CASE WPutLogType
  <2> DEFINE spec == [wr.ia.spec EXCEPT !.logType = wr.wl.wish.logType]
  <2>1. spec \in IASpec /\ spec.langs = wr.ia.spec.langs /\ spec.apps = wr.ia.spec.apps
    BY <1>1 DEF IASpec, WL, Wish
  <2>2. WPutSpec("putLogType", spec, Branch(wr.wl))
    BY <1>4 DEF WPutLogType
  <2> HIDE DEF spec
  <2>3. "putLogType" \in WPcs \ Apart
    BY DEF WPcs, Apart
  <2> QED BY <1>2, <2>1, <2>2, <2>3, PutsSpec
<1>5. CASE WPutActive \/ WPutName \/ WPutNoActive
  <2>1. \E pc, next \in {"putActive", "putTraces", "putName", "rollback", "apps",
                         "putNoActive", "putNoTraces"} :
          WPutSpec(pc, wr.ia.spec, next)
    BY <1>5 DEF WPutActive, WPutName, WPutNoActive, Rest
  <2>2. {"putActive", "putTraces", "putName", "rollback", "apps", "putNoActive", "putNoTraces"}
          \subseteq WPcs \ Apart
    BY DEF WPcs, Apart
  <2> QED BY <1>1, <2>1, <2>2, PutsSpec
<1>6. CASE WInstrumentStatus \/ WRollbackStatus \/ WPutTraces \/ WPutNoTraces
  <2>1. \E pc, next \in {"instrumentStatus", "patch", "rollbackStatus", "unpatch", "putTraces",
                         "rollback", "apps", "putNoTraces"}, b \in BOOLEAN :
          WPutStatus(pc, [wr.ia.status EXCEPT !.traces = b], next)
    <3>1. IsTracesInstrumented(wr.wl, wr.ia) \in BOOLEAN
      BY DEF IsTracesInstrumented
    <3> QED BY <1>6, <3>1 DEF WInstrumentStatus, WRollbackStatus, PutInstrumented, WPutTraces,
                              WPutNoTraces, Rest
  <2>2. {"instrumentStatus", "patch", "rollbackStatus", "unpatch", "putTraces",
         "rollback", "apps", "putNoTraces"} \subseteq WPcs \ Apart
    BY DEF WPcs, Apart
  <2>3. PICK pc \in WPcs \ Apart, next \in WPcs \ Apart, b \in BOOLEAN :
          WPutStatus(pc, [wr.ia.status EXCEPT !.traces = b], next)
    BY <2>1, <2>2
  <2> DEFINE status == [wr.ia.status EXCEPT !.traces = b]
  <2>4. status \in IAStatus /\ status.phase = wr.ia.status.phase
    BY <1>3
  <2>5. WPutStatus(pc, status, next)
    BY <2>3
  <2> HIDE DEF status
  <2> QED BY <2>4, <2>5, PutsStatus
<1> QED BY <1>4, <1>5, <1>6

\* The steps that call nothing but the cache.
LEMMA LocalInv ==
  ASSUME ManagerInv, UNCHANGED detection,
         \/ WBegin \/ WSync \/ WLogType \/ WInstrument \/ WRollback \/ WNothingToUnpatch \/ WApps
  PROVE  ManagerInv' /\ Forward
<1>1. /\ wr \in WR /\ wr.ia \in IA /\ wr.wl \in WL
      /\ iaCache \in IA /\ wlCache \in WL /\ wrQueued \in BOOLEAN
  BY HeldTyped DEF ManagerInv, WorkloadTypeOK
<1>2. ASSUME UNCHANGED <<cluster, wl, wlCache, wlFeed, beside>>, wrQueued' \in BOOLEAN, WReturn
      PROVE  ManagerInv' /\ Forward
  BY <1>2, IdleHolds, RestSound, ReadsCache DEF WReturn
<1>3. ASSUME Local, NEW pc \in WPcs \ Apart, NEW w \in WL, NEW app \in IA,
             w \in {wr.wl, wlCache}, app \in {wr.ia, iaCache}, w = wlCache \/ Holding, ours # {},
             wr' = [wr EXCEPT !.pc = pc, !.wl = w, !.ia = app]
      PROVE  ManagerInv' /\ Forward
  <2>1. wr' \in WR /\ wr'.pc = pc /\ wr'.wl = w /\ wr'.ia = app
    BY <1>1, <1>3 DEF WR
  <2>2. UNCHANGED <<cluster, wl, wlCache, wlFeed, beside>> /\ wrQueued' = wrQueued
    BY <1>3 DEF Local
  <2>3. wr'.pc # "pending"
    BY <2>1 DEF Apart
  <2> QED BY <1>1, <1>3, <2>1, <2>2, <2>3, ReadsCache
<1>4. ASSUME Local, NEW pc \in WPcs \ Apart, Holding, wr' = [wr EXCEPT !.pc = pc]
      PROVE  ManagerInv' /\ Forward
  <2>1. wr' = [wr EXCEPT !.pc = pc, !.wl = wr.wl, !.ia = wr.ia]
    BY <1>1, <1>4 DEF WR
  <2>2. ours # {}
    BY <1>4 DEF Holding, ManagerInv, RecordSound
  <2> QED BY <1>1, <1>3, <1>4, <2>1, <2>2
<1>5. ASSUME NEW pc \in WPcs \ Apart, At(pc)
      PROVE  Holding /\ ours # {}
  BY <1>5 DEF At, Apart, Holding, Listed, ManagerInv, RecordSound
<1>6. \A w : Branch(w) \in WPcs \ Apart
  BY DEF Branch, WPcs, Apart
<1>7. {"logType", "putLogType", "instrument", "rollback", "instrumentStatus", "rollbackStatus",
       "patch", "unpatch", "apps", "putDetected"} \subseteq WPcs \ Apart
  BY DEF WPcs, Apart
<1>8. CASE WBegin
  <2>1. UNCHANGED <<cluster, wl, wlCache, wlFeed, beside>> /\ wrQueued' \in BOOLEAN
    BY <1>8 DEF WBegin
  <2>2. CASE wr' = [WIdle EXCEPT !.pc = "sync", !.ready = wlCache.ready]
    <3>1. wr' \in WR /\ wr'.pc = "sync" /\ wr'.wl = NoWL /\ wr'.ia = NoIA
      BY <1>1, <2>2, IdleHolds DEF WR, WPcs, WL
    <3> QED BY <2>1, <3>1, ReadsCache DEF Holding, Listed
  <2> QED BY <1>2, <1>8, <2>1, <2>2 DEF WBegin
<1>9. CASE WSync
  <2>1. Local /\ UNCHANGED <<cluster, wl, wlCache, wlFeed, beside>> /\ wrQueued' \in BOOLEAN
    BY <1>1, <1>9 DEF WSync, Local
  <2>2. CASE wr' = [wr EXCEPT !.pc = "createIA"]
    <3>1. wr' \in WR /\ wr'.pc = "createIA" /\ wr'.wl = wr.wl /\ wr'.ia = wr.ia
      BY <1>1, <2>2 DEF WR, WPcs
    <3> QED BY <2>1, <3>1, ReadsCache DEF Holding, Listed
  <2>3. CASE Found(iaCache) /\ wr' = [wr EXCEPT !.pc = "logType", !.wl = wlCache]
    <3>1. wr' = [wr EXCEPT !.pc = "logType", !.wl = wlCache, !.ia = wr.ia]
      BY <1>1, <2>3 DEF WR
    <3>2. ours # {}
      BY <2>3 DEF Found
    <3> QED BY <1>1, <1>3, <1>7, <2>1, <3>1, <3>2
  <2> QED BY <1>2, <1>9, <2>1, <2>2, <2>3 DEF WSync
<1>10. CASE WLogType
  <2>1. Local /\ UNCHANGED <<cluster, wl, wlCache, wlFeed, beside>> /\ wrQueued' \in BOOLEAN
    BY <1>1, <1>10 DEF WLogType, Local
  <2>2. Holding /\ ours # {}
    BY <1>5, <1>7, <1>10 DEF WLogType
  <2>3. ASSUME NEW pc \in WPcs \ Apart, wr' = [wr EXCEPT !.pc = pc, !.ia = iaCache]
        PROVE  ManagerInv' /\ Forward
    <3>1. wr' = [wr EXCEPT !.pc = pc, !.wl = wr.wl, !.ia = iaCache]
      BY <1>1, <2>3 DEF WR
    <3> QED BY <1>1, <1>3, <2>1, <2>2, <2>3, <3>1
  <2> QED BY <1>2, <1>6, <1>7, <1>10, <2>1, <2>3 DEF WLogType
<1>11. CASE WInstrument \/ WRollback
  <2>1. PICK pc, statusPc, patchPc \in WPcs \ Apart : Reread(pc, statusPc, patchPc)
    BY <1>7, <1>11 DEF WInstrument, WRollback
  <2>2. Local /\ UNCHANGED <<cluster, wl, wlCache, wlFeed, beside>> /\ wrQueued' \in BOOLEAN /\ At(pc)
    BY <1>1, <2>1 DEF Reread, Local
  <2>3. ours # {}
    BY <1>5, <2>2
  <2>4. \/ WReturn
        \/ \E next \in WPcs \ Apart : wr' = [wr EXCEPT !.wl = wlCache, !.ia = iaCache, !.pc = next]
    BY <2>1 DEF Reread
  <2>5. ASSUME NEW next \in WPcs \ Apart, wr' = [wr EXCEPT !.wl = wlCache, !.ia = iaCache, !.pc = next]
        PROVE  ManagerInv' /\ Forward
    <3>1. wr' = [wr EXCEPT !.pc = next, !.wl = wlCache, !.ia = iaCache]
      BY <1>1, <2>5 DEF WR
    <3> QED BY <1>1, <1>3, <2>2, <2>3, <3>1
  <2> QED BY <1>2, <2>2, <2>4, <2>5
<1>12. CASE WNothingToUnpatch
  BY <1>4, <1>5, <1>7, <1>12 DEF WNothingToUnpatch
<1>13. CASE WApps
  <2>1. Local /\ UNCHANGED <<cluster, wl, wlCache, wlFeed, beside>> /\ wrQueued' \in BOOLEAN
    BY <1>1, <1>13 DEF WApps, Local
  <2>2. Holding /\ ours # {}
    BY <1>5, <1>7, <1>13 DEF WApps
  <2>3. ASSUME NEW app \in {wr.ia, iaCache}, wr' = [wr EXCEPT !.pc = "putDetected", !.ia = app]
        PROVE  ManagerInv' /\ Forward
    <3>1. wr' = [wr EXCEPT !.pc = "putDetected", !.wl = wr.wl, !.ia = app]
      BY <1>1, <2>3 DEF WR
    <3> QED BY <1>1, <1>3, <1>7, <2>1, <2>2, <3>1
  <2> QED BY <1>2, <1>13, <2>1, <2>3 DEF WApps
<1> QED BY <1>8, <1>9, <1>10, <1>11, <1>12, <1>13

\* A fresh object is the worker's own, and has nothing in it.
LEMMA CreateIAEffect ==
  ASSUME ia \in IA, iaFeed \in SUBSET IA, faults \in 0..MaxFaults, NEW reply, CreateIA(reply)
  PROVE  /\ ia' \in IA /\ iaFeed' \in SUBSET IA /\ faults' \in 0..MaxFaults
         /\ \/ SameObject /\ ia' = ia /\ reply # "done"
            \/ /\ ia.uid = 0 /\ NewVersion
               /\ ia'.uid = ia.rv + 1 /\ ia'.rv = ia.rv + 1
               /\ ia'.spec = BlankSpec /\ ia'.status = BlankStatus
<1>1. ASSUME ia.uid = 0, Store(NewIA)
      PROVE  /\ ia' \in IA /\ iaFeed' \in SUBSET IA /\ NewVersion
             /\ ia'.uid = ia.rv + 1 /\ ia'.rv = ia.rv + 1
             /\ ia'.spec = BlankSpec /\ ia'.status = BlankStatus
  <2>1. /\ NewIA \in IA /\ NewIA.uid = ia.rv + 1
        /\ NewIA.spec = BlankSpec /\ NewIA.status = BlankStatus /\ ia.rv \in Nat
    BY BlanksTyped DEF NewIA, IA
  <2>2. NewIA # ia
    BY <1>1, <2>1
  <2>3. /\ ia' \in IA /\ iaFeed' \in SUBSET IA
        /\ ia'.rv = ia.rv + 1 /\ ia'.uid = NewIA.uid
        /\ ia'.spec = NewIA.spec /\ ia'.status = NewIA.status
        /\ iaFeed' = iaFeed \union {ia'}
    BY <1>1, <2>1, <2>2, StoreEffect
  <2> QED BY <2>1, <2>3 DEF NewVersion
<1> QED BY <1>1, FailsType DEF CreateIA, SameObject

LEMMA CreateInHand ==
  ASSUME ManagerInv, UNCHANGED detection, WCreate
  PROVE  ManagerInv' /\ Forward
<1>1. PICK reply \in {"done", "error"} :
        /\ CreateIA(reply)
        /\ IF reply = "done" THEN wr' = [wr EXCEPT !.pc = "pending", !.ia = ia'] ELSE WReturn
  BY DEF WCreate
<1>2. /\ UNCHANGED <<iaCache, pods, podCache, wl, wlCache, wlFeed, wrQueued, edits, upsets>>
      /\ ours' = IF ia' = ia THEN ours ELSE ours \union {ia'.uid}
  BY DEF WCreate
<1>3. /\ ia \in IA /\ iaFeed \in SUBSET IA /\ faults \in 0..MaxFaults /\ wr \in WR
      /\ ia.uid <= ia.rv /\ ia.rv \in Nat
  BY HeldTyped DEF IA
<1>4. /\ ia' \in IA /\ iaFeed' \in SUBSET IA /\ faults' \in 0..MaxFaults
      /\ \/ SameObject /\ ia' = ia /\ reply # "done"
         \/ /\ ia.uid = 0 /\ NewVersion
            /\ ia'.uid = ia.rv + 1 /\ ia'.rv = ia.rv + 1
            /\ ia'.spec = BlankSpec /\ ia'.status = BlankStatus
  BY <1>1, <1>3, CreateIAEffect
<1>5. /\ BlankSpec.langs = FALSE /\ BlankSpec.apps = FALSE /\ BlankStatus.phase = ""
  BY DEF BlankSpec, BlankStatus
<1>6. Reported(ia', pods)
  <2>1. CASE ia' = ia
    BY <2>1, HeldTyped
  <2>2. CASE ia'.spec = BlankSpec /\ ia'.status = BlankStatus
    BY <1>5, <2>2 DEF Reported
  <2> QED BY <1>4, <2>1, <2>2
<1>7. DetectionInv'
  BY <1>2, <1>4, <1>6, ObjectWritten DEF ManagerInv
<1>8. Forward
  <2>1. ia'.uid = ia.uid => ia'.status.phase = ia.status.phase
    BY <1>3, <1>4
  <2> QED BY <1>3, <1>4, <2>1, PhaseForward
<1>9. ours' \in SUBSET Nat
  <2>1. ia'.uid \in Nat /\ ours \in SUBSET Nat
    BY <1>4 DEF ManagerInv, WorkloadTypeOK, IA
  <2> QED BY <1>2, <2>1
<1>10. CASE WReturn
  <2>1. wr' \in WR /\ ~Holding' /\ RecordSound' /\ wr'.wl.agent <= 1
    BY <1>10, RestSound DEF WReturn
  <2>2. WorkloadTypeOK'
    BY <1>2, <1>9, <2>1 DEF ManagerInv, WorkloadTypeOK, WR
  <2>3. TemplatesCurrent' /\ CopiesPatchedOnce'
    BY <1>2, <2>1 DEF ManagerInv, TemplatesCurrent, CopiesPatchedOnce
  <2> QED BY <1>7, <1>8, <2>1, <2>2, <2>3 DEF ManagerInv
<1>11. CASE reply = "done" /\ wr' = [wr EXCEPT !.pc = "pending", !.ia = ia']
  <2>1. wr' \in WR /\ wr'.pc = "pending" /\ wr'.ia = ia' /\ wr'.wl = wr.wl
    BY <1>3, <1>4, <1>11 DEF WR, WPcs
  <2>2. ~Holding'
    BY <2>1 DEF Holding
  <2>3. WorkloadTypeOK'
    BY <1>2, <1>9, <2>1 DEF ManagerInv, WorkloadTypeOK, WR
  <2>4. TemplatesCurrent' /\ CopiesPatchedOnce'
    BY <1>2, <2>1, <2>2 DEF ManagerInv, TemplatesCurrent, CopiesPatchedOnce
  <2>5. ia'.uid # 0 /\ ia'.status.phase = "" /\ ours' # {} /\ Current(ia', ia')
    <3>1. /\ ia'.uid = ia.rv + 1 /\ ia'.rv = ia.rv + 1 /\ ia'.status.phase = "" /\ ia.uid = 0
      BY <1>4, <1>5, <1>11
    <3>2. ia.rv + 1 # 0 /\ ia.rv + 1 <= ia.rv + 1
      BY <1>3
    <3>3. ia'.uid # 0 /\ ia' # ia /\ ia'.uid <= ia'.rv
      BY <3>1, <3>2
    <3> QED BY <1>2, <1>4, <3>1, <3>3, OwnCopy
  <2>6. RecordSound'
    BY <1>2, <1>6, <2>1, <2>5 DEF RecordSound
  <2> QED BY <1>7, <1>8, <2>3, <2>4, <2>6 DEF ManagerInv
<1> QED BY <1>1, <1>10, <1>11

\* The last writes of a reconcile.
LEMMA LastWriteInv ==
  ASSUME ManagerInv, UNCHANGED detection, WPending \/ WPutDetected
  PROVE  ManagerInv' /\ Forward
<1>1. Listed /\ WReturn
      /\ UNCHANGED <<iaCache, pods, podCache, wl, wlCache, wlFeed, wrQueued, beside>>
  BY DEF WPending, WPutDetected, At, Listed
<1>2. CASE WPending
  <2> DEFINE status == [BlankStatus EXCEPT !.phase = "Pending"]
  <2>1. status \in IAStatus /\ status.phase = "Pending"
    BY DEF BlankStatus, IAStatus, Phases
  <2>2. PICK reply \in Replies : UpdateStatus(wr.ia, status, reply)
    BY <1>2 DEF WPending
  <2>3. wr.ia.status.phase = ""
    BY <1>2 DEF WPending, At, ManagerInv, RecordSound
  <2> HIDE DEF status
  <2>4. ObjectStep
    BY <2>1, <2>2, <2>3, StatusWritten
  <2> QED BY <1>1, <2>4, WritesObject DEF ObjectStep, WReturn
<1>3. CASE WPutDetected
  <2> DEFINE status == [wr.ia.status EXCEPT !.detected = TRUE]
  <2>1. status \in IAStatus /\ status.phase = wr.ia.status.phase
    BY HeldTyped DEF IA, IAStatus
  <2>2. PICK reply \in Replies : UpdateStatus(wr.ia, status, reply)
    BY <1>3 DEF WPutDetected
  <2> HIDE DEF status
  <2>3. ObjectStep
    BY <2>1, <2>2, StatusWritten
  <2> QED BY <1>1, <2>3, WritesObject DEF ObjectStep, WReturn
<1> QED BY <1>2, <1>3

-----------------------------------------------------------------------------
(***************************************************************************)
(* The template under the workload controller's writes.                    *)
(***************************************************************************)

\* What any step may do to the template: the manager patches, renames, takes the
\* agent out under the annotation that asks for it, or writes what was there; the
\* owner edits the template, or puts another in its place.
LangsFound == \E p \in Pods : FindsLangs(pods[p].outcome)

AgentKept == wl'.agent = wl.agent /\ wl'.env = wl.env

AgentGone == wl'.agent = 0 /\ wl'.env = NoName

AgentPut == wl.agent = 0 /\ wl'.agent = 1 /\ wl'.env = ServiceName(wl)

AgentRenamed == wl.agent = 1 /\ wl'.agent = 1 /\ wl'.env = ServiceName(wl)

ManagerWrites ==
  /\ wr' # wr
  /\ wl'.wish = wl.wish /\ wl'.skip = wl.skip /\ wl'.ready = wl.ready
  /\ \/ AgentPut /\ LangsFound /\ wr.pc = "patch"
     \/ AgentRenamed
     \/ AgentGone /\ wl.wish.ask = "rollback"
     \/ AgentKept

OwnerWrites == wr' = wr /\ (AgentKept \/ AgentGone)

TemplateStep == wl' = wl \/ (UNCHANGED pods /\ (ManagerWrites \/ OwnerWrites))

LEMMA ModifyKeeps ==
  ASSUME NEW w \in WL, NEW app, app.spec.langs
  PROVE  /\ ModifyObject(w, app) \in WL
         /\ ModifyObject(w, app).wish = w.wish /\ ModifyObject(w, app).skip = w.skip
         /\ ModifyObject(w, app).ready = w.ready /\ ModifyObject(w, app).agent = w.agent + 1
         /\ ModifyObject(w, app).env = ServiceName(w)
<1>1. ServiceName(w) \in Names
  BY NameTyped
<1> DEFINE name == ServiceName(w)
           count == w.agent + 1
<1>2. count \in Nat /\ name \in Names
  BY <1>1 DEF WL
<1>3. ModifyObject(w, app) = [w EXCEPT !.agent = count, !.env = name]
  BY DEF ModifyObject, WL
<1> HIDE DEF name, count
<1>4. /\ ModifyObject(w, app) \in WL
      /\ ModifyObject(w, app).wish = w.wish /\ ModifyObject(w, app).skip = w.skip
      /\ ModifyObject(w, app).ready = w.ready /\ ModifyObject(w, app).agent = count
      /\ ModifyObject(w, app).env = name
  BY <1>2, <1>3 DEF WL
<1> QED BY <1>4 DEF count, name

LEMMA RollbackKeeps ==
  ASSUME NEW w \in WL, NEW app
  PROVE  LET new == RollbackPatch(w, app)
         IN /\ new \in WL /\ new.wish = w.wish /\ new.skip = w.skip /\ new.ready = w.ready
            /\ \/ new.agent = w.agent /\ new.env = w.env
               \/ new.agent = 0 /\ new.env = NoName
<1>1. CASE app.spec.langs
  <2> DEFINE new == [w EXCEPT !.agent = 0, !.env = NoName]
  <2>1. /\ new \in WL /\ new.wish = w.wish /\ new.skip = w.skip /\ new.ready = w.ready
        /\ new.agent = 0 /\ new.env = NoName
    BY DEF WL
  <2>2. new = RollbackPatch(w, app)
    BY <1>1 DEF RollbackPatch
  <2> HIDE DEF new
  <2> QED BY <2>1, <2>2
<1>2. CASE ~app.spec.langs
  BY <1>2 DEF RollbackPatch, WL
<1> QED BY <1>1, <1>2

\* A write that is accepted starts at the template stored.
LEMMA WritesTemplate ==
  ASSUME ManagerInv, Holding,
         UNCHANGED <<ia, iaCache, iaFeed, pods, podCache, detection, wlCache, wrQueued, beside>>,
         NEW new \in WL, new.agent <= 1, NEW reply, UpdateWL(wr.wl, new, reply),
         NEW app \in IA, app.uid = wr.ia.uid, app.rv = wr.ia.rv, app.status = wr.ia.status,
         app.spec.langs = wr.ia.spec.langs, app.spec.apps = wr.ia.spec.apps,
         NEW pc \in WPcs \ Apart, pc # wr.pc,
         IF reply = "done" THEN wr' = [wr EXCEPT !.wl = wl', !.ia = app, !.pc = pc] ELSE WReturn
  PROVE  /\ ManagerInv' /\ Forward /\ wr' # wr
         /\ \/ wl' = wl
            \/ /\ wr.wl = wl
               /\ wl'.wish = new.wish /\ wl'.skip = new.skip /\ wl'.ready = new.ready
               /\ wl'.agent = new.agent /\ wl'.env = new.env
<1>1. /\ wl' \in WL /\ wlFeed' \in SUBSET WL /\ WLMoves /\ faults' \in 0..MaxFaults
      /\ \/ wl' = wl /\ reply # "done"
         \/ /\ wr.wl.rv = wl.rv
            /\ wl'.wish = new.wish /\ wl'.skip = new.skip /\ wl'.ready = new.ready
            /\ wl'.agent = new.agent /\ wl'.env = new.env
  <2> DEFINE copy == wr.wl
  <2>1. UpdateWL(copy, new, reply) /\ wl \in WL /\ wlFeed \in SUBSET WL /\ faults \in 0..MaxFaults
    BY HeldTyped
  <2> HIDE DEF copy
  <2>2. /\ wl' \in WL /\ wlFeed' \in SUBSET WL /\ WLMoves /\ faults' \in 0..MaxFaults
        /\ \/ wl' = wl /\ reply # "done"
           \/ /\ copy.rv = wl.rv
              /\ wl'.wish = new.wish /\ wl'.skip = new.skip /\ wl'.ready = new.ready
              /\ wl'.agent = new.agent /\ wl'.env = new.env
    BY <2>1, UpdateWLEffect
  <2> QED BY <2>2 DEF copy
<1>2. \/ wl' = wl
      \/ /\ wr.wl = wl
         /\ wl'.wish = new.wish /\ wl'.skip = new.skip /\ wl'.ready = new.ready
         /\ wl'.agent = new.agent /\ wl'.env = new.env
  BY <1>1 DEF ManagerInv, TemplatesCurrent, CurrentWL
<1>3. wl'.agent <= 1
  BY <1>2 DEF ManagerInv, CopiesPatchedOnce
<1>4. DetectionInv'
  <2>1. SameObject
    BY DEF SameObject
  <2> QED BY <1>1, <2>1, HeldTyped, ObjectWritten DEF ManagerInv
<1>5. Forward
  BY HeldTyped, PhaseForward
<1>6. CASE WReturn
  <2>1. wr' \in WR /\ ~Holding' /\ RecordSound' /\ wr'.wl.agent <= 1
    BY <1>6, RestSound DEF WReturn
  <2>2. WorkloadTypeOK'
    BY <1>1, <2>1 DEF ManagerInv, WorkloadTypeOK, WR, beside
  <2>3. TemplatesCurrent' /\ CopiesPatchedOnce'
    BY <1>1, <1>3, <2>1, TemplatesKept
  <2>4. wr' # wr
    BY <1>6, IdleHolds DEF WReturn, Holding, Listed
  <2> QED BY <1>2, <1>4, <1>5, <2>1, <2>2, <2>3, <2>4 DEF ManagerInv
<1>7. CASE wr' = [wr EXCEPT !.wl = wl', !.ia = app, !.pc = pc]
  <2>1. wr' \in WR /\ wr'.pc = pc /\ wr'.wl = wl' /\ wr'.ia = app
    BY <1>1, <1>7, HeldTyped DEF WR
  <2>2. WorkloadTypeOK'
    BY <1>1, <2>1 DEF ManagerInv, WorkloadTypeOK, WR, beside
  <2>3. CurrentWL(wl', wl')
    BY <1>1, OwnTemplate
  <2>4. TemplatesCurrent' /\ CopiesPatchedOnce'
    BY <1>1, <1>3, <2>1, <2>3, TemplatesKept
  <2>5. Current(app, ia) /\ Reported(app, pods)
    BY HeldTyped DEF Current, Reported
  <2>6. ours # {} /\ wr'.pc # "pending"
    BY <2>1 DEF Apart, Holding, ManagerInv, RecordSound
  <2>7. RecordSound'
    BY <2>1, <2>5, <2>6 DEF RecordSound, beside
  <2>8. wr' # wr
    BY <2>1
  <2> QED BY <1>2, <1>4, <1>5, <2>2, <2>4, <2>7, <2>8 DEF ManagerInv
<1> QED BY <1>6, <1>7

LEMMA PatchInv ==
  ASSUME ManagerInv, UNCHANGED detection, WPatch
  PROVE  ManagerInv' /\ Forward /\ TemplateStep
<1> DEFINE instrumented == IsTracesInstrumented(wr.wl, wr.ia)
           rename == instrumented /\ ShouldUpdateServiceName(wr.wl, wr.ia)
           template == CASE ~instrumented -> ModifyObject(wr.wl, wr.ia)
                         [] rename        -> [wr.wl EXCEPT !.env = ServiceName(wr.wl)]
                         [] OTHER         -> wr.wl
           app == IF ~instrumented \/ rename THEN Record(wr.ia, ServiceName(wr.wl)) ELSE wr.ia
           pc == IF instrumented THEN "putName" ELSE "putActive"
<1>1. PICK reply \in Replies :
        /\ UpdateWL(wr.wl, template, reply)
        /\ IF reply = "done" THEN wr' = [wr EXCEPT !.wl = wl', !.ia = app, !.pc = pc] ELSE WReturn
  BY DEF WPatch
<1>2. /\ UNCHANGED <<ia, iaCache, iaFeed, pods, podCache, wlCache, wrQueued, beside>> /\ Holding
      /\ wr.pc = "patch"
  BY DEF WPatch, At, Holding, Listed
<1>3. wr.wl \in WL /\ wr.ia \in IA /\ wr.wl.agent \in Nat /\ ServiceName(wr.wl) \in Names
  BY HeldTyped, NameTyped DEF WL
<1>4. ~instrumented => wr.ia.spec.langs /\ wr.wl.agent = 0
  BY <1>3 DEF IsTracesInstrumented
<1>5. /\ template \in WL
      /\ template.wish = wr.wl.wish /\ template.skip = wr.wl.skip /\ template.ready = wr.wl.ready
      /\ \/ ~instrumented /\ template.agent = wr.wl.agent + 1 /\ template.env = ServiceName(wr.wl)
         \/ rename /\ template.agent = wr.wl.agent /\ template.env = ServiceName(wr.wl)
         \/ template.agent = wr.wl.agent /\ template.env = wr.wl.env
  <2>1. CASE ~instrumented
    <3> DEFINE new == ModifyObject(wr.wl, wr.ia)
    <3>1. /\ new \in WL /\ new.wish = wr.wl.wish /\ new.skip = wr.wl.skip
          /\ new.ready = wr.wl.ready /\ new.agent = wr.wl.agent + 1
          /\ new.env = ServiceName(wr.wl)
      BY <1>3, <1>4, <2>1, ModifyKeeps
    <3>2. template = new
      BY <2>1
    <3> HIDE DEF new, template, instrumented
    <3> QED BY <2>1, <3>1, <3>2
  <2>2. CASE rename
    BY <1>3, <2>2 DEF WL
  <2>3. CASE instrumented /\ ~rename
    BY <1>3, <2>3
  <2> QED BY <2>1, <2>2, <2>3
<1>6. /\ app \in IA /\ app.uid = wr.ia.uid /\ app.rv = wr.ia.rv /\ app.status = wr.ia.status
      /\ app.spec.langs = wr.ia.spec.langs /\ app.spec.apps = wr.ia.spec.apps
  BY <1>3, RecordKeeps
<1>7. pc \in WPcs \ Apart /\ pc # wr.pc
  BY <1>2 DEF WPcs, Apart
<1>8. template.agent <= 1
  BY <1>3, <1>4, <1>5 DEF ManagerInv, CopiesPatchedOnce
<1>9. rename => wr.wl.agent = 1
  BY <1>3 DEF IsTracesInstrumented, ShouldUpdateServiceName, ManagerInv, CopiesPatchedOnce
<1>10. wr.ia.spec.langs => LangsFound
  BY HeldTyped DEF Reported, LangsFound
<1>11. template \in WL
  BY <1>5
<1> HIDE DEF template, app, pc, instrumented, rename
<1>12. /\ ManagerInv' /\ Forward /\ wr' # wr
       /\ \/ wl' = wl
          \/ /\ wr.wl = wl
             /\ wl'.wish = template.wish /\ wl'.skip = template.skip
             /\ wl'.ready = template.ready
             /\ wl'.agent = template.agent /\ wl'.env = template.env
  <2>1. /\ UpdateWL(wr.wl, template, reply)
        /\ IF reply = "done" THEN wr' = [wr EXCEPT !.wl = wl', !.ia = app, !.pc = pc] ELSE WReturn
    BY <1>1
  <2>2. /\ UNCHANGED <<ia, iaCache, iaFeed, pods, podCache, detection, wlCache, wrQueued, beside>>
        /\ Holding /\ template.agent <= 1 /\ pc # wr.pc /\ pc \in WPcs \ Apart
    BY <1>2, <1>7, <1>8
  <2> QED BY <1>6, <1>11, <2>1, <2>2, WritesTemplate
<1>13. TemplateStep
  BY <1>2, <1>3, <1>4, <1>5, <1>9, <1>10, <1>12
     DEF TemplateStep, ManagerWrites, AgentPut, AgentRenamed, AgentKept
<1> QED BY <1>12, <1>13

LEMMA UnpatchInv ==
  ASSUME ManagerInv, UNCHANGED detection, WUnpatch
  PROVE  ManagerInv' /\ Forward /\ TemplateStep
<1> DEFINE template == RollbackPatch(wr.wl, wr.ia)
           app == Record(wr.ia, NoName)
           pc == "putNoActive"
<1>1. PICK reply \in Replies :
        /\ UpdateWL(wr.wl, template, reply)
        /\ IF reply = "done" THEN wr' = [wr EXCEPT !.pc = pc, !.wl = wl', !.ia = app]
                             ELSE WReturn
  BY DEF WUnpatch
<1>2. /\ UNCHANGED <<ia, iaCache, iaFeed, pods, podCache, wlCache, wrQueued, beside>> /\ Holding
      /\ wr.wl.wish.ask = "rollback" /\ wr.pc = "unpatch"
  BY DEF WUnpatch, At, Holding, Listed, MustUnpatch, ShouldRollBack
<1>3. wr \in WR /\ wr.wl \in WL /\ wr.ia \in IA /\ wr.wl.agent \in Nat
  BY HeldTyped DEF WL
<1>4. /\ template \in WL
      /\ template.wish = wr.wl.wish /\ template.skip = wr.wl.skip /\ template.ready = wr.wl.ready
      /\ \/ template.agent = wr.wl.agent /\ template.env = wr.wl.env
         \/ template.agent = 0 /\ template.env = NoName
  BY <1>3, RollbackKeeps
<1>5. /\ app \in IA /\ app.uid = wr.ia.uid /\ app.rv = wr.ia.rv /\ app.status = wr.ia.status
      /\ app.spec.langs = wr.ia.spec.langs /\ app.spec.apps = wr.ia.spec.apps
  BY <1>3, RecordKeeps
<1>6. pc \in WPcs \ Apart /\ pc # wr.pc
  BY <1>2 DEF WPcs, Apart
<1>7. template.agent <= 1
  BY <1>3, <1>4 DEF ManagerInv, CopiesPatchedOnce
<1> HIDE DEF template, app, pc
<1>8. IF reply = "done" THEN wr' = [wr EXCEPT !.wl = wl', !.ia = app, !.pc = pc]
                       ELSE WReturn
  BY <1>1, <1>3 DEF WR
<1>9. /\ ManagerInv' /\ Forward /\ wr' # wr
      /\ \/ wl' = wl
         \/ /\ wr.wl = wl
            /\ wl'.wish = template.wish /\ wl'.skip = template.skip /\ wl'.ready = template.ready
            /\ wl'.agent = template.agent /\ wl'.env = template.env
  BY <1>1, <1>2, <1>4, <1>5, <1>6, <1>7, <1>8, WritesTemplate
<1>10. TemplateStep
  BY <1>2, <1>4, <1>9 DEF TemplateStep, ManagerWrites, AgentGone, AgentKept
<1> QED BY <1>9, <1>10

-----------------------------------------------------------------------------
(***************************************************************************)
(* One step of the manager and its world.                                  *)
(***************************************************************************)

\* The workload controller leaves alone what it has had nothing of.
TouchesOwn == (wr' # wr /\ ia' # ia /\ ia.uid # 0) => ours # {}

StepSafe == Forward /\ TemplateStep /\ TouchesOwn

LEMMA InstrumentStep ==
  ASSUME ManagerInv, Instrument
  PROVE  ManagerInv' /\ StepSafe
<1>1. WReconcile /\ UNCHANGED detection
  BY DEF Instrument
<1>2. ManagerInv' /\ Forward
  BY <1>1, PutsInv, LocalInv, CreateInHand, LastWriteInv, PatchInv, UnpatchInv DEF WReconcile
<1>3. TemplateStep
  <2>1. CASE WPatch
    BY <1>1, <2>1, PatchInv
  <2>2. CASE WUnpatch
    BY <1>1, <2>2, UnpatchInv
  <2>3. CASE WPutLogType \/ WInstrumentStatus \/ WPutActive \/ WPutTraces \/ WPutName
             \/ WRollbackStatus \/ WPutNoActive \/ WPutNoTraces
    <3>1. UNCHANGED wl
      BY <2>3 DEF WPutLogType, WInstrumentStatus, WPutActive, WPutTraces, WPutName, WRollbackStatus,
                  WPutNoActive, WPutNoTraces, PutInstrumented, WPutSpec, WPutStatus
    <3> QED BY <3>1 DEF TemplateStep
  <2>4. CASE WBegin \/ WSync \/ WLogType \/ WInstrument \/ WRollback \/ WNothingToUnpatch \/ WApps
    <3>1. UNCHANGED wl
      BY <2>4 DEF WBegin, WSync, WLogType, WInstrument, WRollback, Reread, WNothingToUnpatch,
                  WApps, Local
    <3> QED BY <3>1 DEF TemplateStep
  <2>5. CASE WCreate \/ WPending \/ WPutDetected
    BY <2>5 DEF TemplateStep, WCreate, WPending, WPutDetected
  <2> QED BY <1>1, <2>1, <2>2, <2>3, <2>4, <2>5 DEF WReconcile
<1>4. TouchesOwn
  <2>1. CASE Listed
    BY <2>1 DEF TouchesOwn, ManagerInv, RecordSound
  <2>2. CASE WBegin \/ WSync
    BY <2>2 DEF WBegin, WSync, Local, cluster, TouchesOwn
  <2>3. CASE WCreate
    <3>1. PICK reply \in {"done", "error"} : CreateIA(reply)
      BY <2>3 DEF WCreate
    <3>2. ia.uid # 0 => ia' = ia
      BY <3>1, HeldTyped, CreateIAEffect
    <3> QED BY <3>2 DEF TouchesOwn
  <2>4. WBegin \/ WSync \/ WCreate \/ Listed
    <3>1. \A pc \in {"pending", "logType", "putLogType", "instrument", "instrumentStatus", "patch",
                     "putActive", "putTraces", "putName", "rollback", "rollbackStatus", "unpatch",
                     "putNoActive", "putNoTraces", "apps", "putDetected"} : At(pc) => Listed
      BY DEF At, Listed
    <3> QED
      BY <1>1, <3>1
         DEF WReconcile, WPending, WLogType, WPutLogType, WInstrument, WInstrumentStatus, WPatch,
             WPutActive, WPutTraces, WPutName, WRollback, WRollbackStatus, WUnpatch,
             WNothingToUnpatch, WPutNoActive, WPutNoTraces, WApps, WPutDetected,
             WPutSpec, WPutStatus, PutInstrumented, Reread
  <2> QED BY <2>1, <2>2, <2>3, <2>4
<1> QED BY <1>2, <1>3, <1>4 DEF StepSafe

\* The worker and its copies, under a step that is not theirs.
LEMMA WorkerStands ==
  ASSUME ManagerInv, DetectionInv', UNCHANGED <<wl, wlCache, wlFeed, wr, ours>>,
         wrQueued' \in BOOLEAN, edits' \in 0..MaxEdits, upsets' \in 0..MaxUpsets,
         Moves, OutcomesStay
  PROVE  ManagerInv' /\ TemplateStep /\ TouchesOwn
<1>1. WorkloadTypeOK'
  BY DEF ManagerInv, WorkloadTypeOK
<1>2. TemplatesCurrent' /\ CopiesPatchedOnce'
  BY DEF ManagerInv, TemplatesCurrent, CopiesPatchedOnce, Holding, Listed
<1>3. Current(wr.ia, ia') /\ Reported(wr.ia, pods')
  <2>1. ia' \in IA
    BY DEF DetectionInv, IInv, TypeOK, ClusterTypeOK
  <2> QED BY <2>1, HeldTyped, CopyStays, ReportedStays
<1>4. RecordSound'
  BY <1>3 DEF ManagerInv, RecordSound, Listed
<1> QED BY <1>1, <1>2, <1>4 DEF TemplateStep, ManagerInv, TouchesOwn

LEMMA DetectionStep ==
  ASSUME ManagerInv, Reconcile \/ WatchIA \/ WatchPod \/ TargetChange \/ Kubelet \/ Collector,
         UNCHANGED <<wl, wlCache, wlFeed, wr, ours>>,
         wrQueued' \in BOOLEAN, edits' \in 0..MaxEdits, upsets' \in 0..MaxUpsets
  PROVE  ManagerInv' /\ StepSafe
<1>1. IInv /\ SeenBorn /\ ReportInv /\ TypeOK
  BY DEF ManagerInv, DetectionInv, IInv
<1>2. [OpenNext]_vars
  BY DEF OpenNext
<1>3. DetectionInv' /\ OutcomesStay
  BY <1>1, <1>2, NextInv, ReportStep, OutcomesStep DEF DetectionInv, ReportInv
<1>4. Forward
  <2>1. TypeOK'
    BY <1>3 DEF DetectionInv, IInv
  <2> QED BY <1>1, <1>2, <2>1, PhaseStep DEF Forward
<1>5. Moves
  BY <1>1, <1>2, StepStores DEF Moves, Stored
<1> QED BY <1>3, <1>4, <1>5, WorkerStands DEF StepSafe

\* A new process starts from what is stored.
LEMMA RestartStep ==
  ASSUME ManagerInv, Restart, WRestart
  PROVE  ManagerInv' /\ StepSafe
<1>1. /\ iaCache' = ia /\ iaFeed' = {} /\ podCache' = pods /\ dr' = Idle /\ drQueued' = TRUE
      /\ crashes' = crashes + 1 /\ UNCHANGED <<ia, pods, faults, target>>
      /\ wr' = WIdle /\ wrQueued' = TRUE /\ wlCache' = wl /\ wlFeed' = {}
      /\ UNCHANGED <<wl, beside>>
  BY DEF Restart, Relist, WRestart
<1>2. IInv /\ SeenBorn /\ ReportInv /\ TypeOK /\ ia \in IA
  BY DEF ManagerInv, DetectionInv, IInv, TypeOK, ClusterTypeOK
<1>3. DetectionInv'
  BY <1>2, NextInv, ReportStep DEF OpenNext, DetectionInv
<1>4. WorkloadTypeOK'
  BY <1>1, IdleHolds DEF ManagerInv, WorkloadTypeOK, beside, WR
<1>5. TemplatesCurrent' /\ CopiesPatchedOnce'
  BY <1>1, RestSound, OwnTemplate, HeldTyped DEF ManagerInv, TemplatesCurrent, CopiesPatchedOnce
<1>6. RecordSound'
  BY <1>1, RestSound
<1>7. StepSafe
  BY <1>1, <1>2, PhaseForward DEF TemplateStep, StepSafe, TouchesOwn
<1> QED BY <1>3, <1>4, <1>5, <1>6, <1>7 DEF ManagerInv

\* The watch of the workload.
LEMMA WLEventStep ==
  ASSUME ManagerInv, WLEvent
  PROVE  ManagerInv' /\ StepSafe
<1>1. PICK v \in wlFeed : wlCache' = v /\ wlFeed' = {u \in wlFeed : u.rv > v.rv}
  BY DEF WLEvent, DeliverWL
<1>2. wrQueued' = TRUE /\ UNCHANGED <<cluster, detection, wl, wr, beside>>
  BY DEF WLEvent, DeliverWL
<1>3. DetectionInv'
  <2>1. SameObject /\ UNCHANGED <<ia, iaCache, iaFeed, pods, podCache, faults>>
    BY <1>2 DEF cluster, SameObject
  <2> QED BY <1>2, <2>1, HeldTyped, ObjectWritten DEF ManagerInv
<1>4. WorkloadTypeOK'
  BY <1>1, <1>2 DEF ManagerInv, WorkloadTypeOK, beside
<1>5. TemplatesCurrent' /\ CopiesPatchedOnce'
  BY <1>1, <1>2 DEF ManagerInv, TemplatesCurrent, CopiesPatchedOnce, Holding, Listed
<1>6. RecordSound'
  BY <1>2 DEF ManagerInv, RecordSound, Listed, cluster, beside
<1>7. StepSafe
  BY <1>2, HeldTyped, PhaseForward DEF TemplateStep, StepSafe, TouchesOwn, cluster
<1> QED BY <1>3, <1>4, <1>5, <1>6, <1>7 DEF ManagerInv

LEMMA EditTyped ==
  ASSUME NEW w \in WL, NEW wish \in Wish
  PROVE  /\ [w EXCEPT !.wish = wish] \in WL
         /\ [w EXCEPT !.wish = wish].agent = w.agent /\ [w EXCEPT !.wish = wish].env = w.env
         /\ [w EXCEPT !.wish = wish, !.agent = 0, !.env = NoName] \in WL
         /\ [w EXCEPT !.wish = wish, !.agent = 0, !.env = NoName].agent = 0
         /\ [w EXCEPT !.wish = wish, !.agent = 0, !.env = NoName].env = NoName
BY DEF WL

LEMMA ToggleTyped ==
  ASSUME NEW w \in WL
  PROVE  /\ [w EXCEPT !.ready = ~@] \in WL
         /\ [w EXCEPT !.ready = ~@].agent = w.agent /\ [w EXCEPT !.ready = ~@].env = w.env
         /\ [w EXCEPT !.skip = ~@] \in WL
         /\ [w EXCEPT !.skip = ~@].agent = w.agent /\ [w EXCEPT !.skip = ~@].env = w.env
BY DEF WL

LEMMA BoundsKept ==
  ASSUME ManagerInv
  PROVE  /\ edits \in 0..MaxEdits /\ upsets \in 0..MaxUpsets
         /\ Edit => edits' \in 0..MaxEdits
         /\ Upset => upsets' \in 0..MaxUpsets
BY WorkloadAssumption DEF ManagerInv, WorkloadTypeOK, Edit, Upset

\* The users may take an agent out of a template, and never put one there.
LEMMA UserEditStep ==
  ASSUME ManagerInv, UserEdit
  PROVE  ManagerInv' /\ StepSafe
<1>1. UNCHANGED <<cluster, wlCache, wr, wrQueued, detection>> /\ EditWL
  BY DEF UserEdit, EditWL
<1>2. wl \in WL /\ wlFeed \in SUBSET WL /\ wl.agent \in Nat /\ wl.agent <= 1
  BY HeldTyped DEF ManagerInv, CopiesPatchedOnce, WL
<1>3. \E new \in WL :
        /\ StoreWL(new)
        /\ (new.agent = wl.agent /\ new.env = wl.env) \/ (new.agent = 0 /\ new.env = NoName)
  <2>1. CASE \E w \in Wishes :
               \/ StoreWL([wl EXCEPT !.wish = w])
               \/ StoreWL([wl EXCEPT !.wish = w, !.agent = 0, !.env = NoName])
    <3>1. PICK w \in Wishes :
            \/ StoreWL([wl EXCEPT !.wish = w])
            \/ StoreWL([wl EXCEPT !.wish = w, !.agent = 0, !.env = NoName])
      BY <2>1
    <3>2. w \in Wish
      BY WorkloadAssumption
    <3> DEFINE kept == [wl EXCEPT !.wish = w]
               reset == [wl EXCEPT !.wish = w, !.agent = 0, !.env = NoName]
    <3>3. /\ kept \in WL /\ kept.agent = wl.agent /\ kept.env = wl.env
          /\ reset \in WL /\ reset.agent = 0 /\ reset.env = NoName
      BY <1>2, <3>2, EditTyped
    <3>4. StoreWL(kept) \/ StoreWL(reset)
      BY <3>1
    <3> HIDE DEF kept, reset
    <3> QED BY <3>3, <3>4
  <2>2. CASE StoreWL([wl EXCEPT !.ready = ~@]) \/ StoreWL([wl EXCEPT !.skip = ~@])
    <3> DEFINE ready == [wl EXCEPT !.ready = ~@]
               skip == [wl EXCEPT !.skip = ~@]
    <3>1. /\ ready \in WL /\ ready.agent = wl.agent /\ ready.env = wl.env
          /\ skip \in WL /\ skip.agent = wl.agent /\ skip.env = wl.env
      BY <1>2, ToggleTyped
    <3>2. StoreWL(ready) \/ StoreWL(skip)
      BY <2>2
    <3> HIDE DEF ready, skip
    <3> QED BY <3>1, <3>2
  <2> QED BY <1>1, <2>1, <2>2 DEF EditWL
<1>4. wl' \in WL /\ wlFeed' \in SUBSET WL /\ WLMoves /\ (AgentKept \/ AgentGone)
  BY <1>2, <1>3, StoreWLEffect DEF AgentKept, AgentGone
<1>5. UNCHANGED ours /\ edits' \in 0..MaxEdits /\ upsets' \in 0..MaxUpsets
  BY <1>1, BoundsKept DEF EditWL, Edit, Upset
<1>6. DetectionInv'
  <2>1. SameObject /\ UNCHANGED <<ia, iaCache, iaFeed, pods, podCache, faults>>
    BY <1>1 DEF cluster, SameObject
  <2> QED BY <1>1, <2>1, HeldTyped, ObjectWritten DEF ManagerInv
<1>7. WorkloadTypeOK'
  BY <1>1, <1>4, <1>5 DEF ManagerInv, WorkloadTypeOK
<1>8. TemplatesCurrent' /\ CopiesPatchedOnce'
  <2>1. wl'.agent <= 1
    BY <1>2, <1>4 DEF AgentKept, AgentGone
  <2>2. Holding' => CurrentWL(wr'.wl, wl')
    BY <1>1, <1>2, <1>4, HeldTyped, TemplateStays DEF ManagerInv, TemplatesCurrent, Holding, Listed
  <2>3. wr'.wl.agent <= 1
    BY <1>1 DEF ManagerInv, CopiesPatchedOnce
  <2> QED BY <1>1, <1>4, <2>1, <2>2, <2>3, TemplatesKept
<1>9. RecordSound'
  BY <1>1, <1>5 DEF ManagerInv, RecordSound, Listed, cluster
<1>10. StepSafe
  <2>1. TemplateStep
    BY <1>1, <1>4 DEF TemplateStep, OwnerWrites, cluster
  <2> QED BY <1>1, <2>1, HeldTyped, PhaseForward DEF StepSafe, TouchesOwn, cluster
<1> QED BY <1>6, <1>7, <1>8, <1>9, <1>10 DEF ManagerInv

\* The object goes, or another workload of the same name has its own created
\* and made Pending.
LEMMA OthersStep ==
  ASSUME ManagerInv, UserDelete \/ RivalCreates \/ RivalPends
  PROVE  ManagerInv' /\ StepSafe
<1>1. /\ UNCHANGED <<iaCache, pods, podCache, faults, detection>>
      /\ UNCHANGED <<wl, wlCache, wlFeed, wr, wrQueued, ours>>
      /\ edits' \in 0..MaxEdits /\ upsets' \in 0..MaxUpsets
  <2>1. CASE UserDelete \/ RivalCreates
    BY <2>1, BoundsKept DEF UserDelete, RivalCreates, Upset
  <2>2. CASE RivalPends
    BY <2>2, BoundsKept DEF RivalPends, workload, beside
  <2> QED BY <2>1, <2>2
<1>2. ia \in IA /\ iaFeed \in SUBSET IA /\ ia.uid <= ia.rv /\ ia.uid \in Nat /\ ia.rv \in Nat
  BY HeldTyped DEF IA
<1>3. ASSUME NEW new \in IA, Store(new), Reported(new, pods),
             \/ new.uid = ia.uid /\ new.status.phase = "Pending" /\ ia.status.phase = ""
             \/ new.uid = 0 /\ ia.uid # 0
             \/ new.uid = ia.rv + 1
      PROVE  /\ ia' \in IA /\ iaFeed' \in SUBSET IA /\ Reported(ia', pods) /\ Forward
             /\ SameObject \/ (NewVersion /\ (NotYounger \/ ia'.uid = ia'.rv))
  <2>1. /\ ia' \in IA /\ iaFeed' \in SUBSET IA
        /\ \/ ia' = ia /\ iaFeed' = iaFeed
           \/ /\ ia'.rv = ia.rv + 1
              /\ ia'.uid = new.uid /\ ia'.spec = new.spec /\ ia'.status = new.status
              /\ iaFeed' = iaFeed \union {ia'}
    BY <1>2, <1>3, StoreEffect
  <2>2. CASE ia' = ia /\ iaFeed' = iaFeed
    BY <1>2, <2>1, <2>2, HeldTyped, PhaseForward DEF SameObject
  <2>3. CASE /\ ia'.rv = ia.rv + 1
             /\ ia'.uid = new.uid /\ ia'.spec = new.spec /\ ia'.status = new.status
             /\ iaFeed' = iaFeed \union {ia'}
    <3>1. Reported(ia', pods)
      BY <1>3, <2>3 DEF Reported
    <3>2. ia.uid # ia.rv + 1 /\ ia.uid <= ia.rv + 1 /\ 0 <= ia.rv + 1 /\ ia.rv + 1 <= ia.rv + 1
      BY <1>2
    <3>3. new.uid <= ia.rv + 1
      BY <1>3, <3>2
    <3>4. NewVersion
      BY <2>3, <3>3 DEF NewVersion
    <3>5. NotYounger \/ ia'.uid = ia'.rv
      BY <1>3, <2>3 DEF NotYounger, Early
    <3>6. Forward
      BY <1>2, <1>3, <2>1, <2>3, <3>2, PhaseForward
    <3> QED BY <2>1, <3>1, <3>4, <3>5, <3>6
  <2> QED BY <2>1, <2>2, <2>3
<1>4. /\ ia' \in IA /\ iaFeed' \in SUBSET IA /\ Reported(ia', pods) /\ Forward
      /\ SameObject \/ (NewVersion /\ (NotYounger \/ ia'.uid = ia'.rv))
  <2>1. CASE UserDelete
    <3> DEFINE new == [NoIA EXCEPT !.rv = ia.rv]
    <3>1. new \in IA /\ new.uid = 0 /\ new.spec = NoIA.spec /\ new.status = NoIA.status
      BY <1>2, BlanksTyped DEF IA, NoIA
    <3>2. Store(new) /\ ia.uid # 0
      BY <2>1 DEF UserDelete, RemoveIA
    <3> HIDE DEF new
    <3>3. Reported(new, pods)
      BY <3>1, BlankReported DEF Reported
    <3> QED BY <1>3, <3>1, <3>2, <3>3
  <2>2. CASE RivalCreates
    <3> DEFINE new == NewIA
    <3>1. new \in IA /\ new.uid = ia.rv + 1 /\ Reported(new, pods)
      BY <1>2, BlanksTyped DEF NewIA, Reported, BlankSpec, BlankStatus
    <3>2. Store(new)
      BY <2>2 DEF RivalCreates
    <3> HIDE DEF new
    <3> QED BY <1>3, <3>1, <3>2
  <2>3. CASE RivalPends
    <3> DEFINE new == [ia EXCEPT !.status.phase = "Pending"]
    <3>1. new \in IA /\ new.uid = ia.uid /\ new.spec = ia.spec /\ new.status.phase = "Pending"
      BY <1>2 DEF IA, IAStatus, Phases
    <3>2. Store(new) /\ ia.status.phase = ""
      BY <2>3 DEF RivalPends
    <3> HIDE DEF new
    <3>3. Reported(new, pods)
      BY <3>1, HeldTyped DEF Reported
    <3> QED BY <1>3, <3>1, <3>2, <3>3
  <2> QED BY <2>1, <2>2, <2>3
<1>5. DetectionInv'
  BY <1>1, <1>4, HeldTyped, ObjectWritten DEF ManagerInv
<1>6. Moves /\ OutcomesStay
  BY <1>1, <1>4, MovesFromEffect DEF OutcomesStay
<1>7. wrQueued' \in BOOLEAN
  BY <1>1 DEF ManagerInv, WorkloadTypeOK
<1> QED BY <1>1, <1>4, <1>5, <1>6, <1>7, WorkerStands DEF StepSafe

LEMMA ManagerStep ==
  ASSUME ManagerInv, [InstrumentorNext]_all
  PROVE  ManagerInv' /\ StepSafe
<1>1. /\ wrQueued \in BOOLEAN /\ edits \in 0..MaxEdits /\ upsets \in 0..MaxUpsets
  BY DEF ManagerInv, WorkloadTypeOK
<1>2. CASE Detect \/ PodEvent \/ PodsChange
  <2>1. UNCHANGED <<wl, wlCache, wlFeed, wr, ours, wrQueued, edits, upsets>>
    BY <1>2 DEF Detect, PodEvent, PodsChange, workload, beside
  <2>2. Reconcile \/ WatchPod \/ Kubelet \/ Collector
    BY <1>2 DEF Detect, PodEvent, PodsChange
  <2> QED BY <1>1, <2>1, <2>2, DetectionStep
<1>3. CASE IAEvent
  <2>1. UNCHANGED <<wl, wlCache, wlFeed, wr, ours, edits, upsets>> /\ wrQueued' \in BOOLEAN
    BY <1>1, <1>3 DEF IAEvent, beside
  <2>2. WatchIA
    BY <1>3 DEF IAEvent, WatchIA
  <2> QED BY <1>1, <2>1, <2>2, DetectionStep
<1>4. CASE UserScale
  <2>1. /\ UNCHANGED <<wl, wlCache, wlFeed, wr, ours, wrQueued, edits>> /\ upsets' \in 0..MaxUpsets
    BY <1>1, <1>4, BoundsKept DEF UserScale, Upset
  <2>2. TargetChange
    BY <1>4 DEF UserScale
  <2> QED BY <1>1, <2>1, <2>2, DetectionStep
<1>5. CASE CrashAll \/ PanicAll
  BY <1>5, RestartStep DEF CrashAll, PanicAll, Crash
<1>6. CASE UNCHANGED all
  <2>1. UNCHANGED vars /\ UNCHANGED workload
    BY <1>6 DEF all
  <2>2. DetectionInv' /\ OutcomesStay
    BY <2>1, NextInv, ReportStep, OutcomesStep DEF ManagerInv, DetectionInv, ReportInv, IInv
  <2>3. Moves /\ Forward /\ UNCHANGED <<wl, wlCache, wlFeed, wr, ours, wrQueued, edits, upsets>>
    BY <2>1, HeldTyped, PhaseForward DEF Moves, vars, cluster, workload, beside
  <2> QED BY <1>1, <2>2, <2>3, WorkerStands DEF StepSafe
<1> QED
  BY <1>2, <1>3, <1>4, <1>5, <1>6, InstrumentStep, WLEventStep, UserEditStep, OthersStep
     DEF InstrumentorNext

LEMMA ManagerInit == InstrumentorInit => ManagerInv
<1> SUFFICES ASSUME InstrumentorInit PROVE ManagerInv
  OBVIOUS
<1>1. Init /\ WorkloadInit /\ ours = {}
  BY DEF InstrumentorInit
<1>2. /\ ia = NoIA /\ iaCache = NoIA /\ iaFeed = {} /\ dr = Idle /\ dr.app = NoIA /\ dr.pc = "idle"
      /\ pods = [p \in Pods |-> NoPod] /\ podCache = [p \in Pods |-> NoPod]
  BY <1>1, NoCopy DEF Init, ClusterInit
<1>3. IInv /\ SeenBorn
  <2>1. SeenBorn
    BY <1>2 DEF SeenBorn, NoPod, Idle
  <2> QED BY <1>1, <2>1, InitInv
<1>4. ReportInv
  <2>1. NothingReportedEarly
    BY <1>2 DEF NothingReportedEarly, NoPod
  <2> QED BY <1>2, <2>1, BlankReported DEF ReportInv, CopiesReported, WritesWhatItRead
<1>5. PICK w \in Wishes, r \in BOOLEAN : wl = [NoWL EXCEPT !.wish = w, !.ready = r]
  BY <1>1 DEF WorkloadInit
<1>6. wl \in WL /\ wl.agent = 0
  BY <1>5, IdleHolds, WorkloadAssumption DEF WL
<1>7. wlCache = wl /\ wlFeed = {} /\ wr = WIdle /\ wrQueued = TRUE /\ edits = 0 /\ upsets = 0
  BY <1>1 DEF WorkloadInit
<1>8. WorkloadTypeOK
  BY <1>1, <1>6, <1>7, IdleHolds, WorkloadAssumption DEF WorkloadTypeOK, WR
<1>9. ~Listed /\ ~Holding /\ wr.ia = NoIA /\ wr.wl.agent = 0 /\ wr.pc = "idle"
  BY <1>7, IdleHolds DEF Listed, Holding
<1>10. TemplatesCurrent /\ CopiesPatchedOnce
  BY <1>6, <1>7, <1>9 DEF TemplatesCurrent, CopiesPatchedOnce, CurrentWL, WL
<1>11. RecordSound
  BY <1>9, NoCopy, BlankReported DEF RecordSound
<1> QED BY <1>3, <1>4, <1>8, <1>10, <1>11 DEF ManagerInv, DetectionInv

LEMMA ManagerInductive == InstrumentorSpec => []ManagerInv
<1>1. ManagerInv /\ [InstrumentorNext]_all => ManagerInv'
  BY ManagerStep
<1> QED BY <1>1, ManagerInit, PTL DEF InstrumentorSpec

-----------------------------------------------------------------------------
(***************************************************************************)
(* The theorems.                                                           *)
(***************************************************************************)

\* The variables of both controllers keep their types: each worker is at one of
\* its places and holds objects and workloads, whatever is delivered or lost.
THEOREM ManagerTypeCorrect == InstrumentorSpec => []InstrumentorTypeOK
<1>1. ManagerInv => InstrumentorTypeOK
  BY DEF ManagerInv, DetectionInv, IInv, InstrumentorTypeOK
<1> QED BY <1>1, ManagerInductive, PTL

\* No template ever has an agent twice, however many edits, conflicts, repeated
\* writes, restarts and panics there are: the resourceVersion refuses a patch of
\* any template but the one it was decided on (common.go 225-251).
THEOREM AgentOnce == InstrumentorSpec => []AgentPatchedOnce
<1>1. ManagerInv => AgentPatchedOnce
  BY DEF ManagerInv, CopiesPatchedOnce, AgentPatchedOnce
<1> QED BY <1>1, ManagerInductive, PTL

\* What the action properties take from that.
LEMMA TemplateSafe ==
  ASSUME ManagerInv, TemplateStep
  PROVE  /\ wr' # wr => /\ wl'.wish = wl.wish /\ wl'.skip = wl.skip /\ wl'.ready = wl.ready
                        /\ wl'.agent < wl.agent => wl.wish.ask = "rollback"
         /\ wl'.agent > wl.agent => \E p \in Pods : FindsLangs(pods[p].outcome)
<1>1. wl.agent \in Nat
  BY HeldTyped DEF WL
<1> QED BY <1>1 DEF TemplateStep, ManagerWrites, OwnerWrites, LangsFound, AgentPut, AgentRenamed,
                    AgentGone, AgentKept

\* No write of the controller undoes what anybody else has written to the
\* workload.
THEOREM EditsSafe == InstrumentorSpec => EditsKept
<1>1. ManagerInv /\ [InstrumentorNext]_all
        => [wr' # wr => /\ wl'.wish = wl.wish /\ wl'.skip = wl.skip /\ wl'.ready = wl.ready]_all
  BY ManagerStep, TemplateSafe DEF StepSafe
<1> QED BY <1>1, ManagerInductive, PTL DEF InstrumentorSpec, EditsKept

\* The controller takes an agent out of a template only while the template asks
\* for the rollback, and not while an older version of it did (common.go 195).
THEOREM RollbackAsked == InstrumentorSpec => RolledBackOnRequest
<1>1. ManagerInv /\ [InstrumentorNext]_all
        => [(wr' # wr /\ wl'.agent < wl.agent) => wl.wish.ask = "rollback"]_all
  BY ManagerStep, TemplateSafe DEF StepSafe
<1> QED BY <1>1, ManagerInductive, PTL DEF InstrumentorSpec, RolledBackOnRequest

\* The controller never touches the object of a workload of the same name before
\* it has had an object of its own.
THEOREM RivalSafe == InstrumentorSpec => RivalLeftAlone
<1>1. ManagerInv /\ [InstrumentorNext]_all
        => [(wr' # wr /\ ia' # ia /\ ia.uid # 0) => ours # {}]_all
  BY ManagerStep DEF StepSafe, TouchesOwn
<1> QED BY <1>1, ManagerInductive, PTL DEF InstrumentorSpec, RivalLeftAlone

\* Beside the workload controller too, at most one detection pod is started for
\* an object: none of that controller's writes makes an object Pending again.
THEOREM ManagerOnePod == InstrumentorSpec => []AtMostOnePod
<1>1. ManagerInv => AtMostOnePod
  BY DEF ManagerInv, DetectionInv, IInv
<1> QED BY <1>1, ManagerInductive, PTL

\* Beside the workload controller too, no phase goes back.
THEOREM ManagerPhases == InstrumentorSpec => PhaseNeverGoesBack
<1>1. ManagerInv /\ [InstrumentorNext]_all
        => [ia'.uid = ia.uid => Rank[ia'.status.phase] >= Rank[ia.status.phase]]_vars
  BY ManagerStep DEF StepSafe, Forward
<1> QED BY <1>1, ManagerInductive, PTL DEF InstrumentorSpec, PhaseNeverGoesBack

\* Beside the workload controller too, nothing is said to be found that no
\* detection pod has reported.
THEOREM ManagerResults == InstrumentorSpec => []ResultsAreReported
<1>1. ManagerInv => ResultsAreReported
  BY DEF ManagerInv, DetectionInv, ReportInv, CopiesReported, Reported, ResultsAreReported
<1> QED BY <1>1, ManagerInductive, PTL
=============================================================================
