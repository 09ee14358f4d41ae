----------------------------- MODULE Workload ------------------------------
(***************************************************************************)
(* The workload controllers: DeploymentReconciler, StatefulSetReconciler    *)
(* and syncInstrumentedApps (instrumentor/controllers/common.go), which     *)
(* both run.  One workload is modelled, of either kind.                     *)
(*                                                                          *)
(* The controller creates the workload's InstrumentedApplication and, once  *)
(* detection has completed, edits the workload's pod template as the user's *)
(* annotations ask, keeping record in the InstrumentedApplication.  Every   *)
(* API call is a step.  All errors end the reconcile and are swallowed.     *)
(***************************************************************************)
EXTENDS Cluster

CONSTANTS
  Default,      \* the service name calculateServiceName makes up
  Wishes,       \* what the user may write in the template's annotations
  MaxEdits,     \* bound: the user's edits of the template
  MaxUpsets     \* bound: what else happens to the workload and its object

VARIABLES
  wl,           \* the stored workload
  wlCache,      \* the informer's copy of it
  wlFeed,       \* versions of it the watch has not delivered yet
  wr,           \* the worker: where it is and what it holds
  wrQueued,     \* the request is in the controller's work queue
  ours,         \* uids of the objects whose controller this workload is
  edits,        \* edits of the template so far
  upsets        \* what else has happened so far

beside == <<ours, edits, upsets>>

workload == <<wl, wlCache, wlFeed, wr, wrQueued, beside>>

\* The user's annotations on the pod template: logz.io/traces_instrument, service
\* name, application type (which is the log type too) and skip app detection.
Wish == [ask : {"none", "true", "rollback"}, svc : Names \union {NoName},
         logType : LogTypes \union {NoLogType}, skipApps : BOOLEAN]

ASSUME WorkloadAssumption ==
  Default \in Names /\ NoName \notin Names /\ Wishes \subseteq Wish /\ MaxEdits \in Nat /\ MaxUpsets \in Nat

\* agent counts the times an agent was patched into the template, env is the
\* service name in its environment.  The instrumented annotation is there
\* exactly when agent is not 0.
WL == [rv : Nat, wish : Wish, skip : BOOLEAN, ready : BOOLEAN,
       agent : Nat, env : Names \union {NoName}]

WPcs == {"idle", "sync", "createIA", "pending", "logType", "putLogType", "instrument",
         "instrumentStatus", "patch", "putActive", "putTraces", "putName", "rollback", "rollbackStatus", "unpatch",
         "putNoActive", "putNoTraces", "apps", "putDetected"}

NoWish == [ask |-> "none", svc |-> NoName, logType |-> NoLogType, skipApps |-> FALSE]

NoWL == [rv |-> 0, wish |-> NoWish, skip |-> FALSE, ready |-> FALSE, agent |-> 0, env |-> NoName]

WIdle == [pc |-> "idle", ready |-> FALSE, wl |-> NoWL, ia |-> NoIA]

-----------------------------------------------------------------------------
\* The template.

ServiceName(w) == IF w.wish.svc # NoName THEN w.wish.svc ELSE Default

ShouldInstrument(w) == w.wish.ask = "true" /\ ~w.wish.skipApps

ShouldRollBack(w) == w.wish.ask = "rollback"

\* One annotation, logz.io/application_type, names the log type and keeps
\* applications from being detected.
ShouldDetectApps(w) == ~w.wish.skipApps /\ w.wish.logType = NoLogType

\* Mutant: the object's record is asked instead of the template.
IsRecordedInstrumented(w, app) == app.spec.langs => app.status.traces

\* Without languages there is no patcher to ask, and the answer is yes.
IsTracesInstrumented(w, app) == app.spec.langs => w.agent > 0

\* Each language's patcher patches: instrumenting a template twice adds the
\* agent's environment twice, and without languages nothing is added.
ModifyObject(w, app) ==
  IF app.spec.langs THEN [w EXCEPT !.agent = @ + 1, !.env = ServiceName(w)] ELSE w

\* Mutant: the rollback forgets the service name.
RollbackPatchForgets(w, app) == IF app.spec.langs THEN [w EXCEPT !.agent = 0] ELSE w

RollbackPatch(w, app) == IF app.spec.langs THEN [w EXCEPT !.agent = 0, !.env = NoName] ELSE w

\* Only a name recorded before can be found to differ.
ShouldUpdateServiceName(w, app) ==
  app.spec.langs /\ app.spec.active # NoName /\ app.spec.active # ServiceName(w)

\* The name in the object, recorded for the languages there are.
Record(app, name) == IF app.spec.langs THEN [app EXCEPT !.spec.active = name] ELSE app

-----------------------------------------------------------------------------
StoreWL(new) ==
  IF new = wl
  THEN UNCHANGED <<wl, wlFeed>>
  ELSE /\ wl' = [new EXCEPT !.rv = wl.rv + 1]
       /\ wlFeed' = wlFeed \union {[new EXCEPT !.rv = wl.rv + 1]}

\* c.Update of the workload: as Update of the InstrumentedApplication, but for
\* an object that is always there.
UpdateWL(copy, new, reply) ==
  \/ reply = "done" /\ copy.rv = wl.rv /\ StoreWL(new) /\ UNCHANGED faults
  \/ reply = "conflict" /\ copy.rv # wl.rv /\ UNCHANGED <<wl, wlFeed, faults>>
  \/ reply = "error" /\ Fails /\ UNCHANGED <<wl, wlFeed>>
  \/ reply = "error" /\ Fails /\ copy.rv = wl.rv /\ StoreWL(new)

WReturn == wr' = WIdle

At(pc) == wr.pc = pc

\* The object in hand is written, and the server's answer replaces it.
WPutSpec(pc, spec, next) ==
  /\ At(pc)
  /\ \E reply \in Replies :
       /\ UpdateSpec(wr.ia, spec, reply)
       /\ IF reply = "done" THEN wr' = [wr EXCEPT !.pc = next, !.ia = ia'] ELSE WReturn
  /\ UNCHANGED <<iaCache, pods, podCache, wl, wlCache, wlFeed, wrQueued, beside>>

WPutStatus(pc, status, next) ==
  /\ At(pc)
  /\ \E reply \in Replies :
       /\ UpdateStatus(wr.ia, status, reply)
       /\ IF reply = "done" THEN wr' = [wr EXCEPT !.pc = next, !.ia = ia'] ELSE WReturn
  /\ UNCHANGED <<iaCache, pods, podCache, wl, wlCache, wlFeed, wrQueued, beside>>

\* A step that calls nothing but the cache.
Local == UNCHANGED <<cluster, wl, wlCache, wlFeed, wrQueued, beside>>

-----------------------------------------------------------------------------
\* Mutant: every reconcile asks to be called again.
WBeginRequeued ==
  /\ At("idle") /\ wrQueued
  /\ IF wlCache.skip THEN WReturn
     ELSE wr' = [WIdle EXCEPT !.pc = "sync", !.ready = wlCache.ready]
  /\ UNCHANGED <<cluster, wl, wlCache, wlFeed, wrQueued, beside>>

\* Reconcile reads the workload; its ready replicas are what syncInstrumentedApps
\* goes by, though it reads the workload a second time.
WBegin ==
  /\ At("idle") /\ wrQueued
  /\ wrQueued' = FALSE
  /\ IF wlCache.skip THEN WReturn
     ELSE wr' = [WIdle EXCEPT !.pc = "sync", !.ready = wlCache.ready]
  /\ UNCHANGED <<cluster, wl, wlCache, wlFeed, beside>>

\* Mutant: objects are looked up by name.
FoundByName(app) == app.uid # 0

\* The index knows an object by the kind and the name of its controller.
Found(app) == app.uid \in ours

WSync ==
  /\ At("sync")
  /\ IF ~Found(iaCache)
     THEN IF wr.ready THEN wr' = [wr EXCEPT !.pc = "createIA"] ELSE WReturn
     ELSE IF iaCache.status.phase = "Completed"
          THEN wr' = [wr EXCEPT !.pc = "logType", !.wl = wlCache]
          ELSE WReturn
  /\ Local

\* The object has the workload's name.  Where another workload of that name, of
\* another kind, has created one, this fails, and will fail for ever.
WCreate ==
  /\ At("createIA")
  /\ \E reply \in {"done", "error"} :
       /\ CreateIA(reply)
       /\ IF reply = "done" THEN wr' = [wr EXCEPT !.pc = "pending", !.ia = ia'] ELSE WReturn
  /\ ours' = IF ia' = ia THEN ours ELSE ours \union {ia'.uid}
  /\ UNCHANGED <<iaCache, pods, podCache, wl, wlCache, wlFeed, wrQueued, edits, upsets>>

\* Mutant: a phase that is not one.
WPendingMisspelt ==
  /\ At("pending")
  /\ \E reply \in Replies :
       UpdateStatus(wr.ia, [BlankStatus EXCEPT !.phase = "pending"], reply)
  /\ WReturn
  /\ UNCHANGED <<iaCache, pods, podCache, wl, wlCache, wlFeed, wrQueued, beside>>

\* The object exists before it has a phase; whether this call succeeds is only
\* logged.
WPending ==
  /\ At("pending")
  /\ \E reply \in Replies :
       UpdateStatus(wr.ia, [BlankStatus EXCEPT !.phase = "Pending"], reply)
  /\ WReturn
  /\ UNCHANGED <<iaCache, pods, podCache, wl, wlCache, wlFeed, wrQueued, beside>>

\* Mutant: the skip annotation is not looked at.
BranchUnskipped(w) ==
  CASE w.wish.ask = "true" -> "instrument"
    [] ShouldRollBack(w)   -> "rollback"
    [] OTHER               -> "apps"

\* What the template in hand asks for once the log type is right.
Branch(w) ==
  CASE ShouldInstrument(w) -> "instrument"
    [] ShouldRollBack(w)   -> "rollback"
    [] OTHER               -> "apps"

WLogType ==
  /\ At("logType")
  /\ IF iaCache.uid = 0
     THEN WReturn
     ELSE IF iaCache.spec.logType = wr.wl.wish.logType
          THEN wr' = [wr EXCEPT !.pc = Branch(wr.wl), !.ia = iaCache]
          ELSE wr' = [wr EXCEPT !.pc = "putLogType", !.ia = iaCache]
  /\ Local

WPutLogType ==
  WPutSpec("putLogType", [wr.ia.spec EXCEPT !.logType = wr.wl.wish.logType], Branch(wr.wl))

-----------------------------------------------------------------------------
\* processInstrumentedApps and processRollback both read the workload and the
\* object again, and first bring the object's traces field up to date.

\* Mutant: the traces field is not brought up to date.
RereadOnly(pc, statusPc, patchPc) ==
  /\ At(pc)
  /\ IF iaCache.uid = 0
     THEN WReturn
     ELSE wr' = [wr EXCEPT !.wl = wlCache, !.ia = iaCache, !.pc = patchPc]
  /\ Local

Reread(pc, statusPc, patchPc) ==
  /\ At(pc)
  /\ IF iaCache.uid = 0
     THEN WReturn
     ELSE wr' = [wr EXCEPT
            !.wl = wlCache, !.ia = iaCache,
            !.pc = IF IsTracesInstrumented(wlCache, iaCache) = iaCache.status.traces
                   THEN patchPc ELSE statusPc]
  /\ Local

PutInstrumented(pc, next) ==
  WPutStatus(pc, [wr.ia.status EXCEPT !.traces = IsTracesInstrumented(wr.wl, wr.ia)], next)

WInstrument == Reread("instrument", "instrumentStatus", "patch")

WInstrumentStatus == PutInstrumented("instrumentStatus", "patch")

\* Mutant: the copy in hand is sent under the stored resourceVersion, as a retry
\* after a conflict might.
WPatchForced ==
  /\ At("patch") /\ ~IsTracesInstrumented(wr.wl, wr.ia)
  /\ UpdateWL(wl, ModifyObject(wr.wl, wr.ia), "done")
  /\ wr' = [wr EXCEPT !.pc = "putActive", !.wl = wl']
  /\ UNCHANGED <<ia, iaCache, iaFeed, pods, podCache, wlCache, wrQueued, beside>>

\* The template is patched, or its service name brought up to date.  Whether it
\* still asks for it is not looked at again.
WPatch ==
  LET instrumented == IsTracesInstrumented(wr.wl, wr.ia)
      rename == instrumented /\ ShouldUpdateServiceName(wr.wl, wr.ia)
      template == CASE ~instrumented -> ModifyObject(wr.wl, wr.ia)
                    [] rename        -> [wr.wl EXCEPT !.env = ServiceName(wr.wl)]
                    [] OTHER         -> wr.wl
      app == IF ~instrumented \/ rename THEN Record(wr.ia, ServiceName(wr.wl)) ELSE wr.ia
  IN /\ At("patch")
     /\ \E reply \in Replies :
          /\ UpdateWL(wr.wl, template, reply)
          /\ IF reply = "done"
             THEN wr' = [wr EXCEPT !.wl = wl', !.ia = app,
                                   !.pc = IF instrumented THEN "putName" ELSE "putActive"]
             ELSE WReturn
     /\ UNCHANGED <<ia, iaCache, iaFeed, pods, podCache, wlCache, wrQueued, beside>>

\* What is left to do behind the instrumentation.
Rest(w) == IF ShouldRollBack(w) THEN "rollback" ELSE "apps"

WPutActive == WPutSpec("putActive", wr.ia.spec, "putTraces")

\* Mutant: a fresh status, as in the creation of the object.
WPutFreshTraces == WPutStatus("putTraces", [BlankStatus EXCEPT !.traces = TRUE], Rest(wr.wl))

WPutTraces == WPutStatus("putTraces", [wr.ia.status EXCEPT !.traces = TRUE], Rest(wr.wl))

WPutName == WPutSpec("putName", wr.ia.spec, Rest(wr.wl))

WRollback == Reread("rollback", "rollbackStatus", "unpatch")

WRollbackStatus == PutInstrumented("rollbackStatus", "unpatch")

\* Mutant: the annotation is not looked at again.
MustUnpatchUnasked == IsTracesInstrumented(wr.wl, wr.ia)

MustUnpatch == IsTracesInstrumented(wr.wl, wr.ia) /\ ShouldRollBack(wr.wl)

WUnpatch ==
  /\ At("unpatch") /\ MustUnpatch
  /\ \E reply \in Replies :
       /\ UpdateWL(wr.wl, RollbackPatch(wr.wl, wr.ia), reply)
       /\ IF reply = "done"
          THEN wr' = [wr EXCEPT !.pc = "putNoActive", !.wl = wl', !.ia = Record(wr.ia, NoName)]
          ELSE WReturn
  /\ UNCHANGED <<ia, iaCache, iaFeed, pods, podCache, wlCache, wrQueued, beside>>

WNothingToUnpatch ==
  /\ At("unpatch") /\ ~MustUnpatch
  /\ wr' = [wr EXCEPT !.pc = "apps"]
  /\ Local

WPutNoActive == WPutSpec("putNoActive", wr.ia.spec, "putNoTraces")

WPutNoTraces == WPutStatus("putNoTraces", [wr.ia.status EXCEPT !.traces = FALSE], "apps")

-----------------------------------------------------------------------------
\* Where applications may be detected, AppDetected is set; nothing clears it.
\* An error of this Get is ignored, and the copy in hand is used.
WApps ==
  /\ At("apps")
  /\ IF /\ wr.ia.spec.apps /\ wr.ia.status.phase = "Completed"
        /\ ShouldDetectApps(wr.wl) /\ ~wr.ia.status.detected
     THEN wr' = [wr EXCEPT !.pc = "putDetected",
                           !.ia = IF iaCache.uid = 0 THEN wr.ia ELSE iaCache]
     ELSE WReturn
  /\ Local

WPutDetected ==
  /\ At("putDetected")
  /\ \E reply \in Replies :
       UpdateStatus(wr.ia, [wr.ia.status EXCEPT !.detected = TRUE], reply)
  /\ WReturn
  /\ UNCHANGED <<iaCache, pods, podCache, wl, wlCache, wlFeed, wrQueued, beside>>

WReconcile ==
  \/ WBegin \/ WSync \/ WCreate \/ WPending \/ WLogType \/ WPutLogType
  \/ WInstrument \/ WInstrumentStatus \/ WPatch \/ WPutActive \/ WPutTraces \/ WPutName
  \/ WRollback \/ WRollbackStatus \/ WUnpatch \/ WNothingToUnpatch
  \/ WPutNoActive \/ WPutNoTraces
  \/ WApps \/ WPutDetected

\* Patch writes to the annotations of a template that may have none by then: a
\* nil map, and the process dies.
WPanics == At("patch") /\ ~IsTracesInstrumented(wr.wl, wr.ia) /\ wr.wl.wish = NoWish

-----------------------------------------------------------------------------
\* The watch of the workload, and its other writers: the user, who may also
\* replace the template as a whole, and the workload's own controller.

DeliverWL ==
  /\ \E v \in wlFeed :
       /\ wlCache' = v
       /\ wlFeed' = {u \in wlFeed : u.rv > v.rv}
  /\ wrQueued' = TRUE
  /\ UNCHANGED <<cluster, wl, wr, beside>>

Edit == edits < MaxEdits /\ edits' = edits + 1 /\ UNCHANGED <<ours, upsets>>

Upset == upsets < MaxUpsets /\ upsets' = upsets + 1 /\ UNCHANGED <<ours, edits>>

EditWL ==
  /\ \/ /\ Edit
        /\ \E w \in Wishes :
             \/ w # wl.wish /\ StoreWL([wl EXCEPT !.wish = w])
             \/ wl.agent # 0 /\ StoreWL([wl EXCEPT !.wish = w, !.agent = 0, !.env = NoName])
     \/ /\ Upset
        /\ \/ StoreWL([wl EXCEPT !.ready = ~@])
           \/ StoreWL([wl EXCEPT !.skip = ~@])
  /\ UNCHANGED <<cluster, wlCache, wr, wrQueued>>

WRestart ==
  /\ wr' = WIdle
  /\ wrQueued' = TRUE
  /\ wlCache' = wl /\ wlFeed' = {}
  /\ UNCHANGED <<wl, beside>>

WorkloadInit ==
  /\ \E w \in Wishes, r \in BOOLEAN : wl = [NoWL EXCEPT !.wish = w, !.ready = r]
  /\ wlCache = wl
  /\ wlFeed = {}
  /\ wr = WIdle
  /\ wrQueued = TRUE
  /\ edits = 0
  /\ upsets = 0

WorkloadTypeOK ==
  /\ wl \in WL
  /\ wlCache \in WL
  /\ wlFeed \in SUBSET WL
  /\ wr \in [pc : WPcs, ready : BOOLEAN, wl : WL, ia : IA]
  /\ wrQueued \in BOOLEAN
  /\ ours \in SUBSET Nat
  /\ edits \in 0..MaxEdits
  /\ upsets \in 0..MaxUpsets
=============================================================================
