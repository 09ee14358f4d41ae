# A TLA+ verification of kubernetes-instrumentor

The program watches Deployments and StatefulSets of a Kubernetes cluster, finds out with a
short-lived *detection pod* which languages and applications run in them, and, where the user asks
for it by annotation, patches OpenTelemetry agents into their pod templates. This directory holds
TLA+ models of its control logic, the TLC runs that check them and the theorems TLAPS proves.

Paths below are relative to `src/instrumentor/` unless they start with another directory.

## 1. Inventory

| Part | State it keeps | Operations | What makes it correct |
|---|---|---|---|
| InstrumentedApplication controller (`controllers/instrumentedapplication_controller.go`) | nothing of its own: it lives in the object's phase | `Reconcile`: start detection, store results, clean up | one detection pod per object; the phase only moves forward; results stand on a report; results are stored and pods deleted in the end |
| Workload controllers (`controllers/common.go`, `deployment_controller.go`, `statefulset_controller.go`) | nothing of its own: the annotations of the template and the object's record | `syncInstrumentedApps`: create the object, log type, instrument, roll back, mark applications | a template is patched once, only if asked; user edits are never undone; the record follows the template |
| Language patchers (`patch/root.go`, `java.go`, `python.go`, `nodejs.go`, `dotnet.go`) | the template in hand | `Patch`, `UnPatch`, `UpdateServiceNameEnv`, `IsTracesInstrumented` | rollback undoes instrumentation, the agent is there whole, once, or not at all, what the user set survives, template and record agree on the service name |
| Manager (`main.go`) | one process, one informer cache, two work queues and workers that matter here | start, die, restart | as above, across restarts |
| Annotation patcher (`patch/annotation.go`) | none | `shouldPatch`; `Patch` has no caller | - |
| Detection pod (`detectors/`) | what it has read so far; reports through its termination message | scan `/proc` once per container, inspect, publish | a language is of a process of that container; no process that stays is missed; a quiet scan is exact; it ends, and fails only for a cause of its own |
| API types, agents, manifests, generated code | - | - | - |

**How they interact.** All parts communicate through the API server only. Both controllers read the
shared, lagging informer cache and write to the API server, which refuses an update from an old
`resourceVersion` (Conflict). The workload controller creates the InstrumentedApplication and makes it
`Pending`; the other controller moves it to `Running`, starts a pod, copies the pod's termination
message into the spec and moves it to `Completed`; the event of that wakes the workload controller,
which patches the template and records it in the object. A returned error is retried by the
InstrumentedApplication controller and swallowed by the workload controllers; a Conflict while
storing a result is swallowed by the former too.

**What is hard.** Every reconcile is a sequence of API calls with others' writes in between; every
copy may be stale; any call may fail with or without effect; the process may die between any two; the
object may be deleted and created again under the same name, or the name taken by another workload;
nothing is requeued by a timer. The detector reads a process in five calls while the processes of the
node start, exec and exit. The
hazards with their lines, and the properties aimed at each, are in `PROJECT.json`.

## 2. Modules

| Module | Models |
|---|---|
| `Cluster` | the store, its conflict rule, the watch, the kubelet and the collector; the calls `Update`, `UpdateStatus`, `CreatePod` ... as operators |
| `Lifecycle` | abstract specification: the life of an InstrumentedApplication |
| `Detection` | the InstrumentedApplication controller, one action per API call |
| `DetectionProofs` | theorems about `Detection` |
| `LifecycleProofs` | `Detection` implements `Lifecycle`, proved |
| `Workload` | `syncInstrumentedApps` and the reconcilers around it, one action per API call |
| `Instrumentor` | `Detection` and `Workload` in one process over one cache: the manager |
| `Template` | abstract specification: what the manager promises the owner of a workload |
| `InstrumentorProofs` | theorems about `Instrumentor`, and so about `Workload` |
| `ManagerRefinement` | `Instrumentor` implements `Detection`, and so `Lifecycle`, proved |
| `TemplateProofs` | `Instrumentor` implements `Template`, proved |
| `Detector` | the detection pod's program, one action per read of `/proc`, and the node's processes |
| `DetectorProofs`, `QuietScanProofs` | theorems about `Detector` |
| `Patch` | the four patchers on whole templates |
| `PatchProofs` | theorems about `Patch` |
| `MCDetection`, `MCInstrumentor`, `MCDetector`, `MCPatch` | small instances for TLC |

**Cluster.** `ia` is the stored object, `iaCache` the informer's copy, `iaFeed` the versions on their
way to it; `pods`/`podCache` likewise. `Update(copy, new, reply)` is the whole contract of a write:
done, Conflict, not found, failed without effect, failed with effect (the answer is lost). `faults`
counts the failures; its bound is `MaxFaults`. A watch may skip versions but never goes back. A `uid`
is the resourceVersion an object was created at, so it is never used twice. The API server and
client-go are not in this repository; the map marks them external. The schema in
`src/deploy/kubernetes-manifests/instrumentedapplications.yaml` does not fit the Go types
(`appdetected`, an undeclared required `metricsInstrumented`); the model takes a schema that does.

**Detection.** `dr.pc` says where `Reconcile` is, `dr.app` is the object in its memory, `dr.todo` the
pods of the last List. `Get` takes the request and branches as lines 69-131 do; `MarkRunning`,
`Choose`, `Create` are `startDetection`; `List` to `PutCompleted` the loop over the pods;
`ListFinished`, `Clean` the clean up. `Retry` is a returned error, `Return` a nil one. `Others`
stands for all other writers of the object: creation, `Pending`, every field but phase and findings,
deletion. `Spec` bounds them by `MaxRv` (`Elsewhere`) and the restarts by `MaxCrashes`; `OpenSpec` is
the same without these bounds. Reads answer from the cache; their failing for other reasons than
absence is not modelled, as it only repeats the reconcile.

**Workload.** One workload. `wl.wish` is what the user wrote in the template's annotations, `wl.agent`
how often an agent was patched in, `wl.env` the service name in the agent's environment. The
`traces-instrumented` annotation is there exactly when `agent` is not 0. `WPanics` is the write to a
nil annotation map in `Patch`, which takes the process down. `edits` and `upsets` bound what the user
does (`MaxEdits`, `MaxUpsets`). `ours` are the uids of the objects that have this workload as their
controller: `Found` is the lookup by owner (an index over kind and name), while every later read goes
by name, and so reaches whatever object has the name by then.

**Instrumentor.** `Others` is replaced by the workload controller itself plus a user who may delete
the object; `ImplementsDetection` says that the replacement is sound: every behaviour of the
composition is one of `Detection`'s `OpenSpec`. `TemplateSpec` looks at the manager from the other
end, the pod template: module `Template` has no caches, versions, faults or crashes, its steps of
the manager are to instrument, rename, roll back or do nothing to be seen, each sound for the
template as it is at that moment, and its steps of the owner are edits and whole new templates.
`RivalCreates` and `RivalPends` are a workload of the same name and the other kind, whose own
controller creates the object first; ours then fails at every `WCreate`.

**Detector.** `scan` is where the program is: `pc`, the place `k` of the container asked about, the
listing (`cursor`, `todo`), the process being read (`at`), those read (`found`), the languages of the
first ones inspected (`said`). `report` is what the result holds so far, `outcome` how the pod has
ended. A process is the container it runs in and a program: sets of the needles the inspectors look
for in its executable and command line, the variables of its environment that anything is made of,
its files of dependencies, and whether it is `open`: of another user's process the executable's link
and the environment cannot be read (`process.go:222-226`, `240`), the first being taken for an empty
name and the second ending the detector. Between any two steps a process may start, exec, become a zombie or exit
(`Fork`, `Exec`, `Exit`). `lived` and `settled` are history: every process there has been, and those
that have not changed since the start. A container name is a sequence of pieces, as whether one begins
another is all that the substring match of `detectors/process/process.go:220` depends on. A CHOOSE
is used for minima only; where Go goes over a map any element may be taken (`DetectApplication`,
`DetectServiceName`). A pod without a name to ask about is asked about the empty one, as `strings.Split`
gives that, and the empty name matches every container of the pod. A panic, and `log.Fatalf`, is
`Fatal`. To `Cluster` the pod is one `FinishPod` step with one of the outcomes a detector may end with;
that is a choice of the abstraction and nothing is checked of it. What a container's flag for an
instrumentation already there and its service name say is in the reference of `QuietScanIsExact`; the
controllers do not read that flag.

**Patch.** A template has an environment per container. Of each variable `Entry` tells what of it is
the user's (a text, an empty value, a reference by `valueFrom`, or nothing), how often the agent's part
is there, the service name in it, and whether a blank is left that the patchers put between. A table
per patcher (`java`, `python`, `nodeJs`, `dotNet`) names what it sets, extends and removes. To `UnPatch`
a value is what its `Value` is: an option that is empty once the agent's part is out is dropped, and so
is a user's that was empty, or a reference, to begin with, in every container of the template
(`java.go:197`, `nodejs.go:205`). `ModifyObject` and `UpdateActiveServiceName` go through a Go map, so
every order of languages is possible. `Instrument`, `Rename` and `Rollback` write the template; what the
reconcile then has in hand of the object (`held`) is stored by a second update (`StoreRecord`) or not
(`LoseRecord`: an error, a conflict, a crash; `common.go` 255, 277, 209), and the next reconcile begins
with what is stored. Python's renaming writes a blank before `service.name` that its `Patch` does not
(`python.go:239`, `148`), so that the detector no longer finds the name (`serviceName.go:14`); the model
keeps the blank apart from the name, and no property is about it. An option of the user's that is a
reference cannot be instrumented: the API server refuses it with a value (`Accepts`). The languages
found do not change during a template's life: a rollback after another detection is not covered. What
`Workload` takes as one step (`ModifyObject`, `RollbackPatch`) is what `Patch` spells out. The errors
of a language without a patcher (`root.go` 74, 87, 100, 112) are left out: the detector knows the four
languages of `patcherMap` and no other.

## 3. Runs

| Run | Checks | Instance |
|---|---|---|
| `DetectionSafety` | `TypeOK`, `AtMostOnePod`, `ResultsAreReported`, `PhaseNeverGoesBack`, `LifecycleSpec` | 2 pods, all outcomes, 6 versions, 1 fault, 1 crash |
| `DetectionLiveness` | `ResultStored`, `PodsCleanedUp` | 2 pods, failed, with languages or with applications, 6 versions, 1 fault, a workload that is always up |
| `InstrumentorWarm` | `AgentPatchedOnce`, `EditsKept`, `RolledBackOnRequest`, `TemplateSpec` | detection complete, 2 user edits with 2 service names, 1 fault, 1 crash |
| `InstrumentorCold` | `InstrumentorTypeOK`, `RivalLeftAlone`, `ImplementsDetection` | from nothing, three ways to annotate the template, 1 pod, 1 fault, 1 upset |
| `InstrumentorLiveness` | `Instrumented`, `RolledBack`, `LeftAloneUnasked`, `ComesToRest` | detection complete, with languages or without, 1 user edit, the skip annotation among them, 1 fault |
| `Detector` | `DetectorTypeOK`, `LanguagesAreTheirs`, `NothingMissed`, `QuietScanIsExact`, `FailsForCause`, `Terminates` | 3 process numbers, batches of 1, 2 changes, 3 pods: with a proxy, with a name that begins another, with nothing but a proxy |
| `PatchTemplates` | `NothingLeftBehind`, `AgentComplete`, `NameRecorded`, `UserEnvKept` | 2 interchangeable containers, 4 languages, an option and a claimed variable of the user, every value of each, 1 service name |

Five more runs expect a violation; each shows one disagreement of the code with its own documentation,
told in `PROJECT.json` under `findings`:

| Run | What TLC shows |
|---|---|
| `FailedPodsKept` | after a failed detection pod the phase stays `Running` and the pod is kept |
| `DetectionStuck` | `Running` is written before a pod is chosen; if there is none the retry does nothing |
| `StatusLeftBehind` | the record is not brought up to date for a template without the annotation |
| `ServiceNameLost` | a conflict between the two updates of a rename loses later renames |
| `ContainersDropped` | a rename deletes the containers that were not renamed |

**Why the bounds are enough.** Two pods are what it takes to break `AtMostOnePod`, and to have a
failed pod of a deleted object in front of a good one of its successor. Six versions let an object be
created, run through detection, be deleted, created again and started on again while an old copy is
held: `MaxRv` bounds the others' writes only (`Elsewhere`), so detection goes on behind the sixth. In
the safety runs `DetectionSafety` and `InstrumentorWarm` one fault and one crash each hit every step,
and together every pair; `DetectionLiveness`, `InstrumentorCold` and `InstrumentorLiveness` have one
fault, which hits every call, and no crash. Two edits let the user change his mind in the middle of a
reconcile and back; the liveness run has one, as what counts there is what comes after the last. Two
containers give every mix of languages the patchers distinguish; they differ in nothing but the name,
which is why they may be interchanged; rollbacks and renames are not bounded. In `Detector` batches of
one entry put a change of the process table between any two entries; three numbers give a process that
stays, one that goes and one that is new behind or ahead of the listing; two changes give an exec and
an exit of one process, or of two, between two reads of it. Every property has a mutant of the code that
breaks it on the same instance (`PROJECT.json`, `mutants`; the mutants' definitions stand before what
they replace and are marked `Mutant`).

**What is swallowed.** The workload controllers return no error (`deployment_controller.go` 66-75), so a
failed call brings no retry. Where the call conflicted, or was applied and only its answer was lost,
somebody's write is on its way through the watch and its event brings the request back. Where it failed
without effect, nothing does: `Instrumented` and `RolledBack` therefore ask that the workload be looked
at once more after the last fault (`ServedAfterFaults`), for whatever reason, and say that one more look
is enough, whatever state the failure left behind. Without that premise TLC refutes `Instrumented` in
the same run: the update at `common.go:251` fails, the reconcile returns nil, and the template is never
patched. No doc promises a retry, so this is described here and not stated as a finding.

**Coming to rest.** Each controller is woken by the other's writes to the object and by its own.
`ComesToRest` says that both queues are empty in the end. One case is excepted, in its premise and in
`EitherNext` (TLC could not finish it: versions grow for ever): an object without languages, in a
template with the rollback annotation. With no patcher to ask, `IsTracesInstrumented` is true of any
template (`root.go:109`), so the reconcile records the object as instrumented (`common.go:188`), rolls
nothing back, records it as not instrumented (213), and is woken by both writes.

**Deadlock** is not checked: a controller at rest waits for an event, and the detector and the
patchers end. Versions are not bounded in the runs of `Instrumentor`; `InstrumentorCold` leaves the
rollback annotation out for the reason above.

**Fairness.** Weak fairness of the workers (controller-runtime runs a queued request), of the
watches (an informer delivers) and of the garbage collector. Nothing forces the kubelet, the users
or the workload's pods. The detector is a process that is scheduled (`Terminates`); the node's
processes are not obliged to anything. A failing call is bounded, as the retries of the code are
not. What a liveness property asks of the environment it says itself (`ResultStored`'s run keeps the
workload up; `DetectionStarted`,
`Instrumented`, `RolledBack`, `StatusFollowsTemplate`, `ServiceNameFollows` are conditional on what
stays true for ever).

## 4. Proofs

`DetectionProofs` proves, for every set of pods, names and log types and for all bounds (the lemmas are
about `OpenSpec`, which has none; `Opened` carries them to `Spec`):

- `TypeCorrect`: `Spec => []TypeOK`
- `OnePodPerObject`: `Spec => []AtMostOnePod`
- `PhaseMonotone`: `Spec => PhaseNeverGoesBack`
- `ResultsCorrect`: `Spec => []ResultsAreReported`

`AtMostOnePod` is not inductive: nothing in it stops a second pod from being created for an object
whose pod exists. `IInv` adds why that cannot happen:

1. `CopiesCurrent`: no copy is newer than the store, and a copy that still matches the stored version
   has the stored status. This is what the conflict check buys, and what all else rests on.
2. `MarksPending`: at `MarkRunning` the copy in hand is `Pending`.
3. `NothingStartedEarly`: while the stored object is before `Running`, no pod was created for it and
   the worker is not about to create one.
4. `LaunchesFirst`: between the `Running` update and `Create`, the object in hand has no pod.
5. `OwnersExisted`: pods belong to objects there have been, so a new object has none.

An accepted `MarkRunning` starts from the stored version, which by 1 and 2 is `Pending`, so by 3 there
is no pod; the update leaves `Pending`, so 3 no longer applies and 4 takes over until `Create` spends
it. Other holders of the `Pending` copy no longer match. `PhaseMonotone` follows from 1: a status
update that is accepted starts from the stored phase; the last step of detection writes the highest.

`ResultsCorrect` needs `ReportInv` in addition: a pod that has not finished has reported nothing, and
no report is ever replaced (`OutcomesStay`), so what a copy of the object says, of whatever age, stays
backed; at the two writes of a result a readable report is at hand.

The module has lemmas for the effect of each API call, one per invariant part for steps that leave
the worker or the object alone (`CalmStep`, `ForeignStep`), and one per action; `NextInv` puts them
together. The assumptions are `ClusterAssumption` and `DetectionAssumption`, which TLC evaluates in
the runs.

`LifecycleProofs` proves `ImplementsLifecycle`: `Spec => LifecycleSpec`, for any finite set of pods (the
abstract specification counts them). `StepSeen` lists what a step may show of the object: nothing, a
new version, an object that appears or goes, or one of three moves of the phase, the last only once a
pod has been started. `PodsOwned` says that only `Create` starts a pod, and `CreateSimulates` that it
does so for an object that has had none and is past `Pending` or gone, which is what
`LaunchesFirst` and `NothingStartedEarly` were for. `NoError` is needed because the API's phase
`Error` has no place in the abstract life; no writer sets it.

`InstrumentorProofs` proves, of the manager as a whole and for all values of the constants:

- `ManagerTypeCorrect`: `InstrumentorSpec => []InstrumentorTypeOK`
- `AgentOnce`: `InstrumentorSpec => []AgentPatchedOnce`
- `EditsSafe`, `RollbackAsked`, `RivalSafe`: the action properties `EditsKept`,
  `RolledBackOnRequest`, `RivalLeftAlone`
- `ManagerOnePod`, `ManagerPhases`, `ManagerResults`: `AtMostOnePod`, `PhaseNeverGoesBack` and
  `ResultsAreReported` once more, beside the real workload controller

The inductive invariant `ManagerInv` has detection's (`IInv`, `SeenBorn`, `ReportInv`) and three parts
about the workload:

1. `TemplatesCurrent`: no copy of the workload is newer than it, and one of its version is equal to it.
2. `CopiesPatchedOnce`: no copy, in the store, the cache, the feed or the worker's hand, has the agent
   twice.
3. `RecordSound`: what the worker holds of the object is an old or the present version, says only
   what was reported, and once objects have been listed there has been one of this workload.

An accepted write starts at the stored template (1). So it keeps what others wrote, adds an agent
where there is none, and takes one out under the annotation that is stored now (`TemplateStep`). Steps
of the detection worker are those of `Detection`, whose lemmas are cited; those of the workload
controller are shown to keep detection's invariant one by one. The
assumptions are those of the modules: `ClusterAssumption`, `DetectionAssumption`, `WorkloadAssumption`.

`ManagerRefinement` proves

- `ManagerImplementsDetection`: `InstrumentorSpec => ImplementsDetection`
- `ManagerImplementsLifecycle`: `InstrumentorSpec => LifecycleSpec`, for any finite set of pods

The question is whether a write of the workload controller, made from an old copy, stays within
`Others`: whether it leaves the phase and the findings alone. `ManagerInv` gives that for the phase;
for the findings `WriterInv` is needed in addition. `FindingsCurrent` says that a copy of the stored
version, be it the cache's, the feed's or the worker's, has the stored findings. Detection's own
copy has not: it writes new ones, which is why the invariant must not speak of it. `PendingBlank`
says that the object made `Pending` is still as it was created, so that writing its whole status
changes the phase only. Each write is then one of `Appeared`, `Pended`, `Touched` or nothing
(`InstrumentImplements`, `StepImplements`), each other step is `Detection`'s own or a stutter, and
`OpenLifecycle` of `LifecycleProofs` takes it on to `Lifecycle`.

`TemplateProofs` proves

- `ManagerKeepsPromise`: `InstrumentorSpec => TemplateSpec`
- `UnaskedSafe`: `InstrumentorSpec => LeftAloneUnasked`

The first is `TemplateStep` of `InstrumentorProofs`, disjunct by disjunct, with `PodsOrWorker`: no step
changes both what the worker is about and what has been reported. In `Template` the manager's steps are
told from the owner's by `work`, which only the former change; without it the owner, who may
remove the agent at any time, would cover for a manager that does. The second is inductive
under its own hypothesis: while the template has not asked, no copy of it in the cache, the feed or
the worker's hand has, and the worker is at none of the places behind the decision (`UnaskedInv`).

`DetectorProofs` proves, for every set of processes, programs, container names, proxies, batch size
and bounds (`DetectorAssumption`):

- `DetectorTypeCorrect`: `DetectorSpec => []DetectorTypeOK`
- `LanguagesCorrect`: `DetectorSpec => []LanguagesAreTheirs`
- `NoneMissed`: `DetectorSpec => []NothingMissed`
- `FailuresCorrect`: `DetectorSpec => FailsForCause`

The first two and the last rest on `DetectorInv`: what the detector holds is always backed by the history, which
only grows. `HistoryKept` says that all that has run is in `lived`, in one container for ever;
`AtBacked` and `FoundBacked` that each needle read of a process was shown by some program of that
process and that its environment was the environment of one, with one witness per field, as exec may
come between the reads; `SaidBacked` and `ReportBacked` carry that through the inspection, where the
.NET inspector's second read of the environment finds a program of the same process or none.
`PrefixFree` is used only in the end, to turn "in a container whose name begins so" into "in this
container". `FailuresCorrect` follows from `AtBacked`: what fails the detector is the process it is
reading, which has been seen in the container asked about (`FailedAtOwn`).

`NoneMissed` needs `CompleteInv` in addition: the listing is monotone, so a settled process is ahead of
the cursor, in the batch, being read, or among those found (`NotPassed`), what is read of it is
what it still is (`AtMatches`, `FoundMatches`), a language found is said (`Heard`), and the
containers before the present one are in the report (`Covered`). That the lowest number of a set
exists is derived from the well-foundedness of the natural numbers (`LeastIn`).

`QuietScanProofs` goes on to `QuietScanExact`: `DetectorSpec => []QuietScanIsExact`. `CompleteInv`
says that what was found is there, not in which order, and the order decides: the first process that
speaks names the language. Where nothing changes during the scan, `QuietInv` adds that all processes
alive are settled (`SettledAll`); that those found are of the container asked about, behind the
cursor and in ascending order (`ScanSorted`), so the first that speaks is the lowest (`SaidFirst`);
and that the report is exact about the containers passed (`ReportExact`), which is what the theorem
says once all are.

`PatchProofs` proves, for any containers, languages, names and user environments (`PatchAssumption`):

- `RollbackIsComplete`: `Spec => []NothingLeftBehind`
- `AgentStaysComplete`: `Spec => []AgentComplete`
- `NamesStayRecorded`: `Spec => []NameRecorded`
- `UserEnvSafe`: `Spec => []UserEnvKept`

None of them supposes that the record is written with the template. The invariant `PatchInv` says of the
template that every container has exactly its agent's variables, each once (`Complete`), or nothing of
any agent (`Bare`), as its flag says, and of every container what has become of the user's part
(`UserKept`); the record in hand has the languages of the stored one, and, while none was lost, the
names in the environments (`Named`). What it rests on in the code are two facts of the tables: a
patcher's `UnPatch` looks for all that its `Patch` sets (`SetIsRemoved`, `NeededIsFound`; false of the
version before v1.0.10), and a renaming replaces what it finds (`RenameEnvKeeps`), which is why an old
record does no harm to the template but for the name. There are lemmas for one environment first
(`PatchContainerKeeps`, `UnPatchEnvClears`, `RenameEnvKeeps`), then for the template. `UpdateEach` is a
recursion over the languages; with four of them `StepsExist` writes it out, so no induction is
needed.

Every invariant and every safety property of the passing runs is stated by a theorem. Only
model-checked are the liveness properties (`ResultStored`, `PodsCleanedUp`, `Instrumented`,
`RolledBack`, `ComesToRest`, `Terminates`): fairness and ENABLED are out of the prover's reach. The theorems about
the manager are about `InstrumentorSpec`, which starts from nothing; the runs `InstrumentorWarm` and
`InstrumentorLiveness` start, to reach further, from a state the manager comes to after a detection.

## 5. Not modelled

- Deletion of the workload: the reconcile ends at its first Get, and the garbage collector's deletion
  of the object is `UserDelete`.
- Periodic resync of the informer (it repeats reconciles, and repairs none of the findings, each of
  which ends in a state the reconciles leave as it is); two managers at once (two replicas without
  leader election; the manifest passes `--leader-elect`).
- In the detector: names and texts beyond what the inspectors look for; several mounts of one process
  that match (the kubelet makes one; another would only list the process twice); errors of opening or
  listing `/proc` itself (they end the detector like `Fatal`); process numbers used again during one
  scan. A scan may be long, as `findFiles` walks the root file system of every process
  (`detectors/process/process.go` 48-71), but the kernel hands out all other numbers first.
- Texts of environment variables in the patchers, and a template whose languages are found anew; `Patch` of `patch/annotation.go`, which nothing calls.
- Agent images, manifests, generated deep copies, flags, probes.

## 6. Plan

Order of work, most important first; 1-14 are done.

1. `Cluster`, `Detection`: the detection life cycle, safety and liveness.
2. `Lifecycle`: the abstract specification; `Detection` refines it.
3. `DetectionProofs`: types, one pod, monotone phase, results.
4. `Workload`, `Instrumentor`: the manager, refining `Detection`.
5. `Patch`: templates.
6. Ownership: two workloads of one name.
7. `Detector`: the scan among changing processes, and its language, application and service name
   against reference definitions; `DetectorProofs`.
8. `LifecycleProofs`: the simulation of `Lifecycle` by `Detection`.
9. `InstrumentorProofs`: the safety of the manager.
10. `PatchProofs`: the properties of templates, renames and rollbacks behind lost records among them.
11. `QuietScanProofs`: the exactness of a quiet scan.
12. `ManagerRefinement`: the manager refines `Detection` and `Lifecycle`.
13. `Template`, `TemplateProofs`: what a workload's owner is promised, and that it is kept.
14. `ComesToRest`: the controllers do not wake each other for ever.
15. Left: what must hold of the service name written by a late detection result.
