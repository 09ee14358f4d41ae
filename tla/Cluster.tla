------------------------------ MODULE Cluster ------------------------------
(***************************************************************************)
(* What the controllers share: the InstrumentedApplication object of one    *)
(* workload and its language detection pods, as the API server stores them  *)
(* and as the manager's informer cache shows them.                          *)
(*                                                                          *)
(* None of this is code of the repository.  It is modelled from how the     *)
(* reconcilers use controller-runtime's client: Get and List answer from    *)
(* the cache, which lags the store; Create, Update, Status().Update and     *)
(* Delete go to the API server, which accepts an update only if the copy    *)
(* carries the stored resourceVersion (the Conflict the reconcilers test    *)
(* for), keeps spec and status apart (the CRD declares the status           *)
(* subresource) and leaves the resourceVersion alone when nothing changes.  *)
(***************************************************************************)
EXTENDS Naturals

CONSTANTS
  Pods,        \* the detection pods that may ever exist
  Reports,     \* what a detection pod may come to, a subset of Outcomes
  MaxFaults,   \* bound: API calls that may fail
  Names,       \* service names a workload may be given
  NoName,      \* the empty service name
  LogTypes     \* log types a workload may ask for


VARIABLES
  ia,          \* the stored InstrumentedApplication
  iaCache,     \* the informer's copy of it
  iaFeed,      \* versions of it the watch has not delivered yet
  pods,        \* the stored detection pods
  podCache,    \* the informer's copies of them
  faults       \* API calls that have failed so far

cluster == <<ia, iaCache, iaFeed, pods, podCache, faults>>

NoLogType == ""

Phases == {"", "Pending", "Running", "Completed", "Error"}

IASpec == [langs : BOOLEAN, apps : BOOLEAN, active : Names \union {NoName},
           logType : LogTypes \union {NoLogType}]

IAStatus == [phase : Phases, traces : BOOLEAN, detected : BOOLEAN]

\* uid 0 is no object.  A uid is the resourceVersion the object was created
\* at, so no two objects share one.
IA == [uid : Nat, rv : Nat, spec : IASpec, status : IAStatus]

BlankSpec == [langs |-> FALSE, apps |-> FALSE, active |-> NoName, logType |-> NoLogType]

BlankStatus == [phase |-> "", traces |-> FALSE, detected |-> FALSE]

NoIA == [uid |-> 0, rv |-> 0, spec |-> BlankSpec, status |-> BlankStatus]

\* What a finished detection pod left in its termination message: nothing the
\* reconciler can use because the pod failed, or text that is not a
\* DetectionResult, or no terminated state at all, or a result that names
\* languages, applications, both or neither.
Outcomes == {"none", "failed", "garbled", "silent", "langs", "apps", "both", "neither"}

ASSUME ClusterAssumption == MaxFaults \in Nat /\ Reports \subseteq Outcomes \ {"none"}

Readable == {"langs", "apps", "both", "neither"}

FindsLangs(outcome) == outcome \in {"langs", "both"}

FindsApps(outcome) == outcome \in {"apps", "both"}

\* name is the service name the detector read in the process environment.
Pod == [owner : Nat, state : {"unborn", "active", "finished", "gone"}, outcome : Outcomes,
        name : Names \union {NoName}]

NoPod == [owner |-> 0, state |-> "unborn", outcome |-> "none", name |-> NoName]

-----------------------------------------------------------------------------
\* Writing: every accepted change of the object is a new version.

Store(new) ==
  IF new = ia
  THEN UNCHANGED <<ia, iaFeed>>
  ELSE /\ ia' = [new EXCEPT !.rv = ia.rv + 1]
       /\ iaFeed' = iaFeed \union {[new EXCEPT !.rv = ia.rv + 1]}

Matches(copy) == ia.uid # 0 /\ copy.uid = ia.uid /\ copy.rv = ia.rv

\* What a write may answer: done, the Conflict error, or any other error.
Replies == {"done", "conflict", "error"}

Fails == faults < MaxFaults /\ faults' = faults + 1

\* One update of the object the caller holds as copy.  A failing call may have
\* been applied all the same: only the answer is lost.
Update(copy, new, reply) ==
  \/ reply = "done" /\ Matches(copy) /\ Store(new) /\ UNCHANGED faults
  \/ reply = "conflict" /\ ia.uid # 0 /\ ~Matches(copy) /\ UNCHANGED <<ia, iaFeed, faults>>
  \/ reply = "error" /\ ia.uid = 0 /\ UNCHANGED <<ia, iaFeed, faults>>
  \/ reply = "error" /\ Fails /\ UNCHANGED <<ia, iaFeed>>
  \/ reply = "error" /\ Fails /\ Matches(copy) /\ Store(new)

UpdateSpec(copy, spec, reply) == Update(copy, [ia EXCEPT !.spec = spec], reply)

UpdateStatus(copy, status, reply) == Update(copy, [ia EXCEPT !.status = status], reply)

\* Create answers AlreadyExists when the object is there; the API server drops
\* the status of the object it is given.
NewIA == [uid |-> ia.rv + 1, rv |-> ia.rv + 1, spec |-> BlankSpec, status |-> BlankStatus]

CreateIA(reply) ==
  \/ reply = "done" /\ ia.uid = 0 /\ Store(NewIA) /\ UNCHANGED faults
  \/ reply = "error" /\ ia.uid # 0 /\ UNCHANGED <<ia, iaFeed, faults>>
  \/ reply = "error" /\ Fails /\ UNCHANGED <<ia, iaFeed>>
  \/ reply = "error" /\ Fails /\ ia.uid = 0 /\ Store(NewIA)

RemoveIA == ia.uid # 0 /\ Store([NoIA EXCEPT !.rv = ia.rv])

CreatePod(owner, reply) ==
  \/ /\ reply = "error" /\ Fails /\ UNCHANGED pods
  \/ /\ \/ reply = "done" /\ UNCHANGED faults
        \/ reply = "error" /\ Fails
     /\ \E p \in Pods :
          /\ pods[p].state = "unborn"
          /\ pods' = [pods EXCEPT ![p] = [NoPod EXCEPT !.owner = owner, !.state = "active"]]

\* Deleting a pod that is already gone is no error to the caller.
DeletePod(p, reply) ==
  \/ /\ reply = "error" /\ Fails /\ UNCHANGED pods
  \/ /\ \/ reply = "done" /\ UNCHANGED faults
        \/ reply = "error" /\ Fails
     /\ pods' = [pods EXCEPT ![p].state = "gone"]

-----------------------------------------------------------------------------
\* The watch: the cache only moves forward, and may skip versions.

DeliverIA ==
  \E v \in iaFeed :
    /\ iaCache' = v
    /\ iaFeed' = {u \in iaFeed : u.rv > v.rv}
    /\ UNCHANGED <<ia, pods, podCache, faults>>

DeliverPod ==
  \E p \in Pods :
    /\ podCache[p] # pods[p]
    /\ podCache' = [podCache EXCEPT ![p] = pods[p]]
    /\ UNCHANGED <<ia, iaCache, iaFeed, pods, faults>>

\* A new process lists everything before its controllers start.
Relist == iaCache' = ia /\ iaFeed' = {} /\ podCache' = pods

\* The pods the field index finds: it knows an owner by name, not by uid.
Finished == {p \in Pods : podCache[p].state = "finished"}

-----------------------------------------------------------------------------
\* The kubelet and the garbage collector.

FinishPod ==
  \E p \in Pods, o \in Reports, n \in Names \union {NoName} :
    /\ pods[p].state = "active"
    /\ n # NoName => FindsLangs(o)
    /\ pods' = [pods EXCEPT ![p].state = "finished", ![p].outcome = o, ![p].name = n]
    /\ UNCHANGED <<ia, iaCache, iaFeed, podCache, faults>>

\* Pods whose owner no longer exists are collected, whatever they are doing.
CollectPod ==
  \E p \in Pods :
    /\ pods[p].state \in {"active", "finished"}
    /\ pods[p].owner # ia.uid
    /\ pods' = [pods EXCEPT ![p].state = "gone"]
    /\ UNCHANGED <<ia, iaCache, iaFeed, podCache, faults>>

ClusterInit ==
  /\ ia = NoIA
  /\ iaCache = NoIA
  /\ iaFeed = {}
  /\ pods = [p \in Pods |-> NoPod]
  /\ podCache = [p \in Pods |-> NoPod]
  /\ faults = 0

ClusterTypeOK ==
  /\ ia \in IA
  /\ iaCache \in IA
  /\ iaFeed \in SUBSET IA
  /\ pods \in [Pods -> Pod]
  /\ podCache \in [Pods -> Pod]
  /\ faults \in 0..MaxFaults

\* At most one language detection pod is ever started for one
\* InstrumentedApplication: startDetection may run again and again, from stale
\* copies, after failed calls and after restarts, but detectLanguage creates a
\* pod only behind the Running status update (instrumentedapplication_controller
\* startDetection 188-207).
AtMostOnePod ==
  \A p, q \in Pods :
    /\ p # q
    /\ pods[p].state # "unborn"
    /\ pods[q].state # "unborn"
    => pods[p].owner # pods[q].owner
=============================================================================
