----------------------------- MODULE Lifecycle -----------------------------
(***************************************************************************)
(* What the InstrumentedApplication controller promises, without caches,    *)
(* resourceVersions, retries or crashes: an object walks through the        *)
(* phases of api/v1alpha1 InstrumentationPhase in order, is probed by at    *)
(* most one detection pod in its life and only once it is Running, and is   *)
(* concluded at any time once some pod, of it or of an earlier object of    *)
(* the same name, has been started.                                         *)
(***************************************************************************)
EXTENDS Naturals

VARIABLES
  uid,        \* the object there is, 0 for none
  last,       \* every uid so far is at most this
  phase,      \* its phase
  probed,     \* the objects a detection pod was started for
  launched    \* detection pods started

vars == <<uid, last, phase, probed, launched>>

Init == uid = 0 /\ last = 0 /\ phase = "" /\ probed = {} /\ launched = 0

\* Versions pass without anything to see.
Age(now) == last' = now /\ now >= last

Appear ==
  /\ uid = 0
  /\ uid' > last /\ Age(uid')
  /\ phase' = ""
  /\ UNCHANGED <<probed, launched>>

Vanish ==
  /\ uid # 0
  /\ uid' = 0 /\ phase' = ""
  /\ Age(last')
  /\ UNCHANGED <<probed, launched>>

Move(from, to) ==
  /\ uid # 0 /\ phase \in from
  /\ phase' = to
  /\ Age(last')
  /\ UNCHANGED <<uid, probed, launched>>

Admit == Move({""}, "Pending")

Begin == Move({"Pending"}, "Running")

\* Not only from Running: the result of a pod of an object that has vanished may
\* conclude its successor of the same name before that is even Pending.
Conclude == probed # {} /\ Move({"", "Pending", "Running"}, "Completed")

\* A pod may still be started for an object that has vanished meanwhile.
Probe ==
  \E u \in 1..last \ probed :
    /\ u = uid => phase \in {"Running", "Completed"}
    /\ probed' = probed \union {u}
    /\ launched' = launched + 1
    /\ UNCHANGED <<uid, last, phase>>

Pass == Age(last') /\ UNCHANGED <<uid, phase, probed, launched>>

Next == Appear \/ Vanish \/ Admit \/ Begin \/ Conclude \/ Probe \/ Pass

Spec == Init /\ [][Next]_vars
=============================================================================
