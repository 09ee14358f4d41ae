---------------------------- MODULE MCDetection ----------------------------
(***************************************************************************)
(* Detection on small instances for TLC.                                    *)
(***************************************************************************)
EXTENDS Detection, TLC

\* Detection pods are interchangeable: none is named by any definition.
PodSymmetry == Permutations(Pods)

\* The workload keeps a running pod.
SteadyInit == Init /\ target
SteadyNext == Next /\ UNCHANGED target
SteadyFairSpec == SteadyInit /\ [][SteadyNext]_vars /\ Fairness
=============================================================================
