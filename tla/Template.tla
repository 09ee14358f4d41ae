------------------------------ MODULE Template ------------------------------
(***************************************************************************)
(* What the manager promises the owner of a workload, without caches,       *)
(* resourceVersions, failing calls or restarts: an agent is put into a      *)
(* template that has none, once languages have been found in its            *)
(* containers, and under the service name the template asks for at that     *)
(* moment; it is taken out while the template asks for the rollback; and    *)
(* nothing of what the owner wrote is ever touched.                         *)
(***************************************************************************)
EXTENDS Naturals

CONSTANT NoName

VARIABLES
  name,       \* the service name the template asks for
  withdrawn,  \* the template asks for the rollback
  rest,       \* all there is of the workload but the agent
  agent,      \* how often the agent is in the template
  env,        \* the service name in the agent's environment
  found,      \* languages have been reported
  work        \* what the manager is about

owned == <<name, withdrawn, rest>>

vars == <<owned, agent, env, found, work>>

Init == agent = 0 /\ env = NoName

\* The manager's steps, which change what it is about and nothing the owner has.
Working == work' # work /\ UNCHANGED <<owned, found>>

Instrument == Working /\ found /\ agent = 0 /\ agent' = 1 /\ env' = name

Rename == Working /\ agent = 1 /\ env' = name /\ UNCHANGED agent

RollBack == Working /\ withdrawn /\ agent' = 0 /\ env' = NoName

Look == Working /\ UNCHANGED <<agent, env>>

\* The owner's steps: an edit, and a whole template put in the place of this one.
Edit == UNCHANGED <<agent, env, found, work>>

Replace == agent' = 0 /\ env' = NoName /\ UNCHANGED <<found, work>>

\* The first report of a language.
Find == ~found /\ found' /\ UNCHANGED <<owned, agent, env, work>>

Next == Instrument \/ Rename \/ RollBack \/ Look \/ Edit \/ Replace \/ Find

Spec == Init /\ [][Next]_vars
=============================================================================
