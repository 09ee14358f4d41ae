--------------------------- MODULE MCInstrumentor ---------------------------
(***************************************************************************)
(* The manager on small instances for TLC.                                  *)
(***************************************************************************)
EXTENDS Instrumentor, TLC

W(ask, svc) == [NoWish EXCEPT !.ask = ask, !.svc = svc]

Asking == {NoWish, W("true", NoName), W("rollback", NoName)}

\* The skip annotation keeps a workload from being instrumented too.
Skipped == [W("true", NoName) EXCEPT !.skipApps = TRUE]

Withdrawing == Asking \union {Skipped}

\* With a service name of the user's own.
Changing == Asking \union {W("true", "shop")}

\* Nothing asked, so that applications are detected; instrumentation and a log
\* type, which keeps applications from being detected; and neither.
Tagged == {NoWish, [W("true", NoName) EXCEPT !.logType = "nginx"], Skipped}

Naming == {W("true", NoName), W("true", "shop")}

\* The manager meets a workload that is up.
ColdInit == InstrumentorInit /\ wl.ready /\ target

ColdSpec == ColdInit /\ [][InstrumentorNext]_all

\* The manager starts again on a workload whose detection an earlier process has
\* seen to, and cleaned up after.
Known == [uid |-> 1, rv |-> 4,
          spec |-> [BlankSpec EXCEPT !.langs = TRUE],
          status |-> [BlankStatus EXCEPT !.phase = "Completed"]]

Cleaned == [p \in Pods |-> [owner |-> 1, state |-> "gone", outcome |-> "langs", name |-> NoName]]

WarmInitOf(langs) ==
  /\ ia = [Known EXCEPT !.spec.langs = langs] /\ iaCache = ia /\ iaFeed = {}
  /\ pods = Cleaned /\ podCache = Cleaned
  /\ faults = 0
  /\ dr = Idle /\ drQueued = TRUE /\ target = TRUE /\ crashes = 0
  /\ WorkloadInit /\ wl.ready /\ ours = {1}

WarmInit == WarmInitOf(TRUE)
WarmSpec == WarmInit /\ [][InstrumentorNext]_all
WarmFairSpec == WarmSpec /\ InstrumentorFairness

\* The same, where the earlier process may have found no languages.  The endless
\* writing of a rollback without them (see ComesToRest) has no finite graph, and is
\* left out.
Endless == ShouldRollBack(wl) /\ ~ia.spec.langs

EitherInit == (\E langs \in BOOLEAN : WarmInitOf(langs)) /\ ~Endless

EitherNext == InstrumentorNext /\ ~Endless'

EitherFairSpec == EitherInit /\ [][EitherNext]_all /\ InstrumentorFairness
=============================================================================
