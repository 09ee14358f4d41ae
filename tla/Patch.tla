------------------------------- MODULE Patch -------------------------------
(***************************************************************************)
(* The patchers (instrumentor/patch): what ModifyObject, RollbackPatch and  *)
(* UpdateActiveServiceName do to a pod template and to the names recorded   *)
(* in its InstrumentedApplication, called one after the other as            *)
(* processInstrumentedApps and processRollback call them.  The template is  *)
(* written first and the record after it, which may fail.                   *)
(*                                                                          *)
(* The four patchers differ in the variables they add and remove.  What a   *)
(* variable holds is told as far as the patchers look at it: what of it is  *)
(* the user's, how often the agent's part is there, and the service name.   *)
(***************************************************************************)
EXTENDS Naturals, SequencesExt

CONSTANTS
  Containers,    \* the containers of the template
  Langs,         \* languages the detector may find, a subset of Languages
  SvcNames,      \* values of the logz.io/service-name annotation
  OwnVars        \* environment variables a user may have set

VARIABLES
  tmpl,          \* the pod template
  app,           \* per container the language found and the recorded service name
  held,          \* the same in the reconcile's copy of the object: app, or to be stored
  own,           \* history: the user's environment
  rolled,        \* history: there has been a rollback
  lost           \* history: a record was lost since the agent was put in

vars == <<tmpl, app, held, own, rolled, lost>>

Languages == {"java", "python", "javascript", "dotnet"}

ASSUME PatchAssumption == Langs \subseteq Languages /\ <<>> \notin SvcNames

-----------------------------------------------------------------------------
\* The patchers: the variables Patch sets to a constant, the one it sets to a
\* value with the service name in it, the options it adds to what is there, and
\* the variables UnPatch removes from every container.

java ==
  [constant |-> {"NODE_IP", "POD_NAME"},
   named    |-> "OTEL_RESOURCE_ATTRIBUTES",
   options  |-> {"JAVA_TOOL_OPTIONS", "JAVA_OPTS"},
   removed  |-> {"NODE_IP", "POD_NAME", "OTEL_RESOURCE_ATTRIBUTES"}]

python ==
  [constant |-> {"NODE_IP", "POD_NAME", "PYTHONPATH", "OTEL_EXPORTER_OTLP_TRACES_PROTOCOL",
                 "OTEL_EXPORTER_OTLP_METRICS_PROTOCOL", "OTEL_EXPORTER_OTLP_ENDPOINT",
                 "OTEL_TRACES_EXPORTER", "OTEL_METRICS_EXPORTER"},
   named    |-> "OTEL_RESOURCE_ATTRIBUTES",
   options  |-> {},
   removed  |-> {"NODE_IP", "POD_NAME", "OTEL_PYTHON_LOG_CORRELATION", "PYTHONPATH",
                 "OTEL_EXPORTER_OTLP_ENDPOINT", "OTEL_RESOURCE_ATTRIBUTES",
                 "OTEL_TRACES_EXPORTER", "OTEL_EXPORTER_OTLP_TRACES_PROTOCOL",
                 "OTEL_EXPORTER_OTLP_METRICS_PROTOCOL", "OTEL_METRICS_EXPORTER"}]

\* Mutant: the variable UnPatch used to forget (README.md, changelog).
nodeJsForgets ==
  [constant |-> {"NODE_IP", "OTEL_NODEJS_DEBUG", "OTEL_TRACES_EXPORTER",
                 "OTEL_EXPORTER_OTLP_TRACES_PROTOCOL", "OTEL_RESOURCE_ATTRIBUTES",
                 "OTEL_EXPORTER_OTLP_TRACES_ENDPOINT"},
   named    |-> "OTEL_SERVICE_NAME",
   options  |-> {"NODE_OPTIONS"},
   removed  |-> {"NODE_IP", "OTEL_NODEJS_DEBUG",
                 "OTEL_TRACES_EXPORTER", "OTEL_EXPORTER_OTLP_TRACES_ENDPOINT",
                 "OTEL_EXPORTER_OTLP_TRACES_PROTOCOL", "OTEL_SERVICE_NAME"}]

nodeJs ==
  [constant |-> {"NODE_IP", "OTEL_NODEJS_DEBUG", "OTEL_TRACES_EXPORTER",
                 "OTEL_EXPORTER_OTLP_TRACES_PROTOCOL", "OTEL_RESOURCE_ATTRIBUTES",
                 "OTEL_EXPORTER_OTLP_TRACES_ENDPOINT"},
   named    |-> "OTEL_SERVICE_NAME",
   options  |-> {"NODE_OPTIONS"},
   removed  |-> {"NODE_IP", "OTEL_RESOURCE_ATTRIBUTES", "OTEL_NODEJS_DEBUG",
                 "OTEL_TRACES_EXPORTER", "OTEL_EXPORTER_OTLP_TRACES_ENDPOINT",
                 "OTEL_EXPORTER_OTLP_TRACES_PROTOCOL", "OTEL_SERVICE_NAME"}]

dotNet ==
  [constant |-> {"NODE_IP", "COR_ENABLE_PROFILING", "COR_PROFILER", "COR_PROFILER_PATH",
                 "OTEL_DOTNET_AUTO_HOME", "OTEL_EXPORTER_OTLP_ENDPOINT",
                 "OTEL_TRACES_EXPORTER", "OTEL_EXPORTER_OTLP_PROTOCOL",
                 "DOTNET_STARTUP_HOOKS", "DOTNET_ADDITIONAL_DEPS", "DOTNET_SHARED_STORE",
                 "OTEL_RESOURCE_ATTRIBUTES", "OTEL_METRICS_EXPORTER", "OTEL_LOGS_EXPORTER"},
   named    |-> "OTEL_SERVICE_NAME",
   options  |-> {},
   removed  |-> {"OTEL_RESOURCE_ATTRIBUTES", "OTEL_METRICS_EXPORTER", "OTEL_LOGS_EXPORTER",
                 "NODE_IP", "COR_ENABLE_PROFILING", "COR_PROFILER", "COR_PROFILER_PATH",
                 "OTEL_SERVICE_NAME", "OTEL_EXPORTER_OTLP_ENDPOINT",
                 "OTEL_DOTNET_AUTO_HOME", "OTEL_TRACES_EXPORTER",
                 "OTEL_EXPORTER_OTLP_PROTOCOL", "DOTNET_STARTUP_HOOKS",
                 "DOTNET_ADDITIONAL_DEPS", "DOTNET_SHARED_STORE"}]

patcherMap == [java |-> java, python |-> python, javascript |-> nodeJs, dotnet |-> dotNet]

-----------------------------------------------------------------------------
\* Environments.

Removed(ls) == UNION {patcherMap[l].removed : l \in ls}

Options(ls) == UNION {patcherMap[l].options : l \in ls}

Needed(l) == patcherMap[l].constant \union patcherMap[l].options \union {patcherMap[l].named}

Vars == OwnVars \union UNION {Needed(l) : l \in Languages}

\* What a user may have set a variable to: a text, the empty text, or nothing but
\* a reference (valueFrom), which to the patchers looks empty.
Own == {"none", "text", "empty", "ref"}

Names == {<<>>} \union SvcNames \union {<<c>> : c \in Containers}
           \union {<<"owner", c>> : c \in Containers}

\* The entries of one variable: what is the user's, how often the agent's part is
\* there, behind a user's option or in entries of its own, the service name in
\* it, and whether a blank of the patchers' making is there too.
Entry == [user : Own, agents : Nat, name : Names, blank : BOOLEAN]

Unset == [user |-> "none", agents |-> 0, name |-> <<>>, blank |-> FALSE]

\* The agent's part goes behind what is there of an option, and a blank between.
PatchEnv(e, v, l, name) ==
  [user   |-> e.user,
   agents |-> IF v \in Needed(l) THEN e.agents + 1 ELSE e.agents,
   name   |-> IF v = patcherMap[l].named THEN name ELSE e.name,
   blank  |-> IF v \in patcherMap[l].options /\ e # Unset THEN TRUE ELSE e.blank]

\* Mutant: options are removed like any other variable.
UnPatchEnvWhole(e, v, ls) == IF v \in Removed(ls) \union Options(ls) THEN Unset ELSE e

\* Of an option the agent's part is taken out, and an entry whose Value is empty
\* then is dropped, whoever's it was: a reference of the user's has an empty Value.
UnPatchEnv(e, v, ls) ==
  CASE v \in Removed(ls)                                            -> Unset
    [] v \in Options(ls) \ Removed(ls) /\ (e.user = "text" \/ e.blank) -> [e EXCEPT !.agents = 0]
    [] v \in Options(ls) \ Removed(ls) /\ e.user # "text" /\ ~e.blank  -> Unset
    [] OTHER                                                        -> e

\* Mutant: the old value is left beside the new one.
RenameEnvBeside(e, l, name) == [e EXCEPT !.agents = @ + 1, !.name = name]

\* Every entry of the variable is replaced.  The Python patcher writes a blank
\* before service.name= that Patch does not write.
RenameEnv(e, l, name) ==
  [user |-> "none", agents |-> 1, name |-> name, blank |-> l = "python"]

-----------------------------------------------------------------------------
\* Templates: env has an environment for every container there is.

InTemplate == DOMAIN tmpl.env

Found(a) == {a[c].lang : c \in Containers} \ {"none"}

\* calculateServiceName: with one container left in the template, it is named
\* after the owner too.
ServiceName(t, c) ==
  CASE t.svc # <<>>                     -> t.svc
    [] t.svc = <<>> /\ DOMAIN t.env # {c} -> <<c>>
    [] OTHER                            -> <<"owner", c>>

IsTracesInstrumented(t, a) == Found(a) # {} => t.flag

PatchContainer(t, c, l) == [v \in Vars |-> PatchEnv(t.env[c][v], v, l, ServiceName(t, c))]

\* ModifyObject runs the patcher of each language found, in the order of a map:
\* the language annotation is that of the last.
ModifyObject(t, a) ==
  LET hit == {c \in DOMAIN t.env : a[c].lang # "none"}
  IN {[svc |-> t.svc, flag |-> TRUE, lang |-> last,
       init |-> t.init \union {l \in Found(a) : l = "dotnet" => \E c \in hit : a[c].lang = l},
       volumes |-> t.volumes \union Found(a),
       env |-> [c \in DOMAIN t.env |->
                  IF c \in hit THEN PatchContainer(t, c, a[c].lang) ELSE t.env[c]]]
      : last \in Found(a)}

\* Mutant: the object is not told.
RecordNothing(t, a) == a

RecordNames(t, a) ==
  [c \in Containers |->
     IF c \in DOMAIN t.env /\ a[c].lang # "none"
     THEN [a[c] EXCEPT !.active = ServiceName(t, c)] ELSE a[c]]

\* RollbackPatch runs UnPatch of each language found, over all containers; the
\* volumes stay.
RollbackPatch(t, a) ==
  IF Found(a) = {} THEN t
  ELSE [t EXCEPT !.flag = FALSE, !.lang = "none", !.init = @ \ Found(a),
                 !.env = [c \in DOMAIN t.env |->
                            [v \in Vars |-> UnPatchEnv(t.env[c][v], v, Found(a))]]]

\* UpdateServiceNameEnv of one language: of the template's containers only those
\* whose name has changed are put back.
UpdateServiceNameEnv(s, l) ==
  LET t == s.tmpl
      due == {c \in DOMAIN t.env : /\ s.app[c].lang = l
                                   /\ s.app[c].active # <<>>
                                   /\ s.app[c].active # ServiceName(t, c)}
  IN IF due = {} THEN s
     ELSE [tmpl |-> [t EXCEPT !.env = [c \in due |->
                       [t.env[c] EXCEPT ![patcherMap[l].named] = RenameEnv(@, l, ServiceName(t, c))]]],
           app |-> [c \in Containers |->
                      IF c \in due THEN [s.app[c] EXCEPT !.active = ServiceName(t, c)]
                      ELSE s.app[c]]]

\* One language after the other, each on what the ones before have left.
UpdateEach(t, a, order) ==
  LET after[i \in 0..Len(order)] ==
        IF i = 0 THEN [tmpl |-> t, app |-> a] ELSE UpdateServiceNameEnv(after[i - 1], order[i])
  IN after[Len(order)]

UpdateActiveServiceName(t, a) == {UpdateEach(t, a, order) : order \in SetToSeqs(Found(a))}

\* The API server refuses a variable with both a value and a reference.
Accepts(t) ==
  \A c \in DOMAIN t.env : \A v \in Options(Languages) :
    ~(t.env[c][v].user = "ref" /\ t.env[c][v].agents > 0)

-----------------------------------------------------------------------------
\* A reconcile begins with the object as it is stored, and ends when what it
\* holds of it has been stored or lost.
Begins == held = app

Instrument ==
  /\ Begins /\ ~IsTracesInstrumented(tmpl, app)
  /\ tmpl' \in ModifyObject(tmpl, app) /\ Accepts(tmpl')
  /\ held' = RecordNames(tmpl, app)
  /\ lost' = FALSE
  /\ UNCHANGED <<app, own, rolled>>

Rename ==
  /\ Begins /\ IsTracesInstrumented(tmpl, app)
  /\ \E s \in UpdateActiveServiceName(tmpl, app) : tmpl' = s.tmpl /\ held' = s.app
  /\ UNCHANGED <<app, own, rolled, lost>>

Rollback ==
  /\ Begins /\ IsTracesInstrumented(tmpl, app)
  /\ tmpl' = RollbackPatch(tmpl, app)
  /\ held' = [c \in Containers |-> [app[c] EXCEPT !.active = <<>>]]
  /\ rolled' = TRUE
  /\ UNCHANGED <<app, own, lost>>

\* The update of the object behind that of the template.
StoreRecord == held # app /\ app' = held /\ UNCHANGED <<tmpl, held, own, rolled, lost>>

\* It fails, conflicts, or the process ends before.
LoseRecord ==
  /\ held # app
  /\ held' = app /\ lost' = TRUE
  /\ UNCHANGED <<tmpl, app, own, rolled>>

\* The user sets or removes the service name annotation.
Annotate ==
  /\ \E s \in SvcNames \union {<<>>} : tmpl' = [tmpl EXCEPT !.svc = s]
  /\ UNCHANGED <<app, held, own, rolled, lost>>

Init ==
  /\ own \in [Containers -> [OwnVars -> Own]]
  /\ \E ls \in [Containers -> Langs \union {"none"}] :
       app = [c \in Containers |-> [lang |-> ls[c], active |-> <<>>]]
  /\ held = app
  /\ tmpl = [svc |-> <<>>, flag |-> FALSE, lang |-> "none", init |-> {}, volumes |-> {},
             env |-> [c \in Containers |->
                        [v \in Vars |->
                           [Unset EXCEPT !.user = IF v \in OwnVars THEN own[c][v] ELSE "none"]]]]
  /\ rolled = FALSE /\ lost = FALSE

Next == Instrument \/ Rename \/ Rollback \/ StoreRecord \/ LoseRecord \/ Annotate

Spec == Init /\ [][Next]_vars

-----------------------------------------------------------------------------
\* A template that is not instrumented holds nothing of the agent's in any
\* environment and runs none of its init containers, after any sequence of
\* calls and whatever has become of the record (README.md:18: rollback "will
\* delete the opentelemetry instrumentation"; UnPatch of the four patchers).
NothingLeftBehind ==
  ~tmpl.flag =>
    tmpl.init = {} /\ \A c \in InTemplate : \A v \in Vars : tmpl.env[c][v].agents = 0

\* An instrumented container has everything its agent needs, once, and nothing of
\* another's, whichever of the records behind its instrumenting, renaming and
\* rolling back were lost: a second reconcile goes by the template alone
\* (root.go 108-134), and a renaming that starts from an old record must replace
\* what it finds (java.go 233-247).
AgentComplete ==
  tmpl.flag =>
    \A c \in InTemplate :
      LET l == app[c].lang
          needed == IF l = "none" THEN {} ELSE Needed(l)
      IN /\ l # "none" => l \in tmpl.init
         /\ \A v \in Vars : tmpl.env[c][v].agents = IF v \in needed THEN 1 ELSE 0

\* While no record is lost, the name in a container's environment is the one the
\* object records for it, or is about to: that it has to change is found by
\* comparing with the record only (root.go 146-156), which renamings language by
\* language, rollbacks and containers dropped on the way must not lead astray.
NameRecorded ==
  tmpl.flag /\ ~lost =>
    \A c \in InTemplate :
      held[c].lang # "none" =>
        tmpl.env[c][patcherMap[held[c].lang].named].name = held[c].active

\* What the user has set of a variable stays, but for what a renaming replaces,
\* what a rollback removes by name, and, of the options, values that are empty to
\* the patchers: in any container of the template a rollback drops an option that
\* is empty or a reference (java.go 198, 204, nodejs.go 205).
UserEnvKept ==
  \A c \in InTemplate : \A v \in OwnVars :
    \/ tmpl.env[c][v].user = own[c][v]
    \/ app[c].lang # "none" /\ v = patcherMap[app[c].lang].named
    \/ rolled /\ v \in Removed(Found(app))
    \/ rolled /\ v \in Options(Found(app)) /\ own[c][v] \in {"empty", "ref"}

\* README.md:19: logz.io/service-name "will set active service name for your
\* opentelemetry instrumentation": no container leaves the template for it.
ContainersKept == InTemplate = Containers
=============================================================================
