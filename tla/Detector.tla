------------------------------ MODULE Detector ------------------------------
(***************************************************************************)
(* The detection pod's program (detectors/main.go): it goes through /proc   *)
(* once for every container it is asked about, reads what it can of each    *)
(* process that belongs to the container, and publishes which language and  *)
(* which application it has seen.                                           *)
(*                                                                          *)
(* Every read of /proc is a step: meanwhile the node's processes start,     *)
(* become other programs and exit.  Texts are abstracted to the needles the *)
(* inspectors look for in them.                                             *)
(***************************************************************************)
EXTENDS Naturals, Sequences, FiniteSets, SequencesExt

CONSTANTS
  Pids,         \* process numbers
  Containers,   \* names containers may have, each a sequence: prefixes matter
  Proxies,      \* the names skipContainer knows
  Targets,      \* pods to probe: sequences of container names
  Programs,     \* what processes may go on to run
  Tables,       \* the processes there may be when the detector starts
  Services,     \* service names
  Batch,        \* entries per Readdir
  MaxEntries,   \* entries that fit in a termination message
  MaxChurn      \* bound: changes of the process table

VARIABLES
  pod,          \* the containers of the probed pod
  table,        \* the processes of the node
  scan,         \* the detector: where it is and what it holds
  report,       \* its findings so far
  outcome,      \* what the pod has come to, as in Cluster
  lived,        \* history: every process there has been
  settled,      \* history: the processes that have been there all along
  churn

dvars == <<pod, table, scan, report, outcome, lived, settled, churn>>

node == <<pod, table, lived, settled, churn>>

Languages == <<"java", "python", "dotnet", "javascript">>

Applications == {"kafka-server", "mysql", "nginx"}

\* What the inspectors look for in the text of exe and cmdline; "OTEL" stands
\* for OTLP too.
Needles == {"java", "python", "node", "OTEL"} \union Applications

NoName == ""

Unset == "unset"

\* net: a variable with ASPNET or DOTNET in it; otlp: one named after OTEL or
\* OTLP, but for the next three; ours: OTEL_RESOURCE_ATTRIBUTES shows our own
\* agent; attr: the service.name in there; name: OTEL_SERVICE_NAME.
Env == [net : BOOLEAN, otlp : BOOLEAN, ours : BOOLEAN,
        attr : Services \union {Unset}, name : Services \union {Unset}]

NoEnv == [net |-> FALSE, otlp |-> FALSE, ours |-> FALSE, attr |-> Unset, name |-> Unset]

\* A file of dependencies: whether it names an OpenTelemetry package, and
\* whether all its versions are strings.
File == [kind : {"package.json", "requirements.txt", "Startup.cs", ".csproj"},
         otel : BOOLEAN, typed : BOOLEAN]

\* What a program shows to the detector.  The command line is anybody's to read;
\* of a program that is not open, another user's, it is all there is.
Program ==
  {prog \in [exe : SUBSET Needles, cmd : SUBSET Needles, env : Env, files : SUBSET File,
             open : BOOLEAN] :
     ~prog.open => prog.exe = {} /\ prog.env = NoEnv /\ prog.files = {}}

Blank == [exe |-> {}, cmd |-> {}, env |-> NoEnv, files |-> {}, open |-> TRUE]

\* home is the container a process runs in; Host, like no container's name, is
\* none of the pod's.
Host == <<"/">>

Process == [home : Containers \union {Host}, prog : Program]

\* Not reaped yet: still listed, but there is nothing left to read.
Zombie == [home |-> Host, prog |-> Blank]

Gone == [home |-> <<"//">>, prog |-> Blank]

Alive(p) == table[p] # Gone

ASSUME DetectorAssumption ==
  /\ Pids \subseteq Nat \ {0} /\ IsFiniteSet(Pids) /\ {Host, Gone.home} \cap Containers = {}
  /\ NoName \in Services /\ Unset \notin Services
  /\ Programs \subseteq Program
  /\ Targets \subseteq Seq(Containers)
  /\ Tables \subseteq [Pids -> Process \union {Gone}]
  /\ Batch \in Nat \ {0} /\ MaxEntries \in Nat /\ MaxChurn \in Nat

-----------------------------------------------------------------------------
\* The arguments: the controller joins the names it does not skip, the detector
\* splits them again.  Of no name at all that makes one, the empty one.  A name
\* is told by its place in the pod, or 0.

getContainerNames == {i \in DOMAIN pod : pod[i] \notin Proxies}

parseArgs == IF getContainerNames = {} THEN {0} ELSE getContainerNames

Name(k) == IF k = 0 THEN <<>> ELSE pod[k]

Asked == {Name(k) : k \in parseArgs}

Least(S) == CHOOSE n \in S : \A m \in S : n <= m

\* Mutant: the pod is looked for, the container is not.
InPod(proc, name) == proc.home \in Containers

\* A process belongs to a container if the root of a mount contains
\* <pod uid>/containers/<name>, as that of the termination log the kubelet mounts
\* there.  What follows the name is not looked at.
InContainer(proc, name) == proc.home \in Containers /\ IsPrefix(name, proc.home)

-----------------------------------------------------------------------------
\* The inspectors.  d is what was read of a process.

Said(d) == d.exe \union d.cmd

\* What the inspector of a language goes by; net is what the .NET inspector finds
\* in the environment.
Detects(lang, d, net) ==
  CASE lang = "java"       -> "java" \in Said(d)
    [] lang = "python"     -> "python" \in Said(d)
    [] lang = "dotnet"     -> net
    [] lang = "javascript" -> "node" \in Said(d)

Hits(d, net) == {i \in DOMAIN Languages : Detects(Languages[i], d, net)}

\* Mutant: the inspector asked last wins.
LanguageLast(d, net) ==
  LET hits == Hits(d, net)
  IN IF hits = {} THEN <<>> ELSE <<Languages[CHOOSE i \in hits : \A j \in hits : j <= i]>>

\* Mutant: a process of no language counts as one of an unknown language.
LanguageUnknown(d, net) ==
  LET hits == Hits(d, net) IN IF hits = {} THEN <<"unknown">> ELSE <<Languages[Least(hits)]>>

\* The first inspector that detects something is the last one asked.
Language(d, net) ==
  LET hits == Hits(d, net) IN IF hits = {} THEN <<>> ELSE <<Languages[Least(hits)]>>

\* What may be found of applications: one of those of the first process that has
\* any.  findAppMatch takes one in the order of a Go map.
DetectApplication(found) ==
  LET hits == {i \in DOMAIN found : Said(found[i]) \cap Applications # {}}
  IN IF hits = {} THEN {<<>>}
     ELSE {<<a>> : a \in Said(found[Least(hits)]) \cap Applications}

NamesOf(env) == {env.attr, env.name} \ {Unset}

\* The service name of the first process that has one; a process may have two.
DetectServiceName(found) ==
  LET hits == {i \in DOMAIN found : NamesOf(found[i].env) # {}}
  IN IF hits = {} THEN {NoName} ELSE NamesOf(found[Least(hits)].env)

otelInEnv(env) == env.otlp \/ env.ours \/ NamesOf(env) # {}

OpenTelemetry(d) == ~d.env.ours /\ (otelInEnv(d.env) \/ "OTEL" \in d.cmd \/ d.deps)

DetectOpenTelemetry(found) == \E i \in DOMAIN found : OpenTelemetry(found[i])

-----------------------------------------------------------------------------
Details == [pid : Pids, exe : SUBSET Needles, cmd : SUBSET Needles, env : Env, deps : BOOLEAN]

NotRead(p) == [pid |-> p, exe |-> {}, cmd |-> {}, env |-> NoEnv, deps |-> FALSE]

Steps == {"list", "mounts", "exe", "cmdline", "environ", "files", "inspect", "conclude",
          "publish", "done"}

\* k is the name asked about, todo is what is left of a batch and cursor how far
\* the listing has got; at is the process being read, found are those read, and
\* said the languages of the first ones inspected.
Start == [pc |-> "list", k |-> Least(parseArgs), cursor |-> 0, todo |-> {}, at |-> <<>>, found |-> <<>>,
          next |-> 1, said |-> <<>>]

At(pc) == scan.pc = pc

\* log.Fatalf, or a panic: the pod fails and nothing is published.
Fatal ==
  /\ outcome' = "failed"
  /\ scan' = [Start EXCEPT !.pc = "done"]
  /\ UNCHANGED <<report, node>>

Continue(next) == scan' = next /\ UNCHANGED <<report, outcome, node>>

\* The processes listed next: the lowest numbers the listing has not passed.
Ahead == {p \in Pids : Alive(p) /\ p > scan.cursor}

NextBatch == {p \in Ahead : Cardinality({q \in Ahead : q <= p}) <= Batch}

\* The end of the listing, and a batch of it.
Listed == Continue([scan EXCEPT !.pc = "inspect"])

Batched(cursor) == Continue([scan EXCEPT !.pc = "mounts", !.todo = NextBatch, !.cursor = cursor])

\* Mutant: one batch is taken for all of /proc.
ReaddirOnce ==
  /\ At("list")
  /\ \/ (Ahead = {} \/ scan.cursor # 0) /\ Listed
     \/ scan.cursor = 0 /\ \E p \in NextBatch : (\A q \in NextBatch : q <= p) /\ Batched(p)

\* Mutant: every batch is the first one.
ReaddirAgain ==
  /\ At("list")
  /\ \/ Ahead = {} /\ Listed
     \/ Ahead # {} /\ Batched(scan.cursor)

\* Readdir answers a batch of /proc, or the end of it.
Readdir ==
  /\ At("list")
  /\ \/ Ahead = {} /\ Listed
     \/ \E p \in NextBatch : (\A q \in NextBatch : q <= p) /\ Batched(p)

\* The scan behind process p.
Without(p) == [scan EXCEPT !.todo = @ \ {p}, !.at = <<>>,
                           !.pc = IF scan.todo = {p} THEN "list" ELSE "mounts"]

\* Mutant: a process whose mounts are not there any more ends the detector.
GetMountInfoStrict ==
  /\ At("mounts")
  /\ \E p \in scan.todo :
       /\ \A q \in scan.todo : p <= q
       /\ \/ ~Alive(p) /\ Fatal
          \/ Alive(p) /\ InContainer(table[p], Name(scan.k))
             /\ Continue([scan EXCEPT !.pc = "exe", !.at = NotRead(p)])
          \/ Alive(p) /\ ~InContainer(table[p], Name(scan.k)) /\ Continue(Without(p))

\* The mounts of the next process.  A process that has gone is passed over.
GetMountInfo ==
  /\ At("mounts")
  /\ \E p \in scan.todo :
       /\ \A q \in scan.todo : p <= q
       /\ IF InContainer(table[p], Name(scan.k))
          THEN Continue([scan EXCEPT !.pc = "exe", !.at = NotRead(p)])
          ELSE Continue(Without(p))

\* The link, or the command line, of whatever the process runs by now.  That it
\* cannot be read, of a process that has gone or is another user's, is no error.
Readlink ==
  /\ At("exe")
  /\ Continue([scan EXCEPT !.pc = "cmdline", !.at.exe = table[scan.at.pid].prog.exe])

ReadCmdline ==
  /\ At("cmdline")
  /\ Continue([scan EXCEPT !.pc = "environ", !.at.cmd = table[scan.at.pid].prog.cmd])

\* The environment must be there to be read: the first process to exit in between,
\* or to be another user's, ends the detector.
ReadEnviron ==
  /\ At("environ")
  /\ IF Alive(scan.at.pid) /\ table[scan.at.pid].prog.open
     THEN Continue([scan EXCEPT !.pc = "files", !.at.env = table[scan.at.pid].prog.env])
     ELSE Fatal

Handled(file) == file.kind # ".csproj"

\* extractDependencies looks a file's handler up by its name, under which there
\* is none for any .csproj file.
extractDependencies(files) == \E f \in files : Handled(f) /\ f.otel

\* A version that is no string makes the handler of package.json panic.
Panics(files) == \E f \in files : f.kind = "package.json" /\ ~f.typed

ReadFiles ==
  LET p == scan.at.pid
      files == table[p].prog.files
  IN /\ At("files")
     /\ IF Panics(files)
        THEN Fatal
        ELSE Continue([Without(p) EXCEPT
               !.found = Append(@, [scan.at EXCEPT !.deps = extractDependencies(files)])])

\* DetectLanguage, process by process.  The .NET inspector reads the environment
\* again.
Inspect ==
  /\ At("inspect")
  /\ IF scan.next > Len(scan.found)
     THEN Continue([scan EXCEPT !.pc = "conclude"])
     ELSE LET d == scan.found[scan.next]
          IN Continue([scan EXCEPT !.next = @ + 1,
                                   !.said = @ \o Language(d, table[d.pid].prog.env.net)])

\* The rest of main's loop goes over what has been read.
Conclude ==
  /\ At("conclude")
  /\ \E name \in DetectServiceName(scan.found), app \in DetectApplication(scan.found) :
       LET entry == [container |-> Name(scan.k), lang |-> Head(scan.said),
                     otel |-> DetectOpenTelemetry(scan.found), name |-> name]
       IN report' = [langs |-> IF scan.said = <<>> THEN report.langs
                               ELSE Append(report.langs, entry),
                     apps |-> IF app = <<>> THEN report.apps
                              ELSE Append(report.apps,
                                          [container |-> Name(scan.k), app |-> app[1]])]
  /\ LET later == {k \in parseArgs : k > scan.k}
     IN scan' = IF later = {} THEN [Start EXCEPT !.pc = "publish"]
                ELSE [Start EXCEPT !.k = Least(later)]
  /\ UNCHANGED <<outcome, node>>

\* What the controller can make of the message.
Read ==
  CASE Len(report.langs) + Len(report.apps) > MaxEntries -> "garbled"
    [] report.langs # <<>> /\ report.apps # <<>>         -> "both"
    [] report.langs # <<>> /\ report.apps = <<>>         -> "langs"
    [] report.langs = <<>> /\ report.apps # <<>>         -> "apps"
    [] OTHER                                             -> "neither"

\* The kubelet cuts a termination message off at its limit.
Publish ==
  /\ At("publish")
  /\ outcome' \in {Read, "failed"}
  /\ scan' = [Start EXCEPT !.pc = "done"]
  /\ UNCHANGED <<report, node>>

Detect ==
  \/ Readdir \/ GetMountInfo \/ Readlink \/ ReadCmdline \/ ReadEnviron \/ ReadFiles
  \/ Inspect \/ Conclude \/ Publish
-----------------------------------------------------------------------------
\* The node's processes meanwhile.

Life(p, proc) == [pid |-> p, proc |-> proc]

Becomes(p, proc) ==
  /\ churn < MaxChurn
  /\ churn' = churn + 1
  /\ table' = [table EXCEPT ![p] = proc]
  /\ settled' = settled \ {p}
  /\ UNCHANGED <<pod, scan, report, outcome>>

\* Numbers are handed out in increasing order.  That they start again from the
\* lowest free one takes longer than a scan.
Fork ==
  \E p \in Pids, c \in Range(pod) \union {Host}, prog \in Programs :
    LET proc == [home |-> c, prog |-> prog]
    IN /\ \A l \in lived : l.pid < p
       /\ Becomes(p, proc)
       /\ lived' = lived \union {Life(p, proc)}

Exec ==
  \E p \in Pids, prog \in Programs :
    LET proc == [home |-> table[p].home, prog |-> prog]
    IN /\ Alive(p) /\ table[p] # Zombie /\ prog # table[p].prog
       /\ Becomes(p, proc)
       /\ lived' = lived \union {Life(p, proc)}

Exit ==
  \E p \in Pids :
    /\ Alive(p)
    /\ \/ table[p] # Zombie /\ Becomes(p, Zombie)
       \/ Becomes(p, Gone)
    /\ UNCHANGED lived

Processes == Fork \/ Exec \/ Exit

DetectorInit ==
  /\ pod \in Targets
  /\ table \in {t \in Tables : \A p \in Pids : t[p].home \in Range(pod) \union {Host, Gone.home}}
  /\ scan = Start
  /\ report = [langs |-> <<>>, apps |-> <<>>]
  /\ outcome = "none"
  /\ settled = {p \in Pids : Alive(p)}
  /\ lived = {Life(p, table[p]) : p \in settled}
  /\ churn = 0

DetectorNext == Detect \/ Processes

DetectorSpec == DetectorInit /\ [][DetectorNext]_dvars

\* The detector is scheduled.
DetectorFairSpec == DetectorSpec /\ WF_dvars(Detect)

-----------------------------------------------------------------------------
(***************************************************************************)
(* Properties.                                                             *)
(***************************************************************************)

LangEntry == [container : Containers \union {<<>>}, lang : Range(Languages),
              otel : BOOLEAN, name : Services]

AppEntry == [container : Containers \union {<<>>}, app : Applications]

Scan == [pc : Steps, k : parseArgs, cursor : Pids \union {0}, todo : SUBSET Pids,
         at : Details \union {<<>>}, found : Seq(Details), next : Nat \ {0},
         said : Seq(Range(Languages))]

\* The type of every variable.
DetectorTypeOK ==
  /\ pod \in Targets
  /\ table \in [Pids -> Process \union {Gone}]
  /\ scan \in Scan
  /\ report \in [langs : Seq(LangEntry), apps : Seq(AppEntry)]
  /\ outcome \in {"none", "failed", "garbled", "both", "langs", "apps", "neither"}
  /\ lived \in SUBSET [pid : Pids, proc : Process]
  /\ settled \in SUBSET Pids
  /\ churn \in 0..MaxChurn

\* What a program shows of a language to the inspectors.
Shows(prog, lang) ==
  CASE lang = "java"       -> "java" \in Said(prog)
    [] lang = "python"     -> "python" \in Said(prog)
    [] lang = "javascript" -> "node" \in Said(prog)
    [] lang = "dotnet"     -> prog.env.net

\* No name that is asked about is the beginning of another container's.
PrefixFree ==
  \A a \in Asked, c \in Range(pod) : IsPrefix(a, c) => a = c

\* A container is reported with a language only if a process that showed it has
\* run in that container, though exe, command line and environment are read one
\* after the other of processes that exit and exec meanwhile, and the .NET
\* inspector reads the environment again (process.go 215-275, dotnet.go 38).
\* Where a name is the beginning of another's it is not so: process.go:220
\* looks for the name as a substring.
LanguagesAreTheirs ==
  PrefixFree =>
    \A i \in DOMAIN report.langs :
      \E l \in lived :
        /\ l.proc.home = report.langs[i].container
        /\ Shows(l.proc.prog, report.langs[i].lang)

Published == outcome \notin {"none", "failed"}

\* A process that has been there all along and shows a language is not missed,
\* whatever comes and goes around it while /proc is listed batch by batch
\* (process.go 188-195): its container has a language in the report.
NothingMissed ==
  Published =>
    \A p \in settled, lang \in Range(Languages), a \in Asked :
      InContainer(table[p], a) /\ Shows(table[p].prog, lang)
        => \E i \in DOMAIN report.langs : report.langs[i].container = a

\* The processes of container a that satisfy P.
Those(a, P(_)) == {p \in Pids : InContainer(table[p], a) /\ P(table[p].prog)}

FirstShown(prog) == Languages[Least({i \in DOMAIN Languages : Shows(prog, Languages[i])})]

Speaking(prog) == \E lang \in Range(Languages) : Shows(prog, lang)

RunsApps(prog) == Said(prog) \cap Applications # {}

\* Of processes that do not change, the report is what the first process of a
\* container that shows a language, and the first that is an application, say of
\* it: the first language of the list, any application.  Every container that is
\* asked about is in it that way, and no other.
QuietScanIsExact ==
  Published /\ churn = 0 =>
    /\ {<<e.container, e.lang>> : e \in Range(report.langs)}
         = {<<a, FirstShown(table[Least(Those(a, Speaking))].prog)>> :
              a \in {b \in Asked : Those(b, Speaking) # {}}}
    /\ {e.container : e \in Range(report.apps)} = {a \in Asked : Those(a, RunsApps) # {}}
    /\ \A e \in Range(report.apps) :
         e.app \in Said(table[Least(Those(e.container, RunsApps))].prog)

\* The detection of a pod fails, other than in the publishing, only for a process
\* that has run in the container asked about: one that has exited since, that may
\* not be read, or that has an odd package.json.  Processes of other containers,
\* and those gone before their mounts are read, never fail it (process.go 212-215,
\* 239-243, main.go 45-48).
FailsForCause ==
  [][outcome' = "failed" /\ outcome = "none" /\ ~At("publish")
       => \E l \in lived :
            /\ InContainer(l.proc, Name(scan.k))
            /\ \/ ~Alive(l.pid)
               \/ ~table[l.pid].prog.open
               \/ Panics(table[l.pid].prog.files)]_dvars

\* The detector ends, although processes come as it goes: the listing only moves
\* up (process.go 188-192).
Terminates == <>(outcome # "none")
=============================================================================
