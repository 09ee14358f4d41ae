----------------------------- MODULE MCDetector -----------------------------
(***************************************************************************)
(* The detector on small instances for TLC.                                 *)
(***************************************************************************)
EXTENDS Detector, TLC

Web == <<"web">>
Sidecar == <<"web", "-sidecar">>
Db == <<"db">>
Istio == <<"istio-proxy">>

SomeContainers == {Web, Sidecar, Db, Istio}

SomeProxies == {Istio}

\* Names that do and do not begin another one, and nothing but a proxy.
SomeTargets == {<<Istio, Web, Db>>, <<Web, Sidecar>>, <<Istio>>}

\* A shell that is going to exec; a Java server; a script in a .NET image that
\* runs two applications and has two names; a Node.js program traced by our
\* agent; an image with an odd package.json; a program that may not be read.
Java == [Blank EXCEPT !.exe = {"java"}, !.cmd = {"java", "kafka-server"}]

Script == [Blank EXCEPT !.cmd = {"node", "nginx", "mysql"},
             !.env = [NoEnv EXCEPT !.net = TRUE, !.attr = "a", !.name = "b"],
             !.files = {[kind |-> ".csproj", otel |-> TRUE, typed |-> TRUE]}]

Traced == [Blank EXCEPT !.exe = {"node"},
             !.env = [NoEnv EXCEPT !.ours = TRUE, !.attr = "a"]]

Odd == [Blank EXCEPT !.exe = {"node"},
          !.files = {[kind |-> "package.json", otel |-> TRUE, typed |-> FALSE]}]

Shut == [Blank EXCEPT !.cmd = {"java"}, !.open = FALSE]

SomePrograms == {Java, Odd}

\* At the start a process of no language or of several, anywhere, and perhaps
\* one of the last container; room for one more.
SomeTables ==
  {[p \in Pids |-> CASE p = 1 -> a [] p = 2 -> b [] OTHER -> Gone] :
     a \in [home : {Web, Istio, Host}, prog : {Blank, Script, Shut}],
     b \in [home : {Web, Db, Sidecar}, prog : {Traced, Java}] \union {Gone}}

=============================================================================
