-------------------------- MODULE QuietScanProofs --------------------------
(***************************************************************************)
(* What the detector reports of processes that do not change is exactly     *)
(* what the first of them say, for every pod, process table and batch size: *)
(* proofs about module Detector that go on from those of DetectorProofs.    *)
(***************************************************************************)
EXTENDS DetectorProofs

(***************************************************************************)
(* The inductive invariant.  The processes found are those of the container *)
(* that have been passed, in the order of their numbers, so that the first  *)
(* that has something to say is the one of the lowest number.               *)
(***************************************************************************)

Quiet == churn = 0 /\ outcome # "failed"

SettledAll == \A p \in Pids : Alive(p) => p \in settled

AtOwn ==
  scan.pc \in Reading => /\ InContainer(table[scan.at.pid], Name(scan.k))
                         /\ \A q \in scan.todo : scan.at.pid <= q

TodoBehind == \A q \in scan.todo : q <= scan.cursor

FoundOwn == \A i \in DOMAIN scan.found : InContainer(table[scan.found[i].pid], Name(scan.k))

FoundBehind ==
  \A i \in DOMAIN scan.found :
    /\ scan.found[i].pid <= scan.cursor
    /\ \A q \in scan.todo : scan.found[i].pid < q

FoundSorted ==
  \A i, j \in DOMAIN scan.found : i < j => scan.found[i].pid < scan.found[j].pid

Speaks(i) == Speaking(table[scan.found[i].pid].prog)

\* The first of the processes inspected so far that speaks is the first heard.
SaidFirst ==
  scan.said # <<>> =>
    \E i \in DOMAIN scan.found :
      /\ i < scan.next /\ Speaks(i)
      /\ \A j \in DOMAIN scan.found : j < i => ~Speaks(j)
      /\ scan.said[1] = FirstShown(table[scan.found[i].pid].prog)

\* The places of the names the report is complete about.
Passed == {j \in parseArgs : j < scan.k \/ scan.pc = "publish" \/ Published}

PassedNames == {Name(j) : j \in Passed}

Speakers(a) == {p \in Pids : InContainer(table[p], a) /\ Speaking(table[p].prog)}

Runners(a) == {p \in Pids : InContainer(table[p], a) /\ RunsApps(table[p].prog)}

LangIsFirst(e) ==
  Speakers(e.container) # {} /\ e.lang = FirstShown(table[Least(Speakers(e.container))].prog)

AppIsFirst(e) ==
  Runners(e.container) # {} /\ e.app \in Said(table[Least(Runners(e.container))].prog)

LangsExact ==
  \A i \in DOMAIN report.langs :
    report.langs[i].container \in PassedNames /\ LangIsFirst(report.langs[i])

AppsExact ==
  \A i \in DOMAIN report.apps :
    report.apps[i].container \in PassedNames /\ AppIsFirst(report.apps[i])

AppsCovered ==
  \A a \in PassedNames : Runners(a) # {} =>
    \E i \in DOMAIN report.apps : report.apps[i].container = a

ScanSorted == AtOwn /\ TodoBehind /\ FoundOwn /\ FoundBehind /\ FoundSorted /\ SaidFirst

ReportExact == LangsExact /\ AppsExact /\ AppsCovered

QuietInv == Quiet => SettledAll /\ ScanSorted /\ ReportExact

-----------------------------------------------------------------------------
(***************************************************************************)
(* The operators.                                                          *)
(***************************************************************************)

\* There is one least element.
LEMMA LeastIs ==
  ASSUME NEW S, S \subseteq Nat, NEW m \in S, \A n \in S : m <= n
  PROVE  Least(S) = m
<1>1. Least(S) \in S /\ Least(S) <= m  BY LeastIn
<1> HIDE DEF Least
<1>2. Least(S) \in Nat /\ m \in Nat /\ m <= Least(S)  BY <1>1
<1> QED BY <1>1, <1>2

\* What the inspectors say of what was read of a program is what it shows first.
LEMMA HeardIsShown ==
  ASSUME NEW d, NEW prog, d.exe = prog.exe, d.cmd = prog.cmd
  PROVE  /\ Speaking(prog) => Language(d, prog.env.net) = <<FirstShown(prog)>>
         /\ ~Speaking(prog) => Language(d, prog.env.net) = <<>>
<1> DEFINE shown == {i \in DOMAIN Languages : Shows(prog, Languages[i])}
<1>1. \A i \in DOMAIN Languages : Languages[i] \in {"java", "python", "dotnet", "javascript"}
  BY DEF Languages
<1>2. \A lang \in {"java", "python", "dotnet", "javascript"} :
        Detects(lang, d, prog.env.net) <=> Shows(prog, lang)
  BY DEF Detects, Shows, Said
<1>3. \A i \in DOMAIN Languages :
        Detects(Languages[i], d, prog.env.net) <=> Shows(prog, Languages[i])
  BY <1>1, <1>2
<1>4. Hits(d, prog.env.net) = shown
  BY <1>3, Zenon DEF Hits
<1>5. Speaking(prog) => shown # {}
  BY Zenon DEF Speaking, Range
<1>6. shown # {} => Speaking(prog)
  BY Zenon DEF Speaking, Range
<1>7. Language(d, prog.env.net) = IF shown = {} THEN <<>> ELSE <<Languages[Least(shown)]>>
  BY <1>4, Zenon DEF Language
<1>8. FirstShown(prog) = Languages[Least(shown)]
  BY Zenon DEF FirstShown
<1> HIDE DEF shown
<1> QED BY <1>5, <1>6, <1>7, <1>8

LEMMA PidsTyped == Pids \subseteq Nat \ {0}
BY DetectorAssumption

\* What the scan holds, and that where nothing has changed all processes stay.
LEMMA ScanTyped ==
  ASSUME DetectorInv
  PROVE  /\ scan \in Scan /\ scan.found \in Seq(Details) /\ scan.todo \subseteq Pids
         /\ scan.said \in Seq(Range(Languages)) /\ scan.cursor \in Nat /\ scan.next \in Nat
         /\ parseArgs \subseteq Nat /\ scan.k \in parseArgs
         /\ \A i \in DOMAIN scan.found : scan.found[i] \in Details /\ scan.found[i].pid \in Pids
         /\ report.langs \in Seq(LangEntry) /\ report.apps \in Seq(AppEntry)
<1>1. scan \in Scan /\ pod \in Targets /\ report \in [langs : Seq(LangEntry), apps : Seq(AppEntry)]
  BY DEF DetectorInv, DetectorTypeOK
<1>2. scan.found \in Seq(Details)  BY <1>1 DEF Scan
<1>3. \A i \in DOMAIN scan.found : scan.found[i] \in Details
  BY <1>2
<1>4. \A d \in Details : d.pid \in Pids
  BY DEF Details
<1>5. scan.cursor \in Nat /\ scan.next \in Nat
  <2>1. scan.cursor \in Pids \union {0} /\ scan.next \in Nat \ {0}
    BY <1>1 DEF Scan
  <2>2. \A p \in Pids : p \in Nat
    BY PidsTyped
  <2>3. scan.cursor \in Nat
    BY <2>1, <2>2
  <2> QED BY <2>1, <2>3
<1> QED BY <1>1, <1>2, <1>3, <1>4, <1>5, ArgsTyped DEF Scan

LEMMA OwnStays ==
  ASSUME SettledAll, NEW p \in Pids, NEW name, InContainer(table[p], name)
  PROVE  Stays(p, name)
BY DetectorAssumption DEF SettledAll, Alive, Stays, InContainer

-----------------------------------------------------------------------------
(***************************************************************************)
(* The detector's steps.                                                   *)
(***************************************************************************)

LEMMA NodeSame ==
  ASSUME UNCHANGED node
  PROVE  /\ table' = table /\ parseArgs' = parseArgs /\ \A j : Name(j)' = Name(j)
         /\ SettledAll' <=> SettledAll
         /\ \A a : Speakers(a)' = Speakers(a) /\ Runners(a)' = Runners(a)
         /\ \A e : LangIsFirst(e)' <=> LangIsFirst(e)
         /\ \A e : AppIsFirst(e)' <=> AppIsFirst(e)
BY DEF node, parseArgs, getContainerNames, Name, SettledAll, Alive, Speakers, Runners,
       LangIsFirst, AppIsFirst, InContainer

\* While the detector is with one name it reports nothing.
LEMMA StillExact ==
  ASSUME ReportExact, UNCHANGED <<report, outcome, node>>, scan'.k = scan.k,
         scan.pc # "publish", scan'.pc # "publish"
  PROVE  ReportExact'
<1>1. PassedNames' = PassedNames
  BY NodeSame DEF PassedNames, Passed, Published
<1> QED BY <1>1, NodeSame DEF ReportExact, LangsExact, AppsExact, AppsCovered

\* A step that moves through the listing.
LEMMA Moves ==
  ASSUME SettledAll, ScanSorted, ReportExact, UNCHANGED <<report, outcome, node>>,
         scan'.k = scan.k, scan.pc # "publish", scan'.pc # "publish",
         scan'.found = scan.found, scan'.said = scan.said, scan'.next = scan.next,
         AtOwn', TodoBehind', FoundBehind'
  PROVE  QuietInv'
<1>1. ReportExact'  BY StillExact
<1>2. FoundOwn' /\ FoundSorted'
  BY NodeSame DEF ScanSorted, FoundOwn, FoundSorted, InContainer
<1>3. SaidFirst'    BY NodeSame DEF ScanSorted, SaidFirst, Speaks
<1> QED BY <1>1, <1>2, <1>3, NodeSame DEF QuietInv, ScanSorted

LEMMA ReaddirQuiet ==
  ASSUME DetectorInv, CompleteInv, SettledAll, ScanSorted, ReportExact, Readdir
  PROVE  QuietInv'
<1> USE DEF ScanSorted
<1>1. scan.pc = "list" /\ UNCHANGED <<report, outcome, node>>
  BY DEF Readdir, At, Listed, Batched, Continue
<1>2. CASE Listed
  <2>1. scan' = [scan EXCEPT !.pc = "inspect"]  BY <1>2 DEF Listed, Continue
  <2>2. /\ scan'.pc = "inspect" /\ scan'.k = scan.k /\ scan'.found = scan.found
        /\ scan'.next = scan.next /\ scan'.said = scan.said
        /\ scan'.todo = scan.todo /\ scan'.cursor = scan.cursor
    BY <2>1, ScanTyped DEF Scan
  <2>3. AtOwn' /\ TodoBehind' /\ FoundBehind'
    BY <2>2 DEF AtOwn, Reading, TodoBehind, FoundBehind
  <2> QED BY <1>1, <2>2, <2>3, Moves
<1>3. ASSUME NEW last \in NextBatch, \A q \in NextBatch : q <= last, Batched(last)
      PROVE  QuietInv'
  <2>1. scan' = [scan EXCEPT !.pc = "mounts", !.todo = NextBatch, !.cursor = last]
    BY <1>3 DEF Batched, Continue
  <2>2. /\ scan'.pc = "mounts" /\ scan'.k = scan.k /\ scan'.found = scan.found
        /\ scan'.next = scan.next /\ scan'.said = scan.said
        /\ scan'.todo = NextBatch /\ scan'.cursor = last
    BY <2>1, ScanTyped DEF Scan
  <2>3. AtOwn'       BY <2>2 DEF AtOwn, Reading
  <2>4. TodoBehind'  BY <1>3, <2>2 DEF TodoBehind
  <2>5. \A q \in NextBatch : q \in Nat /\ q > scan.cursor
    BY PidsTyped DEF NextBatch, Ahead
  <2>6. ASSUME NEW i \in DOMAIN scan.found
        PROVE  scan.found[i].pid <= last /\ \A q \in NextBatch : scan.found[i].pid < q
    <3> DEFINE p == scan.found[i].pid
    <3>1. p \in Nat /\ p <= scan.cursor /\ scan.cursor \in Nat
      BY ScanTyped, PidsTyped DEF FoundBehind
    <3> HIDE DEF p
    <3>2. \A q \in NextBatch : p < q  BY <2>5, <3>1
    <3>3. p <= last  BY <2>5, <3>1, <3>2
    <3> QED BY <3>2, <3>3 DEF p
  <2>7. FoundBehind'  BY <2>2, <2>6 DEF FoundBehind
  <2> QED BY <1>1, <2>2, <2>3, <2>4, <2>7, Moves
<1> QED BY <1>2, <1>3 DEF Readdir

LEMMA GetMountInfoQuiet ==
  ASSUME DetectorInv, CompleteInv, SettledAll, ScanSorted, ReportExact, GetMountInfo
  PROVE  QuietInv'
<1> USE DEF ScanSorted
<1>1. PICK p \in scan.todo :
        /\ \A q \in scan.todo : p <= q
        /\ IF InContainer(table[p], Name(scan.k))
           THEN Continue([scan EXCEPT !.pc = "exe", !.at = NotRead(p)])
           ELSE Continue(Without(p))
  BY DEF GetMountInfo
<1>2. scan.pc = "mounts" /\ UNCHANGED <<report, outcome, node>>
  BY <1>1 DEF GetMountInfo, At, Continue
<1>3. CASE InContainer(table[p], Name(scan.k))
  <2>1. scan' = [scan EXCEPT !.pc = "exe", !.at = NotRead(p)]  BY <1>1, <1>3 DEF Continue
  <2>2. /\ scan'.pc = "exe" /\ scan'.at = NotRead(p) /\ scan'.todo = scan.todo
        /\ scan'.cursor = scan.cursor /\ scan'.k = scan.k /\ scan'.found = scan.found
        /\ scan'.next = scan.next /\ scan'.said = scan.said
    BY <2>1, ScanTyped DEF Scan
  <2>3. AtOwn'
    <3>1. scan'.at.pid = p  BY <2>2 DEF NotRead
    <3> QED BY <1>1, <1>2, <1>3, <2>2, <3>1, NodeSame DEF AtOwn, InContainer
  <2>4. TodoBehind' /\ FoundBehind'
    BY <2>2 DEF TodoBehind, FoundBehind
  <2> QED BY <1>2, <2>2, <2>3, <2>4, Moves
<1>4. CASE ~InContainer(table[p], Name(scan.k))
  <2>1. scan' = Without(p)  BY <1>1, <1>4 DEF Continue
  <2>2. /\ scan'.pc \in {"list", "mounts"} /\ scan'.todo = scan.todo \ {p}
        /\ scan'.cursor = scan.cursor /\ scan'.k = scan.k /\ scan'.found = scan.found
        /\ scan'.next = scan.next /\ scan'.said = scan.said
    BY <2>1, WithoutTyped, WithoutMoves DEF DetectorInv
  <2>3. AtOwn' /\ TodoBehind' /\ FoundBehind'
    BY <2>2 DEF AtOwn, Reading, TodoBehind, FoundBehind
  <2> QED BY <1>2, <2>2, <2>3, Moves
<1> QED BY <1>3, <1>4

LEMMA ReadStepsQuiet ==
  ASSUME DetectorInv, CompleteInv, SettledAll, ScanSorted, ReportExact, outcome' # "failed",
         Readlink \/ ReadCmdline \/ ReadEnviron
  PROVE  QuietInv'
<1> USE DEF ScanSorted
<1>1. /\ scan.pc \in Reading /\ scan.at \in Details /\ UNCHANGED <<report, outcome, node>>
      /\ \E pc \in Reading : \E d :
           d.pid = scan.at.pid /\ scan' = [scan EXCEPT !.pc = pc, !.at = d]
  <2>1. scan.pc \in Reading
    BY DEF Readlink, ReadCmdline, ReadEnviron, At, Reading
  <2>2. scan.at \in Details
    BY <2>1 DEF DetectorInv, AtBacked
  <2>3. CASE Readlink
    <3> DEFINE d == [scan.at EXCEPT !.exe = table[scan.at.pid].prog.exe]
    <3>1. /\ UNCHANGED <<report, outcome, node>> /\ d.pid = scan.at.pid
          /\ scan' = [scan EXCEPT !.pc = "cmdline", !.at = d]
      BY <2>2, <2>3 DEF Readlink, Continue, Details
    <3> HIDE DEF d
    <3> QED BY <2>1, <2>2, <3>1 DEF Reading
  <2>4. CASE ReadCmdline
    <3> DEFINE d == [scan.at EXCEPT !.cmd = table[scan.at.pid].prog.cmd]
    <3>1. /\ UNCHANGED <<report, outcome, node>> /\ d.pid = scan.at.pid
          /\ scan' = [scan EXCEPT !.pc = "environ", !.at = d]
      BY <2>2, <2>4 DEF ReadCmdline, Continue, Details
    <3> HIDE DEF d
    <3> QED BY <2>1, <2>2, <3>1 DEF Reading
  <2>5. CASE ReadEnviron
    <3> DEFINE d == [scan.at EXCEPT !.env = table[scan.at.pid].prog.env]
    <3>1. /\ UNCHANGED <<report, outcome, node>> /\ d.pid = scan.at.pid
          /\ scan' = [scan EXCEPT !.pc = "files", !.at = d]
      BY <2>2, <2>5 DEF ReadEnviron, Fatal, Continue, Details
    <3> HIDE DEF d
    <3> QED BY <2>1, <2>2, <3>1 DEF Reading
  <2> QED BY <2>3, <2>4, <2>5
<1>2. PICK pc \in Reading : \E d : d.pid = scan.at.pid /\ scan' = [scan EXCEPT !.pc = pc, !.at = d]
  BY <1>1
<1>3. PICK d : d.pid = scan.at.pid /\ scan' = [scan EXCEPT !.pc = pc, !.at = d]
  BY <1>2
<1>4. /\ scan'.pc = pc /\ scan'.at = d /\ scan'.todo = scan.todo
      /\ scan'.cursor = scan.cursor /\ scan'.k = scan.k /\ scan'.found = scan.found
      /\ scan'.next = scan.next /\ scan'.said = scan.said
  BY <1>3, ScanTyped DEF Scan
<1>5. AtOwn'
  BY <1>1, <1>3, <1>4, NodeSame DEF AtOwn, InContainer
<1>6. TodoBehind' /\ FoundBehind'
  BY <1>4 DEF TodoBehind, FoundBehind
<1>7. scan.pc # "publish" /\ scan'.pc # "publish"
  BY <1>1, <1>4 DEF Reading
<1> QED BY <1>1, <1>4, <1>5, <1>6, <1>7, Moves

LEMMA ReadFilesQuiet ==
  ASSUME DetectorInv, CompleteInv, SettledAll, ScanSorted, ReportExact, outcome' # "failed", ReadFiles
  PROVE  QuietInv'
<1> USE DEF ScanSorted
<1> DEFINE p == scan.at.pid
           d == [scan.at EXCEPT !.deps = extractDependencies(table[p].prog.files)]
<1>1. /\ scan.pc = "files" /\ scan.at \in Details /\ UNCHANGED <<report, outcome, node>>
      /\ scan' = [Without(p) EXCEPT !.found = Append(@, d)]
  BY DEF ReadFiles, Fatal, At, Continue, DetectorInv, AtBacked, Reading
<1>2. d.pid = p /\ p \in Nat /\ p \in scan.todo
  BY <1>1, PidsTyped DEF Details, CompleteInv, TodoIsCurrent, Reading
<1>3. InContainer(table[p], Name(scan.k)) /\ \A q \in scan.todo : p <= q
  BY <1>1 DEF AtOwn, Reading
<1> HIDE DEF d, p
<1>4. /\ scan'.pc \in {"list", "mounts"} /\ scan'.todo = scan.todo \ {p}
      /\ scan'.cursor = scan.cursor /\ scan'.k = scan.k
      /\ scan'.found = Append(scan.found, d)
      /\ scan'.next = scan.next /\ scan'.said = scan.said
  BY <1>1, <1>2, WithoutTyped, WithoutMoves DEF Scan, DetectorInv
<1>5. scan.found \in Seq(Details) /\ scan.todo \subseteq Nat /\ scan.cursor \in Nat
  BY ScanTyped, PidsTyped
<1>6. /\ DOMAIN scan.found = 1..Len(scan.found) /\ Len(scan.found) \in Nat
      /\ DOMAIN scan'.found = 1..(Len(scan.found) + 1)
      /\ \A i \in DOMAIN scan.found : scan'.found[i] = scan.found[i]
      /\ scan'.found[Len(scan.found) + 1] = d
  BY <1>4, <1>5
<1>7. \A i \in DOMAIN scan'.found : i \in DOMAIN scan.found \/ i = Len(scan.found) + 1
  BY <1>6
<1>8. AtOwn' /\ TodoBehind'
  BY <1>4 DEF AtOwn, TodoBehind, Reading
<1>9. FoundOwn'
  BY <1>1, <1>2, <1>3, <1>4, <1>6, <1>7, NodeSame DEF FoundOwn, InContainer
<1>10. FoundBehind'
  <2>1. p <= scan.cursor /\ \A q \in scan.todo \ {p} : p < q
    BY <1>2, <1>3, <1>5 DEF TodoBehind
  <2> QED BY <1>2, <1>4, <1>6, <1>7, <2>1 DEF FoundBehind
<1>11. FoundSorted'
  <2>1. ASSUME NEW i \in DOMAIN scan'.found, NEW j \in DOMAIN scan'.found, i < j
        PROVE  scan'.found[i].pid < scan'.found[j].pid
    <3>1. i \in DOMAIN scan.found  BY <1>6, <2>1
    <3>2. CASE j \in DOMAIN scan.found
      BY <1>6, <2>1, <3>1, <3>2 DEF FoundSorted
    <3>3. CASE j = Len(scan.found) + 1
      BY <1>2, <1>6, <3>1, <3>3 DEF FoundBehind
    <3> QED BY <1>7, <3>2, <3>3
  <2> QED BY <2>1 DEF FoundSorted
<1>12. SaidFirst'
  <2>1. scan.next = 1  BY <1>1 DEF CompleteInv, Heard, Reading
  <2>2. scan.said = <<>>
    <3>1. ~\E i \in DOMAIN scan.found : i < scan.next
      BY <1>6, <2>1
    <3> QED BY <3>1 DEF SaidFirst
  <2> QED BY <1>4, <2>2 DEF SaidFirst
<1>13. ReportExact'
  BY <1>1, <1>4, StillExact
<1> QED
  BY <1>1, <1>8, <1>9, <1>10, <1>11, <1>12, <1>13, NodeSame DEF QuietInv

LEMMA InspectQuiet ==
  ASSUME DetectorInv, CompleteInv, SettledAll, ScanSorted, ReportExact, Inspect
  PROVE  QuietInv'
<1> USE DEF ScanSorted
<1>1. scan.pc = "inspect" /\ UNCHANGED <<report, outcome, node>>
  BY DEF Inspect, At, Continue
<1>2. /\ scan \in Scan /\ scan.found \in Seq(Details) /\ scan.said \in Seq(Range(Languages))
      /\ scan.next \in Nat \ {0}
  BY ScanTyped DEF Scan
<1>3. CASE scan.next > Len(scan.found)
  <2>1. scan' = [scan EXCEPT !.pc = "conclude"]  BY <1>3 DEF Inspect, Continue
  <2>2. /\ scan'.pc = "conclude" /\ scan'.k = scan.k /\ scan'.found = scan.found
        /\ scan'.next = scan.next /\ scan'.said = scan.said
        /\ scan'.todo = scan.todo /\ scan'.cursor = scan.cursor
    BY <1>2, <2>1 DEF Scan
  <2>3. AtOwn' /\ TodoBehind' /\ FoundBehind'
    BY <2>2 DEF AtOwn, Reading, TodoBehind, FoundBehind
  <2> QED BY <1>1, <2>2, <2>3, Moves
<1>4. CASE ~(scan.next > Len(scan.found))
  <2> DEFINE n == scan.next
             d == scan.found[n]
             heard == Language(d, table[d.pid].prog.env.net)
             said == scan.said \o heard
  <2>1. scan' = [scan EXCEPT !.next = n + 1, !.said = said]
    BY <1>4 DEF Inspect, Continue
  <2>2. heard \in Seq(Range(Languages))  BY LanguageIs
  <2>3. /\ scan'.pc = "inspect" /\ scan'.k = scan.k /\ scan'.found = scan.found
        /\ scan'.next = n + 1 /\ scan'.said = said
        /\ scan'.todo = scan.todo /\ scan'.cursor = scan.cursor
    <3> DEFINE after == n + 1
    <3>1. scan' = [scan EXCEPT !.next = after, !.said = said]  BY <2>1
    <3>2. scan \in Scan  BY <1>2
    <3> HIDE DEF n, said, after
    <3>3. /\ scan'.pc = scan.pc /\ scan'.k = scan.k /\ scan'.found = scan.found
          /\ scan'.next = after /\ scan'.said = said
          /\ scan'.todo = scan.todo /\ scan'.cursor = scan.cursor
      BY <3>1, <3>2 DEF Scan
    <3> QED BY <1>1, <3>3 DEF after
  <2>4. n \in DOMAIN scan.found
    BY <1>2, <1>4
  <2>5. d.exe = table[d.pid].prog.exe /\ d.cmd = table[d.pid].prog.cmd
    <3>1. d.pid \in Pids /\ InContainer(table[d.pid], Name(scan.k))
      BY <2>4, ScanTyped DEF FoundOwn
    <3>2. d.pid \in settled  BY <3>1, OwnStays DEF Stays
    <3> QED BY <2>4, <3>2 DEF CompleteInv, FoundMatches, Matches
  <2>6. /\ Speaks(n) => heard = <<FirstShown(table[d.pid].prog)>>
        /\ ~Speaks(n) => heard = <<>>
    BY <2>5, HeardIsShown DEF Speaks
  <2>7. AtOwn' /\ TodoBehind' /\ FoundBehind'
    BY <2>3 DEF AtOwn, Reading, TodoBehind, FoundBehind
  <2>8. FoundOwn' /\ FoundSorted'
    BY <1>1, <2>3, NodeSame DEF FoundOwn, FoundSorted, InContainer
  <2>9. table' = table  BY <1>1, NodeSame
  <2>10. SaidFirst'
    <3> SUFFICES ASSUME said # <<>>
                 PROVE  \E i \in DOMAIN scan.found :
                          /\ i < n + 1 /\ Speaks(i)
                          /\ \A j \in DOMAIN scan.found : j < i => ~Speaks(j)
                          /\ said[1] = FirstShown(table[scan.found[i].pid].prog)
      BY <2>3, <2>9 DEF SaidFirst, Speaks
    <3>1. CASE scan.said # <<>>
      <4>1. said[1] = scan.said[1]
        <5> HIDE DEF heard
        <5> QED BY <1>2, <2>2, <3>1
      <4>2. PICK i \in DOMAIN scan.found :
              /\ i < scan.next /\ Speaks(i)
              /\ \A j \in DOMAIN scan.found : j < i => ~Speaks(j)
              /\ scan.said[1] = FirstShown(table[scan.found[i].pid].prog)
        BY <3>1 DEF SaidFirst
      <4>3. i < n + 1
        <5>1. i \in Nat  BY <1>2
        <5> QED BY <1>2, <4>2, <5>1
      <4> HIDE DEF said
      <4> QED BY <4>1, <4>2, <4>3
    <3>2. CASE scan.said = <<>>
      <4>1. said = heard
        <5> HIDE DEF heard
        <5> QED BY <2>2, <3>2
      <4>2. Speaks(n)  BY <2>6, <4>1
      <4>3. said[1] = FirstShown(table[d.pid].prog)
        <5>1. heard = <<FirstShown(table[d.pid].prog)>>  BY <2>6, <4>2
        <5> HIDE DEF said, heard
        <5> QED BY <4>1, <5>1
      <4>4. \A j \in DOMAIN scan.found : j < n => ~Speaks(j)
        <5> SUFFICES ASSUME NEW j \in DOMAIN scan.found, j < n, Speaks(j)
                     PROVE  FALSE
          OBVIOUS
        <5>1. scan.found[j].pid \in Pids /\ InContainer(table[scan.found[j].pid], Name(scan.k))
          BY ScanTyped DEF FoundOwn
        <5>2. scan.found[j].pid \in settled  BY <5>1, OwnStays DEF Stays
        <5> QED BY <3>2, <5>2 DEF CompleteInv, Heard, Speaks
      <4>5. n < n + 1  BY <1>2
      <4> HIDE DEF said
      <4> QED BY <2>4, <4>2, <4>3, <4>4, <4>5
    <3> QED BY <3>1, <3>2
  <2>11. ReportExact'
    BY <1>1, <2>3, StillExact
  <2> QED
    BY <1>1, <2>7, <2>8, <2>10, <2>11, NodeSame DEF QuietInv
<1> QED BY <1>3, <1>4

\* Where the processes found are in order and none is missing, the first of a
\* kind is the least.
LEMMA FirstIsLeast ==
  ASSUME NEW S, S \subseteq Nat, DOMAIN scan.found \subseteq Nat, FoundSorted,
         \A p \in S : \E j \in DOMAIN scan.found : scan.found[j].pid = p,
         NEW i \in DOMAIN scan.found, scan.found[i].pid \in S,
         \A j \in DOMAIN scan.found : j < i => scan.found[j].pid \notin S
  PROVE  S # {} /\ Least(S) = scan.found[i].pid
<1> DEFINE m == scan.found[i].pid
<1>1. ASSUME NEW p \in S
      PROVE  m <= p
  <2>1. PICK j \in DOMAIN scan.found : scan.found[j].pid = p  OBVIOUS
  <2>2. i \in Nat /\ j \in Nat /\ m \in Nat /\ p \in Nat  OBVIOUS
  <2>3. ~(j < i)  BY <2>1
  <2>4. i < j => m < p  BY <2>1 DEF FoundSorted
  <2>5. i = j => m = p  BY <2>1
  <2> HIDE DEF m
  <2> QED BY <2>2, <2>3, <2>4, <2>5
<1> HIDE DEF m
<1>2. m \in S  BY DEF m
<1> QED BY <1>1, <1>2, LeastIs DEF m

\* The name just gone through is added to those the report is complete about.
LEMMA ConcludePasses ==
  ASSUME DetectorInv, Conclude
  PROVE  Passed' = Passed \union {scan.k} /\ PassedNames' = PassedNames \union {Name(scan.k)}
<1> DEFINE later == {k \in parseArgs : k > scan.k}
<1>1. /\ scan.pc = "conclude" /\ UNCHANGED <<outcome, node>>
      /\ scan' = IF later = {} THEN [Start EXCEPT !.pc = "publish"]
                 ELSE [Start EXCEPT !.k = Least(later)]
  BY DEF Conclude, At
<1>2. parseArgs \subseteq Nat /\ scan.k \in parseArgs  BY ScanTyped
<1>3. parseArgs' = parseArgs /\ (\A j : Name(j)' = Name(j)) /\ Published' = Published
  BY <1>1, NodeSame DEF Published
<1>4. ASSUME NEW j \in parseArgs
      PROVE  j < scan'.k \/ scan'.pc = "publish" \/ Published <=>
               j < scan.k \/ Published \/ j = scan.k
  <2>1. j \in Nat /\ scan.k \in Nat /\ (j \in later <=> j > scan.k)  BY <1>2
  <2>2. CASE later = {}
    <3>1. scan'.pc = "publish"  BY <1>1, <2>2 DEF Start
    <3>2. ~(j > scan.k)  BY <2>1, <2>2
    <3> HIDE DEF later
    <3> QED BY <2>1, <3>1, <3>2
  <2>3. CASE later # {}
    <3>1. scan'.pc = "list" /\ scan'.k = Least(later)  BY <1>1, <2>3 DEF Start
    <3>2. later \subseteq Nat /\ \A n \in later : n > scan.k  BY <1>2
    <3> HIDE DEF later
    <3>3. Least(later) \in later /\ \A n \in later : Least(later) <= n
      BY <2>3, <3>2, LeastIn
    <3> DEFINE m == Least(later)
    <3>4. m \in Nat /\ m > scan.k  BY <3>2, <3>3
    <3>5. j \in later => m <= j  BY <3>3
    <3> HIDE DEF m
    <3>6. j < m <=> ~(j > scan.k)  BY <2>1, <3>4, <3>5
    <3>7. scan'.k = m /\ scan'.pc # "publish"  BY <3>1 DEF m
    <3> QED BY <2>1, <3>6, <3>7
  <2> QED BY <2>2, <2>3
<1> HIDE DEF later
<1>5. \A j \in parseArgs : j < scan.k \/ scan.pc = "publish" \/ Published <=>
                           j < scan.k \/ Published
  BY <1>1
<1>6. Passed' = Passed \union {scan.k}
  BY <1>2, <1>3, <1>4, <1>5 DEF Passed
<1> QED BY <1>3, <1>6 DEF PassedNames

\* What is added to the report is what the first process of each kind says.
LEMMA ConcludeQuiet ==
  ASSUME DetectorInv, CompleteInv, SettledAll, ScanSorted, ReportExact, Conclude
  PROVE  QuietInv'
<1> USE DEF ScanSorted, ReportExact
<1> DEFINE A == Name(scan.k)
           entry(name) == [container |-> A, lang |-> Head(scan.said),
                           otel |-> DetectOpenTelemetry(scan.found), name |-> name]
           seen(a) == [container |-> A, app |-> a]
<1>1. PICK name \in DetectServiceName(scan.found), app \in DetectApplication(scan.found) :
        report' = [langs |-> IF scan.said = <<>> THEN report.langs
                             ELSE Append(report.langs, entry(name)),
                   apps |-> IF app = <<>> THEN report.apps
                            ELSE Append(report.apps, seen(app[1]))]
  BY DEF Conclude
<1>2. scan.pc = "conclude" /\ UNCHANGED <<outcome, node>>  BY DEF Conclude, At
<1>3. /\ scan.found \in Seq(Details) /\ DOMAIN scan.found \subseteq Nat
      /\ scan.said \in Seq(Range(Languages))
      /\ report.langs \in Seq(LangEntry) /\ report.apps \in Seq(AppEntry)
  BY ScanTyped
<1>4. \A i \in DOMAIN scan.found :
        /\ scan.found[i].pid \in Pids /\ InContainer(table[scan.found[i].pid], A)
        /\ Said(scan.found[i]) = Said(table[scan.found[i].pid].prog)
  <2> SUFFICES ASSUME NEW i \in DOMAIN scan.found
               PROVE  /\ scan.found[i].pid \in Pids /\ InContainer(table[scan.found[i].pid], A)
                      /\ Said(scan.found[i]) = Said(table[scan.found[i].pid].prog)
    OBVIOUS
  <2>1. scan.found[i].pid \in Pids /\ InContainer(table[scan.found[i].pid], A)
    BY ScanTyped DEF FoundOwn
  <2>2. scan.found[i].pid \in settled  BY <2>1, OwnStays DEF Stays
  <2> QED BY <2>1, <2>2 DEF CompleteInv, FoundMatches, Matches, Said
<1>5. \A p \in Pids : InContainer(table[p], A) =>
        \E i \in DOMAIN scan.found : scan.found[i].pid = p
  BY <1>2, OwnStays DEF CompleteInv, AllFound, FoundAlready
<1>6. /\ Speakers(A) \subseteq Nat /\ Runners(A) \subseteq Nat
      /\ \A p \in Speakers(A) : \E i \in DOMAIN scan.found : scan.found[i].pid = p
      /\ \A p \in Runners(A) : \E i \in DOMAIN scan.found : scan.found[i].pid = p
  BY <1>5, PidsTyped DEF Speakers, Runners
<1>7. \A i \in DOMAIN scan.found :
        /\ scan.found[i].pid \in Speakers(A) <=> Speaks(i)
        /\ scan.found[i].pid \in Runners(A) <=> Said(scan.found[i]) \cap Applications # {}
  BY <1>4 DEF Speakers, Runners, Speaks, RunsApps
<1>8. ASSUME scan.said # <<>>
      PROVE  LangIsFirst(entry(name))
  <2>1. PICK i \in DOMAIN scan.found :
          /\ Speaks(i) /\ \A j \in DOMAIN scan.found : j < i => ~Speaks(j)
          /\ scan.said[1] = FirstShown(table[scan.found[i].pid].prog)
    BY <1>8 DEF SaidFirst
  <2> HIDE DEF A
  <2>2. Speakers(A) # {} /\ Least(Speakers(A)) = scan.found[i].pid
    BY <1>3, <1>6, <1>7, <2>1, FirstIsLeast
  <2>3. Head(scan.said) = scan.said[1]  BY <1>3, <1>8
  <2>4. entry(name).container = A /\ entry(name).lang = Head(scan.said)  OBVIOUS
  <2> HIDE DEF entry
  <2> QED BY <2>1, <2>2, <2>3, <2>4 DEF LangIsFirst
<1> DEFINE hits == {i \in DOMAIN scan.found : Said(scan.found[i]) \cap Applications # {}}
<1>9. hits \subseteq Nat  BY <1>3
<1>10. /\ app # <<>> => hits # {} /\ app[1] \in Said(scan.found[Least(hits)])
       /\ hits # {} => app # <<>>
  <2>1. app \in IF hits = {} THEN {<<>>}
               ELSE {<<a>> : a \in Said(scan.found[Least(hits)]) \cap Applications}
    BY Zenon DEF DetectApplication
  <2> HIDE DEF hits
  <2>2. CASE hits = {}  BY <2>1, <2>2
  <2>3. CASE hits # {}
    <3>1. PICK a \in Said(scan.found[Least(hits)]) : app = <<a>>  BY <2>1, <2>3
    <3> QED BY <2>3, <3>1
  <2> QED BY <2>2, <2>3
<1>11. ASSUME app # <<>>
       PROVE  AppIsFirst(seen(app[1]))
  <2> HIDE DEF A
  <2>1. hits # {} /\ app[1] \in Said(scan.found[Least(hits)])  BY <1>10, <1>11
  <2>2. /\ Least(hits) \in DOMAIN scan.found /\ Least(hits) \in hits
        /\ \A n \in hits : Least(hits) <= n
    <3>1. hits \subseteq DOMAIN scan.found  OBVIOUS
    <3> HIDE DEF hits
    <3> QED BY <1>9, <2>1, <3>1, LeastIn
  <2> DEFINE i == Least(hits)
  <2>3. scan.found[i].pid \in Runners(A)  BY <1>7, <2>2
  <2>4. \A j \in DOMAIN scan.found : j < i => j \notin hits
    <3> HIDE DEF hits
    <3> QED BY <1>3, <1>9, <2>2
  <2>5. \A j \in DOMAIN scan.found : j < i => scan.found[j].pid \notin Runners(A)
    BY <1>7, <2>4
  <2>6. i \in DOMAIN scan.found /\ app[1] \in Said(table[scan.found[i].pid].prog)
    BY <1>4, <2>1, <2>2
  <2> HIDE DEF i
  <2>7. Runners(A) # {} /\ Least(Runners(A)) = scan.found[i].pid
    BY <1>3, <1>6, <2>3, <2>5, <2>6, FirstIsLeast
  <2>8. seen(app[1]).container = A /\ seen(app[1]).app = app[1]  OBVIOUS
  <2> HIDE DEF seen
  <2> QED BY <2>6, <2>7, <2>8 DEF AppIsFirst
<1>12. Runners(A) # {} => app # <<>>
  <2>1. Runners(A) # {} => hits # {}  BY <1>6, <1>7
  <2> HIDE DEF hits
  <2> QED BY <1>10, <2>1
<1>13. /\ report'.langs = IF scan.said = <<>> THEN report.langs ELSE Append(report.langs, entry(name))
       /\ report'.apps = IF app = <<>> THEN report.apps ELSE Append(report.apps, seen(app[1]))
  BY <1>1
<1>14. entry(name).container = A /\ seen(app[1]).container = A  OBVIOUS
<1>15. PassedNames' = PassedNames \union {A}  BY ConcludePasses
<1> HIDE DEF entry, seen, hits, A
<1>16. LangsExact'
  <2>1. \A i \in DOMAIN report'.langs :
          \/ i \in DOMAIN report.langs /\ report'.langs[i] = report.langs[i]
          \/ scan.said # <<>> /\ report'.langs[i] = entry(name)
    BY <1>3, <1>13
  <2> QED BY <1>2, <1>8, <1>14, <1>15, <2>1, NodeSame DEF LangsExact
<1>17. AppsExact'
  <2>1. \A i \in DOMAIN report'.apps :
          \/ i \in DOMAIN report.apps /\ report'.apps[i] = report.apps[i]
          \/ app # <<>> /\ report'.apps[i] = seen(app[1])
    BY <1>3, <1>13
  <2> QED BY <1>2, <1>11, <1>14, <1>15, <2>1, NodeSame DEF AppsExact
<1>18. AppsCovered'
  <2>1. \A i \in DOMAIN report.apps : i \in DOMAIN report'.apps /\ report'.apps[i] = report.apps[i]
    BY <1>3, <1>13
  <2>2. app # <<>> => \E i \in DOMAIN report'.apps : report'.apps[i] = seen(app[1])
    <3>1. Len(report.apps) + 1 \in DOMAIN Append(report.apps, seen(app[1]))
          /\ Append(report.apps, seen(app[1]))[Len(report.apps) + 1] = seen(app[1])
      BY <1>3
    <3> QED BY <1>13, <3>1
  <2> QED BY <1>2, <1>12, <1>14, <1>15, <2>1, <2>2, NodeSame DEF AppsCovered
<1>19. scan'.pc \in {"list", "publish"} /\ scan'.todo = {} /\ scan'.found = <<>> /\ scan'.said = <<>>
  BY DEF Conclude, Start
<1>20. ScanSorted'
  BY <1>19 DEF AtOwn, TodoBehind, FoundOwn, FoundBehind, FoundSorted, SaidFirst, Reading
<1> QED BY <1>2, <1>16, <1>17, <1>18, <1>20, NodeSame DEF QuietInv

LEMMA PublishQuiet ==
  ASSUME DetectorInv, SettledAll, ReportExact, Publish, outcome' # "failed"
  PROVE  QuietInv'
<1>1. /\ scan.pc = "publish" /\ UNCHANGED <<report, node>> /\ outcome' = Read
      /\ scan' = [Start EXCEPT !.pc = "done"]
  BY DEF Publish, At
<1>2. scan'.pc = "done" /\ scan'.todo = {} /\ scan'.found = <<>> /\ scan'.said = <<>>
  BY <1>1 DEF Start
<1>3. Published'  BY <1>1 DEF Published, Read
<1>4. PassedNames' = PassedNames
  <2>1. Passed' = parseArgs /\ Passed = parseArgs
    BY <1>1, <1>3, NodeSame DEF Passed
  <2> QED BY <1>1, <2>1, NodeSame DEF PassedNames
<1>5. ReportExact'
  BY <1>1, <1>4, NodeSame DEF ReportExact, LangsExact, AppsExact, AppsCovered
<1>6. ScanSorted'
  BY <1>2 DEF ScanSorted, AtOwn, TodoBehind, FoundOwn, FoundBehind, FoundSorted, SaidFirst, Reading
<1> QED BY <1>1, <1>5, <1>6, NodeSame DEF QuietInv

LEMMA InitQuiet ==
  ASSUME DetectorInit
  PROVE  QuietInv
<1> USE DEF DetectorInit
<1>1. /\ scan.pc = "list" /\ scan.todo = {} /\ scan.found = <<>> /\ scan.said = <<>>
      /\ scan.k = Least(parseArgs)
  BY DEF Start
<1>2. ScanSorted
  BY <1>1 DEF ScanSorted, AtOwn, TodoBehind, FoundOwn, FoundBehind, FoundSorted, SaidFirst, Reading
<1>3. PassedNames = {}
  <2>1. \A j \in parseArgs : j \in Nat /\ Least(parseArgs) \in Nat /\ Least(parseArgs) <= j
    BY ArgsTyped, LeastIn
  <2>2. \A j \in parseArgs : ~(j < scan.k)  BY <1>1, <2>1
  <2>3. Passed = {}  BY <1>1, <2>2 DEF Passed, Published
  <2> QED BY <2>3 DEF PassedNames
<1>4. ReportExact
  BY <1>3 DEF ReportExact, LangsExact, AppsExact, AppsCovered
<1>5. SettledAll  BY DEF SettledAll
<1> QED BY <1>2, <1>4, <1>5 DEF QuietInv

LEMMA NextQuiet ==
  ASSUME DetectorInv, CompleteInv, EndsOnce, QuietInv, [DetectorNext]_dvars
  PROVE  QuietInv'
<1> SUFFICES ASSUME churn' = 0, outcome' # "failed"
             PROVE  QuietInv'
  BY DEF QuietInv, Quiet
<1>1. CASE Processes
  <2>1. \E p, proc : Becomes(p, proc)
    BY <1>1 DEF Processes, Fork, Exec, Exit
  <2>2. churn' = churn + 1  BY <2>1 DEF Becomes
  <2>3. churn \in 0..MaxChurn  BY DEF DetectorInv, DetectorTypeOK
  <2> QED BY <2>2, <2>3
<1>2. CASE Detect
  <2>1. UNCHANGED node
    BY <1>2
    DEF Detect, Readdir, GetMountInfo, Readlink, ReadCmdline, ReadEnviron, ReadFiles, Inspect,
        Conclude, Publish, Listed, Batched, Continue, Fatal
  <2>2. scan.pc # "done"
    BY <1>2
    DEF Detect, Readdir, GetMountInfo, Readlink, ReadCmdline, ReadEnviron, ReadFiles, Inspect,
        Conclude, Publish, At
  <2>3. SettledAll /\ ScanSorted /\ ReportExact
    BY <2>1, <2>2 DEF QuietInv, Quiet, EndsOnce, node
  <2>4. CASE Readdir        BY <2>3, <2>4, ReaddirQuiet
  <2>5. CASE GetMountInfo   BY <2>3, <2>5, GetMountInfoQuiet
  <2>6. CASE Readlink \/ ReadCmdline \/ ReadEnviron  BY <2>3, <2>6, ReadStepsQuiet
  <2>7. CASE ReadFiles      BY <2>3, <2>7, ReadFilesQuiet
  <2>8. CASE Inspect        BY <2>3, <2>8, InspectQuiet
  <2>9. CASE Conclude       BY <2>3, <2>9, ConcludeQuiet
  <2>10. CASE Publish       BY <2>3, <2>10, PublishQuiet
  <2> QED BY <1>2, <2>4, <2>5, <2>6, <2>7, <2>8, <2>9, <2>10 DEF Detect
<1>3. CASE UNCHANGED dvars
  <2>1. UNCHANGED <<report, outcome, node>> /\ scan' = scan /\ churn' = churn
    BY <1>3 DEF dvars, node
  <2>2. SettledAll /\ ScanSorted /\ ReportExact
    BY <2>1 DEF QuietInv, Quiet
  <2>3. PassedNames' = PassedNames
    BY <2>1, NodeSame DEF PassedNames, Passed, Published
  <2>4. ReportExact'
    BY <2>1, <2>2, <2>3, NodeSame DEF ReportExact, LangsExact, AppsExact, AppsCovered
  <2>5. ScanSorted'
    BY <2>1, <2>2, NodeSame
    DEF ScanSorted, AtOwn, TodoBehind, FoundOwn, FoundBehind, FoundSorted, SaidFirst, Speaks,
        InContainer
  <2> QED BY <2>1, <2>2, <2>4, <2>5, NodeSame DEF QuietInv
<1> QED BY <1>1, <1>2, <1>3 DEF DetectorNext

-----------------------------------------------------------------------------
(***************************************************************************)
(* The theorem.                                                            *)
(***************************************************************************)

LEMMA QuietImplies ==
  ASSUME DetectorInv, CompleteInv, QuietInv
  PROVE  QuietScanIsExact
<1> SUFFICES ASSUME Published, churn = 0
             PROVE  /\ {<<e.container, e.lang>> : e \in Range(report.langs)}
                         = {<<a, FirstShown(table[Least(Those(a, Speaking))].prog)>> :
                              a \in {b \in Asked : Those(b, Speaking) # {}}}
                    /\ {e.container : e \in Range(report.apps)}
                         = {a \in Asked : Those(a, RunsApps) # {}}
                    /\ \A e \in Range(report.apps) :
                         e.app \in Said(table[Least(Those(e.container, RunsApps))].prog)
  BY DEF QuietScanIsExact
<1>1. \A a : Those(a, Speaking) = Speakers(a) /\ Those(a, RunsApps) = Runners(a)
  BY DEF Those, Speakers, Runners
<1>2. SettledAll /\ ReportExact
  BY DEF QuietInv, Quiet, Published
<1>3. PassedNames = Asked
  BY DEF PassedNames, Passed, Asked
<1>4. \A e \in Range(report.langs) : e.container \in Asked /\ LangIsFirst(e)
  BY <1>2, <1>3 DEF ReportExact, LangsExact, Range
<1>5. \A e \in Range(report.apps) : e.container \in Asked /\ AppIsFirst(e)
  BY <1>2, <1>3 DEF ReportExact, AppsExact, Range
<1>6. ASSUME NEW a \in Asked, Speakers(a) # {}
      PROVE  \E e \in Range(report.langs) : e.container = a
  <2>1. PICK j \in parseArgs : a = Name(j)  BY DEF Asked
  <2>2. PICK p \in Pids : InContainer(table[p], a) /\ Speaking(table[p].prog)
    BY <1>6 DEF Speakers
  <2>3. Stays(p, Name(j))  BY <1>2, <2>1, <2>2, OwnStays
  <2>4. Reported(a)  BY <2>1, <2>2, <2>3 DEF CompleteInv, Covered
  <2> QED BY <2>4 DEF Reported, Range
<1>7. ASSUME NEW a \in Asked, Runners(a) # {}
      PROVE  \E e \in Range(report.apps) : e.container = a
  BY <1>2, <1>3, <1>7 DEF ReportExact, AppsCovered, Range
<1> DEFINE first(a) == FirstShown(table[Least(Speakers(a))].prog)
<1>8. \A e \in Range(report.langs) : Speakers(e.container) # {} /\ e.lang = first(e.container)
  BY <1>4 DEF LangIsFirst
<1>9. \A e \in Range(report.apps) :
        /\ Runners(e.container) # {}
        /\ e.app \in Said(table[Least(Runners(e.container))].prog)
  BY <1>5 DEF AppIsFirst
<1>10. {<<e.container, e.lang>> : e \in Range(report.langs)}
         = {<<a, first(a)>> : a \in {b \in Asked : Speakers(b) # {}}}
  <2> HIDE DEF first
  <2>1. ASSUME NEW e \in Range(report.langs)
        PROVE  \E a \in {b \in Asked : Speakers(b) # {}} : <<e.container, e.lang>> = <<a, first(a)>>
    BY <1>4, <1>8
  <2>2. ASSUME NEW a \in {b \in Asked : Speakers(b) # {}}
        PROVE  \E e \in Range(report.langs) : <<a, first(a)>> = <<e.container, e.lang>>
    BY <1>6, <1>8
  <2> QED BY <2>1, <2>2
<1>11. {e.container : e \in Range(report.apps)} = {a \in Asked : Runners(a) # {}}
  BY <1>5, <1>7, <1>9
<1> QED BY <1>1, <1>9, <1>10, <1>11

\* Of processes that do not change, the report is exactly what the first process
\* of each container that shows a language, and the first that is an application,
\* say, and of every container asked about and no other, for any pod, process
\* table and batch size (process.go 181-284, langDetector/root.go 20-41,
\* appDetector/root.go 12-36, main.go 21-86).
THEOREM QuietScanExact == DetectorSpec => []QuietScanIsExact
<1>1. DetectorInit => CompleteInv /\ QuietInv /\ EndsOnce
  BY InitComplete, InitQuiet DEF DetectorInit, EndsOnce
<1>2. DetectorInv /\ CompleteInv /\ QuietInv /\ EndsOnce /\ [DetectorNext]_dvars
        => CompleteInv' /\ QuietInv' /\ EndsOnce'
  <2>1. DetectorInv => DetectorTypeOK  BY DEF DetectorInv
  <2> QED BY <2>1, NextComplete, NextQuiet, StepEnds
<1>3. DetectorInv /\ CompleteInv /\ QuietInv => QuietScanIsExact  BY QuietImplies
<1> QED BY <1>1, <1>2, <1>3, DetectorInvariant, PTL DEF DetectorSpec
=============================================================================
