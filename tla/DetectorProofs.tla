--------------------------- MODULE DetectorProofs ---------------------------
(***************************************************************************)
(* What the detector reports is true of the processes there have been, for  *)
(* every pod, process table and sequence of programs: proofs about module   *)
(* Detector.                                                                *)
(***************************************************************************)
EXTENDS Detector, FiniteSetTheorems, WellFoundedInduction, TLAPS

(***************************************************************************)
(* The inductive invariant.                                                *)
(***************************************************************************)

\* Everything that has run is in lived, in the container it has been in all along.
HistoryKept ==
  /\ \A p \in Pids : table[p].home \in Range(pod) \union {Host, Gone.home}
  /\ \A l \in lived : l.proc.home \in Range(pod) \union {Host}
  /\ \A p \in Pids : table[p] \notin {Gone, Zombie} => Life(p, table[p]) \in lived
  /\ \A l, m \in lived : l.pid = m.pid => l.proc.home = m.proc.home

\* What was read of a process is what the process has shown at one time or
\* another, and the process is one of the container that is asked about.
Backed(d) ==
  /\ \E l \in lived : l.pid = d.pid /\ InContainer(l.proc, Name(scan.k))
  /\ \A w \in Said(d) : \E l \in lived : l.pid = d.pid /\ w \in Said(l.proc.prog)

Reading == {"exe", "cmdline", "environ", "files"}

AtBacked == scan.pc \in Reading => scan.at \in Details /\ Backed(scan.at)

FoundBacked == \A i \in DOMAIN scan.found : Backed(scan.found[i])

Shown(container, lang) ==
  \E l \in lived : InContainer(l.proc, container) /\ Shows(l.proc.prog, lang)

SaidBacked == \A i \in DOMAIN scan.said : Shown(Name(scan.k), scan.said[i])

ReportBacked ==
  \A i \in DOMAIN report.langs :
    /\ report.langs[i].container \in Asked
    /\ Shown(report.langs[i].container, report.langs[i].lang)

DetectorInv ==
  /\ DetectorTypeOK
  /\ HistoryKept
  /\ AtBacked
  /\ FoundBacked
  /\ SaidBacked
  /\ ReportBacked

-----------------------------------------------------------------------------
(***************************************************************************)
(* The operators.                                                          *)
(***************************************************************************)

\* Least is what its name says.
LEMMA LeastIn ==
  ASSUME NEW S, S \subseteq Nat, S # {}
  PROVE  Least(S) \in S /\ \A n \in S : Least(S) <= n
<1>1. \E x \in S : \A y \in S : <<y, x>> \notin OpToRel(<, Nat)
  BY WFMin, NatLessThanWellFounded, Zenon
<1>2. \A x, y \in S : y < x => <<y, x>> \in OpToRel(<, Nat)
  BY Zenon DEF OpToRel
<1>3. \E x \in S : \A y \in S : ~(y < x)
  BY <1>1, <1>2, Zenon
<1>4. \E x \in S : \A y \in S : x <= y
  BY <1>3
<1> QED BY <1>4 DEF Least

\* What is not there is of the type of what is.
LEMMA BlankTyped ==
  NoEnv \in Env /\ Blank \in Program /\ Zombie \in Process /\ NoEnv.net = FALSE
<1>1. NoEnv \in Env /\ NoEnv.net = FALSE  BY DEF NoEnv, Env
<1>2. Blank \in Program                   BY <1>1 DEF Blank, Program
<1> QED BY <1>1, <1>2 DEF Zombie, Process

\* The places of the names asked are numbers, and there is one.
LEMMA ArgsTyped ==
  ASSUME pod \in Targets
  PROVE  /\ parseArgs \subseteq Nat /\ parseArgs # {}
         /\ \A k \in parseArgs : Name(k) \in Containers \union {<<>>} /\ Name(k) \in Asked
<1>1. pod \in Seq(Containers)              BY DetectorAssumption
<1>2. getContainerNames \subseteq Nat \ {0} BY <1>1 DEF getContainerNames
<1>3. \A k \in getContainerNames : pod[k] \in Containers
  BY <1>1 DEF getContainerNames
<1> QED BY <1>2, <1>3 DEF parseArgs, Name, Asked

LEMMA StartTyped ==
  ASSUME pod \in Targets
  PROVE  Start \in Scan
<1>1. Least(parseArgs) \in parseArgs  BY ArgsTyped, LeastIn
<1> QED BY <1>1 DEF Start, Scan, Steps

\* A language that is named was detected.
LEMMA LanguageIs ==
  ASSUME NEW d, NEW net
  PROVE  /\ Language(d, net) \in Seq(Range(Languages))
         /\ \A i \in DOMAIN Language(d, net) : Detects(Language(d, net)[i], d, net)
<1> DEFINE hits == Hits(d, net)
<1>1. CASE hits = {}
  BY <1>1 DEF Language
<1>2. CASE hits # {}
  <2>1. hits \subseteq Nat  BY DEF Hits, Languages
  <2>2. Least(hits) \in hits  BY <1>2, <2>1, LeastIn
  <2>3. Languages[Least(hits)] \in Range(Languages) /\ Detects(Languages[Least(hits)], d, net)
    BY <2>2 DEF Hits, Range
  <2> QED BY <1>2, <2>3 DEF Language
<1> QED BY <1>1, <1>2

-----------------------------------------------------------------------------
(***************************************************************************)
(* The node's processes.  Whatever they do, what has been read stays backed *)
(* by the history, which only grows.                                        *)
(***************************************************************************)

LEMMA HistoryGrows ==
  ASSUME DetectorInv, UNCHANGED <<pod, scan, report>>, lived \subseteq lived'
  PROVE  /\ AtBacked' /\ FoundBacked' /\ SaidBacked' /\ ReportBacked'
<1> USE DEF DetectorInv
<1>1. \A k : Name(k)' = Name(k)  BY DEF Name
<1>2. Asked' = Asked             BY DEF Asked, Name, parseArgs, getContainerNames
<1>3. \A d : Backed(d) => Backed(d)'
  BY <1>1 DEF Backed, InContainer
<1>4. \A c, lang : Shown(c, lang) => Shown(c, lang)'
  BY DEF Shown
<1>5. AtBacked'                  BY <1>3 DEF AtBacked
<1>6. FoundBacked'               BY <1>3 DEF FoundBacked
<1>7. SaidBacked'                BY <1>1, <1>4 DEF SaidBacked
<1>8. ReportBacked'              BY <1>2, <1>4 DEF ReportBacked
<1> QED BY <1>5, <1>6, <1>7, <1>8

\* A step of the node keeps the types, given those of what it adds.
LEMMA NodeTyped ==
  ASSUME DetectorInv, NEW p \in Pids, NEW proc \in Process \union {Gone}, Becomes(p, proc),
         lived' \subseteq [pid : Pids, proc : Process]
  PROVE  DetectorTypeOK'
<1> USE DEF DetectorInv, DetectorTypeOK, Becomes
<1>1. Scan' = Scan /\ LangEntry' = LangEntry
  BY DEF Scan, parseArgs, getContainerNames, LangEntry
<1>2. churn' \in 0..MaxChurn  BY DetectorAssumption
<1> QED BY <1>1, <1>2

LEMMA ForkInv ==
  ASSUME DetectorInv, Fork
  PROVE  DetectorInv'
<1> USE DEF DetectorInv
<1>1. PICK p \in Pids, c \in Range(pod) \union {Host}, prog \in Programs :
        /\ \A l \in lived : l.pid < p
        /\ Becomes(p, [home |-> c, prog |-> prog])
        /\ lived' = lived \union {Life(p, [home |-> c, prog |-> prog])}
  BY DEF Fork
<1> DEFINE proc == [home |-> c, prog |-> prog]
<1>2. proc \in Process
  <2>1. pod \in Seq(Containers)  BY DetectorAssumption DEF DetectorTypeOK
  <2> QED BY <2>1, DetectorAssumption DEF Process, Range
<1>3. lived' \subseteq [pid : Pids, proc : Process]
  BY <1>1, <1>2 DEF DetectorTypeOK, Life
<1>4. DetectorTypeOK'          BY <1>1, <1>2, <1>3, NodeTyped
<1>5. table' = [table EXCEPT ![p] = proc] /\ UNCHANGED <<pod, scan, report>>
  BY <1>1 DEF Becomes
<1>6. table'[p] = proc /\ \A q \in Pids \ {p} : table'[q] = table[q]
  BY <1>5 DEF DetectorTypeOK
<1>7. HistoryKept'
  <2>1. \A q \in Pids : table'[q].home \in Range(pod) \union {Host, Gone.home}
    BY <1>6 DEF HistoryKept
  <2>2. \A l \in lived' : l.proc.home \in Range(pod) \union {Host}
    BY <1>1 DEF HistoryKept, Life
  <2>3. \A q \in Pids : table'[q] \notin {Gone, Zombie} => Life(q, table'[q]) \in lived'
    BY <1>1, <1>6 DEF HistoryKept
  <2>4. \A l, m \in lived' : l.pid = m.pid => l.proc.home = m.proc.home
    <3>1. \A l \in lived : l.pid # p
      BY <1>1, DetectorAssumption DEF DetectorTypeOK
    <3> QED BY <1>1, <3>1 DEF HistoryKept, Life
  <2> QED BY <1>5, <2>1, <2>2, <2>3, <2>4 DEF HistoryKept
<1> QED BY <1>1, <1>4, <1>5, <1>7, HistoryGrows

LEMMA ExecInv ==
  ASSUME DetectorInv, Exec
  PROVE  DetectorInv'
<1> USE DEF DetectorInv
<1>1. PICK p \in Pids, prog \in Programs :
        /\ table[p] # Gone /\ table[p] # Zombie
        /\ Becomes(p, [home |-> table[p].home, prog |-> prog])
        /\ lived' = lived \union {Life(p, [home |-> table[p].home, prog |-> prog])}
  BY DEF Exec, Alive
<1> DEFINE proc == [home |-> table[p].home, prog |-> prog]
<1>2. Life(p, table[p]) \in lived  BY <1>1 DEF HistoryKept
<1>3. proc \in Process /\ proc.home \in Range(pod) \union {Host}
  <2>1. table[p] \in Process  BY <1>1 DEF DetectorTypeOK
  <2>2. table[p].home \in Range(pod) \union {Host}  BY <1>2 DEF HistoryKept, Life
  <2> QED BY <2>1, <2>2, DetectorAssumption DEF Process
<1>4. lived' \subseteq [pid : Pids, proc : Process]
  BY <1>1, <1>3 DEF DetectorTypeOK, Life
<1>5. DetectorTypeOK'          BY <1>1, <1>3, <1>4, NodeTyped
<1>6. table' = [table EXCEPT ![p] = proc] /\ UNCHANGED <<pod, scan, report>>
  BY <1>1 DEF Becomes
<1>7. table'[p] = proc /\ \A q \in Pids \ {p} : table'[q] = table[q]
  BY <1>6 DEF DetectorTypeOK
<1>8. HistoryKept'
  <2>1. \A q \in Pids : table'[q].home \in Range(pod) \union {Host, Gone.home}
    BY <1>3, <1>7 DEF HistoryKept
  <2>2. \A l \in lived' : l.proc.home \in Range(pod) \union {Host}
    BY <1>1, <1>3 DEF HistoryKept, Life
  <2>3. \A q \in Pids : table'[q] \notin {Gone, Zombie} => Life(q, table'[q]) \in lived'
    BY <1>1, <1>7 DEF HistoryKept
  <2>4. \A l \in lived : l.pid = p => l.proc.home = table[p].home
    BY <1>2 DEF HistoryKept, Life
  <2>5. \A l, m \in lived' : l.pid = m.pid => l.proc.home = m.proc.home
    BY <1>1, <2>4 DEF HistoryKept, Life
  <2> QED BY <1>6, <2>1, <2>2, <2>3, <2>5 DEF HistoryKept
<1> QED BY <1>1, <1>5, <1>6, <1>8, HistoryGrows

LEMMA ExitInv ==
  ASSUME DetectorInv, Exit
  PROVE  DetectorInv'
<1> USE DEF DetectorInv
<1>1. PICK p \in Pids, proc \in {Zombie, Gone} : Becomes(p, proc) /\ UNCHANGED lived
  BY DEF Exit
<1>2. DetectorTypeOK'
  BY <1>1, BlankTyped, NodeTyped DEF DetectorTypeOK
<1>3. table' = [table EXCEPT ![p] = proc] /\ UNCHANGED <<pod, scan, report>>
  BY <1>1 DEF Becomes
<1>4. table'[p] = proc /\ \A q \in Pids \ {p} : table'[q] = table[q]
  BY <1>3 DEF DetectorTypeOK
<1>5. HistoryKept'
  BY <1>1, <1>3, <1>4 DEF HistoryKept, Zombie
<1> QED BY <1>1, <1>2, <1>3, <1>5, HistoryGrows

-----------------------------------------------------------------------------
(***************************************************************************)
(* The detector's steps.                                                   *)
(***************************************************************************)

\* A step of the detector that publishes nothing keeps the invariant, if it
\* keeps the parts that are about what it holds.
LEMMA ScanMoves ==
  ASSUME DetectorInv, UNCHANGED <<report, outcome, node>>,
         scan' \in Scan, AtBacked', FoundBacked', SaidBacked'
  PROVE  DetectorInv'
<1> USE DEF DetectorInv, node
<1>1. Scan' = Scan /\ LangEntry' = LangEntry
  BY DEF Scan, parseArgs, getContainerNames, LangEntry
<1>2. DetectorTypeOK'  BY <1>1 DEF DetectorTypeOK
<1>3. HistoryKept'     BY DEF HistoryKept
<1>4. ReportBacked'    BY DEF ReportBacked, Shown, Asked, Name, parseArgs, getContainerNames
<1> QED BY <1>2, <1>3, <1>4

\* While the name asked about stays, what was backed is.
LEMMA SameName ==
  ASSUME UNCHANGED node, scan'.k = scan.k
  PROVE  /\ \A d : Backed(d)' <=> Backed(d)
         /\ \A lang : Shown(Name(scan.k), lang)' <=> Shown(Name(scan.k), lang)
  BY DEF node, Backed, Shown, Name, InContainer

\* A scan that starts holds nothing.
LEMMA StartBacked ==
  ASSUME DetectorInv, scan'.pc \in {"list", "publish", "done"},
         scan'.found = <<>>, scan'.said = <<>>
  PROVE  AtBacked' /\ FoundBacked' /\ SaidBacked'
  BY DEF AtBacked, FoundBacked, SaidBacked, Reading

LEMMA FatalInv ==
  ASSUME DetectorInv, Fatal
  PROVE  DetectorInv'
<1> USE DEF DetectorInv, Fatal, node
<1>1. scan' \in Scan
  BY StartTyped DEF DetectorTypeOK, Start, Scan, Steps
<1>2. AtBacked' /\ FoundBacked' /\ SaidBacked'
  BY StartBacked DEF Start
<1>3. Scan' = Scan /\ LangEntry' = LangEntry
  BY DEF Scan, parseArgs, getContainerNames, LangEntry
<1>4. DetectorTypeOK'  BY <1>1, <1>3 DEF DetectorTypeOK
<1>5. HistoryKept'     BY DEF HistoryKept
<1>6. ReportBacked'    BY DEF ReportBacked, Shown, Asked, Name, parseArgs, getContainerNames
<1> QED BY <1>2, <1>4, <1>5, <1>6

LEMMA ReaddirInv ==
  ASSUME DetectorInv, Readdir
  PROVE  DetectorInv'
<1> USE DEF DetectorInv
<1>1. NextBatch \subseteq Pids
  BY DEF NextBatch, Ahead
<1>2. /\ scan' \in Scan /\ scan'.pc \in {"inspect", "mounts"}
      /\ scan'.k = scan.k /\ scan'.found = scan.found /\ scan'.said = scan.said
  <2>1. CASE Listed
    BY <2>1 DEF Listed, Continue, DetectorTypeOK, Scan, Steps
  <2>2. ASSUME NEW p \in NextBatch, Batched(p) PROVE <1>2
    BY <1>1, <2>2 DEF Batched, Continue, DetectorTypeOK, Scan, Steps
  <2> QED BY <2>1, <2>2 DEF Readdir
<1>3. UNCHANGED <<report, outcome, node>>
  BY DEF Readdir, Listed, Batched, Continue
<1>4. AtBacked'     BY <1>2 DEF AtBacked, Reading
<1>5. FoundBacked'  BY <1>2, <1>3, SameName DEF FoundBacked
<1>6. SaidBacked'   BY <1>2, <1>3, SameName DEF SaidBacked, node, Shown, Name, InContainer
<1> QED BY <1>2, <1>3, <1>4, <1>5, <1>6, ScanMoves

\* What has left the pod's containers has nothing to show.
LEMMA AliveInContainer ==
  ASSUME DetectorInv, NEW p \in Pids
  PROVE  /\ InContainer(table[p], Name(scan.k)) => Life(p, table[p]) \in lived
         /\ Life(p, table[p]) \in lived \/ table[p].prog = Blank
  BY DetectorAssumption DEF DetectorInv, HistoryKept, InContainer, Zombie, Gone

LEMMA WithoutTyped ==
  ASSUME DetectorTypeOK, NEW p
  PROVE  /\ Without(p) \in Scan /\ Without(p).pc \in {"list", "mounts"}
         /\ Without(p).k = scan.k
         /\ Without(p).found = scan.found /\ Without(p).said = scan.said
  BY DEF DetectorTypeOK, Without, Scan, Steps

LEMMA GetMountInfoInv ==
  ASSUME DetectorInv, GetMountInfo
  PROVE  DetectorInv'
<1> USE DEF DetectorInv
<1>1. PICK p \in scan.todo :
        IF InContainer(table[p], Name(scan.k))
        THEN Continue([scan EXCEPT !.pc = "exe", !.at = NotRead(p)])
        ELSE Continue(Without(p))
  BY DEF GetMountInfo
<1>2. p \in Pids  BY DEF DetectorTypeOK, Scan
<1>3. UNCHANGED <<report, outcome, node>>  BY <1>1 DEF Continue
<1>4. CASE InContainer(table[p], Name(scan.k))
  <2>1. scan' = [scan EXCEPT !.pc = "exe", !.at = NotRead(p)]  BY <1>1, <1>4 DEF Continue
  <2>2. NotRead(p) \in Details  BY <1>2, BlankTyped DEF NotRead, Details
  <2>3. /\ scan' \in Scan /\ scan'.at = NotRead(p)
        /\ scan'.k = scan.k /\ scan'.found = scan.found /\ scan'.said = scan.said
    BY <2>1, <2>2 DEF DetectorTypeOK, Scan, Steps
  <2>4. Backed(NotRead(p))
    BY <1>2, <1>4, AliveInContainer DEF Backed, NotRead, Said, Life
  <2>5. AtBacked'     BY <1>3, <2>2, <2>3, <2>4, SameName DEF AtBacked
  <2>6. FoundBacked'  BY <1>3, <2>3, SameName DEF FoundBacked
  <2>7. SaidBacked'   BY <1>3, <2>3 DEF SaidBacked, node, Shown, Name, InContainer
  <2> QED BY <1>3, <2>3, <2>5, <2>6, <2>7, ScanMoves
<1>5. CASE ~InContainer(table[p], Name(scan.k))
  <2>1. scan' = Without(p)  BY <1>1, <1>5 DEF Continue
  <2>2. /\ scan' \in Scan /\ scan'.pc \in {"list", "mounts"}
        /\ scan'.k = scan.k /\ scan'.found = scan.found /\ scan'.said = scan.said
    BY <2>1, WithoutTyped
  <2>3. AtBacked'     BY <2>2 DEF AtBacked, Reading
  <2>4. FoundBacked'  BY <1>3, <2>2, SameName DEF FoundBacked
  <2>5. SaidBacked'   BY <1>3, <2>2 DEF SaidBacked, node, Shown, Name, InContainer
  <2> QED BY <1>3, <2>2, <2>3, <2>4, <2>5, ScanMoves
<1> QED BY <1>4, <1>5

\* Reading more of a process, whatever runs there by now.
LEMMA ReadsMore ==
  ASSUME DetectorInv, scan.pc \in Reading, NEW d \in Details,
         d.pid = scan.at.pid, Said(d) \subseteq Said(scan.at) \union Said(table[d.pid].prog)
  PROVE  Backed(d)
<1> USE DEF DetectorInv
<1>1. Backed(scan.at)  BY DEF AtBacked
<1>2. CASE Life(d.pid, table[d.pid]) \in lived
  BY <1>1, <1>2 DEF Backed, Life
<1>3. CASE table[d.pid].prog = Blank
  BY <1>1, <1>3 DEF Backed, Blank, Said
<1> QED BY <1>2, <1>3, AliveInContainer DEF Details

LEMMA ReadlinkInv ==
  ASSUME DetectorInv, Readlink
  PROVE  DetectorInv'
<1> USE DEF DetectorInv
<1> DEFINE d == [scan.at EXCEPT !.exe = table[scan.at.pid].prog.exe]
<1>1. /\ scan.pc = "exe" /\ scan.at \in Details
      /\ UNCHANGED <<report, outcome, node>>
      /\ scan' = [scan EXCEPT !.pc = "cmdline", !.at = d]
  BY DEF Readlink, At, Continue, AtBacked, Reading
<1>2. table[scan.at.pid].prog \in Program
  BY <1>1, BlankTyped DEF DetectorTypeOK, Details, Process, Gone
<1>3. d \in Details /\ d.pid = scan.at.pid /\ d.env = scan.at.env
      /\ Said(d) \subseteq Said(scan.at) \union Said(table[d.pid].prog)
  BY <1>1, <1>2 DEF Details, Program, Said
<1>4. Backed(d)  BY <1>1, <1>3, ReadsMore DEF Reading
<1>5. /\ scan' \in Scan /\ scan'.at = d
      /\ scan'.k = scan.k /\ scan'.found = scan.found /\ scan'.said = scan.said
  BY <1>1, <1>3 DEF DetectorTypeOK, Scan, Steps
<1>6. AtBacked'     BY <1>1, <1>3, <1>4, <1>5, SameName DEF AtBacked
<1>7. FoundBacked'  BY <1>1, <1>5, SameName DEF FoundBacked
<1>8. SaidBacked'   BY <1>1, <1>5 DEF SaidBacked, node, Shown, Name, InContainer
<1> QED BY <1>1, <1>5, <1>6, <1>7, <1>8, ScanMoves

LEMMA ReadCmdlineInv ==
  ASSUME DetectorInv, ReadCmdline
  PROVE  DetectorInv'
<1> USE DEF DetectorInv
<1> DEFINE d == [scan.at EXCEPT !.cmd = table[scan.at.pid].prog.cmd]
<1>1. /\ scan.pc = "cmdline" /\ scan.at \in Details
      /\ UNCHANGED <<report, outcome, node>>
      /\ scan' = [scan EXCEPT !.pc = "environ", !.at = d]
  BY DEF ReadCmdline, At, Continue, AtBacked, Reading
<1>2. table[scan.at.pid].prog \in Program
  BY <1>1, BlankTyped DEF DetectorTypeOK, Details, Process, Gone
<1>3. d \in Details /\ d.pid = scan.at.pid /\ d.env = scan.at.env
      /\ Said(d) \subseteq Said(scan.at) \union Said(table[d.pid].prog)
  BY <1>1, <1>2 DEF Details, Program, Said
<1>4. Backed(d)  BY <1>1, <1>3, ReadsMore DEF Reading
<1>5. /\ scan' \in Scan /\ scan'.at = d
      /\ scan'.k = scan.k /\ scan'.found = scan.found /\ scan'.said = scan.said
  BY <1>1, <1>3 DEF DetectorTypeOK, Scan, Steps
<1>6. AtBacked'     BY <1>1, <1>3, <1>4, <1>5, SameName DEF AtBacked
<1>7. FoundBacked'  BY <1>1, <1>5, SameName DEF FoundBacked
<1>8. SaidBacked'   BY <1>1, <1>5 DEF SaidBacked, node, Shown, Name, InContainer
<1> QED BY <1>1, <1>5, <1>6, <1>7, <1>8, ScanMoves

LEMMA ReadEnvironInv ==
  ASSUME DetectorInv, ReadEnviron
  PROVE  DetectorInv'
<1> USE DEF DetectorInv
<1>1. CASE Fatal  BY <1>1, FatalInv
<1>2. CASE ~Fatal
  <2> DEFINE d == [scan.at EXCEPT !.env = table[scan.at.pid].prog.env]
  <2>1. /\ scan.pc = "environ" /\ scan.at \in Details
        /\ UNCHANGED <<report, outcome, node>>
        /\ scan' = [scan EXCEPT !.pc = "files", !.at = d]
    BY <1>2 DEF ReadEnviron, At, Continue, AtBacked, Reading
  <2>2. table[scan.at.pid].prog \in Program
    BY <2>1, BlankTyped DEF DetectorTypeOK, Details, Process, Gone
  <2>3. d \in Details /\ d.pid = scan.at.pid /\ d.env = table[d.pid].prog.env
        /\ Said(d) = Said(scan.at)
    BY <2>1, <2>2 DEF Details, Program, Said
  <2>4. Backed(d)  BY <2>1, <2>3, ReadsMore DEF Reading
  <2>5. /\ scan' \in Scan /\ scan'.at = d
        /\ scan'.k = scan.k /\ scan'.found = scan.found /\ scan'.said = scan.said
    BY <2>1, <2>3 DEF DetectorTypeOK, Scan, Steps
  <2>6. AtBacked'     BY <2>1, <2>3, <2>4, <2>5, SameName DEF AtBacked
  <2>7. FoundBacked'  BY <2>1, <2>5, SameName DEF FoundBacked
  <2>8. SaidBacked'   BY <2>1, <2>5 DEF SaidBacked, node, Shown, Name, InContainer
  <2> QED BY <2>1, <2>5, <2>6, <2>7, <2>8, ScanMoves
<1> QED BY <1>1, <1>2

\* A sequence that is put together has what its parts have.
LEMMA Concatenated ==
  ASSUME NEW S, NEW s \in Seq(S), NEW t \in Seq(S), NEW i \in DOMAIN (s \o t)
  PROVE  \/ i \in DOMAIN s /\ (s \o t)[i] = s[i]
         \/ \E j \in DOMAIN t : (s \o t)[i] = t[j]
<1>1. CASE i \in DOMAIN s  BY <1>1
<1>2. CASE i \notin DOMAIN s
  <2>1. i - Len(s) \in DOMAIN t /\ (s \o t)[i] = t[i - Len(s)]  BY <1>2
  <2> QED BY <2>1
<1> QED BY <1>1, <1>2

LEMMA ReadFilesInv ==
  ASSUME DetectorInv, ReadFiles
  PROVE  DetectorInv'
<1> USE DEF DetectorInv
<1>1. CASE Fatal  BY <1>1, FatalInv
<1>2. CASE ~Fatal
  <2> DEFINE p == scan.at.pid
             files == table[p].prog.files
             d == [scan.at EXCEPT !.deps = extractDependencies(files)]
  <2>1. /\ scan.pc = "files" /\ scan.at \in Details
        /\ UNCHANGED <<report, outcome, node>>
        /\ scan' = [Without(p) EXCEPT !.found = Append(@, d)]
    BY <1>2 DEF ReadFiles, At, Continue, AtBacked, Reading
  <2>2. d \in Details /\ d.pid = scan.at.pid /\ d.env = scan.at.env /\ Said(d) = Said(scan.at)
    BY <2>1 DEF Details, Said, extractDependencies
  <2>3. Backed(d)  BY <2>1, <2>2, ReadsMore DEF Reading
  <2>4. scan.found \in Seq(Details)  BY DEF DetectorTypeOK, Scan
  <2>5. /\ scan' \in Scan /\ scan'.pc \in {"list", "mounts"}
        /\ scan'.k = scan.k /\ scan'.found = Append(scan.found, d) /\ scan'.said = scan.said
    <3> HIDE DEF d, p
    <3>1. Without(p) \in Scan  BY WithoutTyped
    <3>2. Append(scan.found, d) \in Seq(Details)  BY <2>2, <2>4
    <3>3. scan' = [Without(p) EXCEPT !.found = Append(scan.found, d)]
      BY <2>1, WithoutTyped
    <3>4. scan' \in Scan /\ scan'.found = Append(scan.found, d)
      BY <3>1, <3>2, <3>3 DEF Scan
    <3>5. scan'.pc = Without(p).pc /\ scan'.k = Without(p).k /\ scan'.said = Without(p).said
      BY <3>1, <3>3 DEF Scan
    <3> QED BY <3>4, <3>5, WithoutTyped
  <2>6. AtBacked'     BY <2>5 DEF AtBacked, Reading
  <2>7. FoundBacked'
    <3>1. \A i \in DOMAIN Append(scan.found, d) : Backed(Append(scan.found, d)[i])
      BY <2>3, <2>4 DEF FoundBacked
    <3> QED BY <2>1, <2>5, <3>1, SameName DEF FoundBacked
  <2>8. SaidBacked'   BY <2>1, <2>5 DEF SaidBacked, node, Shown, Name, InContainer
  <2> QED BY <2>1, <2>5, <2>6, <2>7, <2>8, ScanMoves
<1> QED BY <1>1, <1>2

\* A language a process was found to speak was shown in the container: by what
\* was read of it then, or by the environment it has now.
LEMMA DetectedIsShown ==
  ASSUME DetectorInv, NEW d \in Details, Backed(d),
         NEW lang \in Range(Languages), Detects(lang, d, table[d.pid].prog.env.net)
  PROVE  Shown(Name(scan.k), lang)
<1> USE DEF DetectorInv
<1>1. PICK m \in lived : m.pid = d.pid /\ InContainer(m.proc, Name(scan.k))
  BY DEF Backed
<1>2. \A l \in lived : l.pid = d.pid => InContainer(l.proc, Name(scan.k))
  BY <1>1 DEF HistoryKept, InContainer
<1>3. \A w \in Said(d) : \E l \in lived :
        InContainer(l.proc, Name(scan.k)) /\ w \in Said(l.proc.prog)
  BY <1>2 DEF Backed
<1>4. lang \in {"java", "python", "dotnet", "javascript"}
  BY DEF Languages, Range
<1>5. CASE lang = "dotnet"
  <2>1. table[d.pid].prog.env.net  BY <1>5 DEF Detects
  <2>2. table[d.pid].prog # Blank  BY <2>1, BlankTyped DEF Blank
  <2>3. Life(d.pid, table[d.pid]) \in lived  BY <2>2, AliveInContainer DEF Details
  <2> QED BY <1>2, <1>5, <2>1, <2>3 DEF Shown, Shows, Life
<1>6. CASE lang # "dotnet"
  <2>1. CASE lang = "java"
    BY <1>3, <2>1 DEF Detects, Shown, Shows
  <2>2. CASE lang = "python"
    BY <1>3, <2>2 DEF Detects, Shown, Shows
  <2>3. CASE lang = "javascript"
    BY <1>3, <2>3 DEF Detects, Shown, Shows
  <2> QED BY <1>4, <1>6, <2>1, <2>2, <2>3
<1> QED BY <1>5, <1>6

LEMMA InspectInv ==
  ASSUME DetectorInv, Inspect
  PROVE  DetectorInv'
<1> USE DEF DetectorInv
<1>1. UNCHANGED <<report, outcome, node>>  BY DEF Inspect, Continue
<1>2. scan \in Scan /\ scan.found \in Seq(Details) /\ scan.said \in Seq(Range(Languages))
  BY DEF DetectorTypeOK, Scan
<1>3. CASE scan.next > Len(scan.found)
  <2>1. scan' = [scan EXCEPT !.pc = "conclude"]  BY <1>3 DEF Inspect, Continue
  <2>2. /\ scan' \in Scan /\ scan'.pc = "conclude"
        /\ scan'.k = scan.k /\ scan'.found = scan.found /\ scan'.said = scan.said
    BY <1>2, <2>1 DEF Scan, Steps
  <2>3. AtBacked'     BY <2>2 DEF AtBacked, Reading
  <2>4. FoundBacked'  BY <1>1, <2>2, SameName DEF FoundBacked
  <2>5. SaidBacked'   BY <1>1, <2>2 DEF SaidBacked, node, Shown, Name, InContainer
  <2> QED BY <1>1, <2>2, <2>3, <2>4, <2>5, ScanMoves
<1>4. CASE ~(scan.next > Len(scan.found))
  <2> DEFINE d == scan.found[scan.next]
             net == table[d.pid].prog.env.net
             said == scan.said \o Language(d, net)
  <2>1. scan' = [scan EXCEPT !.next = scan.next + 1, !.said = said]
    BY <1>4 DEF Inspect, Continue
  <2>2. Language(d, net) \in Seq(Range(Languages))  BY LanguageIs
  <2>3. said \in Seq(Range(Languages))  BY <1>2, <2>2
  <2>4. /\ scan' \in Scan /\ scan'.pc = scan.pc
        /\ scan'.k = scan.k /\ scan'.found = scan.found /\ scan'.said = said
    <3> HIDE DEF said
    <3>1. scan.next + 1 \in Nat \ {0}  BY <1>2 DEF Scan
    <3> QED BY <1>2, <2>1, <2>3, <3>1 DEF Scan
  <2>5. AtBacked'     BY <2>4 DEF AtBacked, Reading, Inspect, At
  <2>6. FoundBacked'  BY <1>1, <2>4, SameName DEF FoundBacked
  <2>7. \A i \in DOMAIN said : Shown(Name(scan.k), said[i])
    <3> SUFFICES ASSUME NEW i \in DOMAIN said PROVE Shown(Name(scan.k), said[i])
      OBVIOUS
    <3>1. CASE i \in DOMAIN scan.said /\ said[i] = scan.said[i]
      BY <3>1 DEF SaidBacked
    <3>2. ASSUME NEW j \in DOMAIN Language(d, net), said[i] = Language(d, net)[j]
          PROVE  Shown(Name(scan.k), said[i])
      <4>1. said[i] \in Range(Languages) /\ Detects(said[i], d, net)
        <5> HIDE DEF said, d, net
        <5>1. Language(d, net)[j] \in Range(Languages)  BY <2>2, <3>2
        <5>2. Detects(Language(d, net)[j], d, net)  BY <3>2, LanguageIs
        <5> QED BY <3>2, <5>1, <5>2
      <4>2. d \in Details /\ Backed(d)
        BY <1>2, <1>4 DEF FoundBacked, Scan
      <4> QED BY <4>1, <4>2, DetectedIsShown
    <3> QED BY <1>2, <2>2, <3>1, <3>2, Concatenated
  <2>8. SaidBacked'   BY <1>1, <2>4, <2>7 DEF SaidBacked, node, Shown, Name, InContainer
  <2> QED BY <1>1, <2>4, <2>5, <2>6, <2>8, ScanMoves
<1> QED BY <1>3, <1>4

\* A service name that is found is one.
LEMMA ServiceNameIs ==
  ASSUME NEW found \in Seq(Details), NEW name \in DetectServiceName(found)
  PROVE  name \in Services
<1> DEFINE hits == {i \in DOMAIN found : NamesOf(found[i].env) # {}}
<1>1. CASE hits = {}
  BY <1>1, DetectorAssumption DEF DetectServiceName
<1>2. CASE hits # {}
  <2>0. hits \subseteq Nat  OBVIOUS
  <2>1. Least(hits) \in hits
    <3> HIDE DEF hits
    <3> QED BY <1>2, <2>0, LeastIn
  <2>2. name \in NamesOf(found[Least(hits)].env)  BY <1>2 DEF DetectServiceName
  <2>3. found[Least(hits)] \in Details
    <3>1. Least(hits) \in DOMAIN found  BY <2>1
    <3> HIDE DEF hits
    <3> QED BY <3>1
  <2>4. found[Least(hits)].env \in Env  BY <2>3 DEF Details
  <2> QED BY <2>1, <2>2, <2>4 DEF NamesOf, Env
<1> QED BY <1>1, <1>2

LEMMA ConcludeInv ==
  ASSUME DetectorInv, Conclude
  PROVE  DetectorInv'
<1> USE DEF DetectorInv
<1> DEFINE entry(name) == [container |-> Name(scan.k), lang |-> Head(scan.said),
                           otel |-> DetectOpenTelemetry(scan.found), name |-> name]
           seen(a) == [container |-> Name(scan.k), app |-> a]
<1>1. PICK name \in DetectServiceName(scan.found), app \in DetectApplication(scan.found) :
        report' = [langs |-> IF scan.said = <<>> THEN report.langs
                             ELSE Append(report.langs, entry(name)),
                   apps |-> IF app = <<>> THEN report.apps
                            ELSE Append(report.apps, seen(app[1]))]
  BY DEF Conclude
<1>2. UNCHANGED <<outcome, node>>  BY DEF Conclude
<1>3. /\ pod \in Targets /\ scan \in Scan /\ scan.k \in parseArgs
      /\ scan.found \in Seq(Details) /\ scan.said \in Seq(Range(Languages))
      /\ report \in [langs : Seq(LangEntry), apps : Seq(AppEntry)]
  BY DEF DetectorTypeOK, Scan
<1>4. parseArgs' = parseArgs /\ Asked' = Asked /\ Scan' = Scan
      /\ LangEntry' = LangEntry /\ AppEntry' = AppEntry
  BY <1>2 DEF node, Asked, Name, parseArgs, getContainerNames, Scan, LangEntry, AppEntry
<1>5. scan' \in Scan /\ AtBacked' /\ FoundBacked' /\ SaidBacked'
  <2> DEFINE later == {k \in parseArgs : k > scan.k}
  <2>1. CASE later = {}
    <3>1. scan' = [Start EXCEPT !.pc = "publish"]  BY <2>1 DEF Conclude
    <3>2. scan' \in Scan  BY <1>3, <3>1, StartTyped DEF Scan, Steps
    <3> QED BY <3>1, <3>2, StartBacked DEF Start
  <2>2. CASE later # {}
    <3>1. Least(later) \in parseArgs  BY <1>3, <2>2, ArgsTyped, LeastIn
    <3>2. scan' = [Start EXCEPT !.k = Least(later)]  BY <2>2 DEF Conclude
    <3>3. scan' \in Scan  BY <1>3, <3>1, <3>2, StartTyped DEF Scan
    <3> QED BY <3>2, <3>3, StartBacked DEF Start
  <2> QED BY <2>1, <2>2
<1>6. /\ scan.said = <<>> => report'.langs = report.langs
      /\ scan.said # <<>> => report'.langs = Append(report.langs, entry(name))
  BY <1>1
<1>7. scan.said # <<>> => /\ entry(name) \in LangEntry
                         /\ Shown(Name(scan.k), Head(scan.said))
  <2>1. name \in Services  BY <1>3, ServiceNameIs
  <2>2. DetectOpenTelemetry(scan.found) \in BOOLEAN  BY DEF DetectOpenTelemetry
  <2>3. Name(scan.k) \in Containers \union {<<>>}  BY <1>3, ArgsTyped
  <2>4. scan.said # <<>> => Head(scan.said) \in Range(Languages) /\ Head(scan.said) = scan.said[1]
                            /\ 1 \in DOMAIN scan.said
    BY <1>3
  <2> QED BY <2>1, <2>2, <2>3, <2>4 DEF LangEntry, SaidBacked
<1>8. report'.langs \in Seq(LangEntry)
  <2> HIDE DEF entry
  <2>1. report.langs \in Seq(LangEntry)  BY <1>3
  <2>2. CASE scan.said = <<>>  BY <1>6, <2>1, <2>2
  <2>3. CASE scan.said # <<>>
    <3>1. entry(name) \in LangEntry  BY <1>7, <2>3
    <3>2. Append(report.langs, entry(name)) \in Seq(LangEntry)  BY <2>1, <3>1
    <3> QED BY <1>6, <2>3, <3>2
  <2> QED BY <2>2, <2>3
<1>9. report' \in [langs : Seq(LangEntry), apps : Seq(AppEntry)]
  <2>1. app # <<>> => app[1] \in Applications
    <3>1. app = <<>> \/ \E a \in Applications : app = <<a>>
      BY DEF DetectApplication
    <3> QED BY <3>1
  <2>2. app # <<>> => seen(app[1]) \in AppEntry
    BY <1>3, <2>1, ArgsTyped DEF AppEntry
  <2>3. /\ report' = [langs |-> report'.langs, apps |-> report'.apps]
        /\ report'.apps = IF app = <<>> THEN report.apps
                          ELSE Append(report.apps, seen(app[1]))
    BY <1>1
  <2>4. report'.apps \in Seq(AppEntry)
    <3> HIDE DEF seen
    <3> QED BY <1>3, <2>2, <2>3
  <2> QED BY <1>8, <2>3, <2>4
<1>10. DetectorTypeOK'
  BY <1>2, <1>4, <1>5, <1>9 DEF DetectorTypeOK, node
<1>11. HistoryKept'  BY <1>2 DEF node, HistoryKept
<1>12. \A i \in DOMAIN report'.langs :
         \/ i \in DOMAIN report.langs /\ report'.langs[i] = report.langs[i]
         \/ scan.said # <<>> /\ report'.langs[i] = entry(name)
  <2> HIDE DEF entry
  <2>1. report.langs \in Seq(LangEntry)  BY <1>3
  <2>2. CASE scan.said = <<>>  BY <1>6, <2>1, <2>2
  <2>3. CASE scan.said # <<>>
    <3>1. \A i \in DOMAIN Append(report.langs, entry(name)) :
            \/ i \in DOMAIN report.langs
               /\ Append(report.langs, entry(name))[i] = report.langs[i]
            \/ Append(report.langs, entry(name))[i] = entry(name)
      BY <2>1
    <3> QED BY <1>6, <2>3, <3>1
  <2> QED BY <2>2, <2>3
<1>13. ReportBacked'
  <2>1. \A c, lang : Shown(c, lang)' <=> Shown(c, lang)  BY <1>2 DEF node, Shown, InContainer
  <2>2. scan.said # <<>> => entry(name).container \in Asked /\ Shown(entry(name).container, entry(name).lang)
    BY <1>3, <1>7, ArgsTyped
  <2> HIDE DEF entry
  <2> QED BY <1>4, <1>12, <2>1, <2>2 DEF ReportBacked
<1> QED BY <1>5, <1>10, <1>11, <1>13

LEMMA PublishInv ==
  ASSUME DetectorInv, Publish
  PROVE  DetectorInv'
<1> USE DEF DetectorInv
<1>1. UNCHANGED <<report, node>> /\ scan' = [Start EXCEPT !.pc = "done"]
  BY DEF Publish
<1>2. scan' \in Scan
  BY <1>1, StartTyped DEF DetectorTypeOK, Scan, Steps
<1>3. AtBacked' /\ FoundBacked' /\ SaidBacked'
  BY <1>1, StartBacked DEF Start
<1>4. outcome' \in {"none", "failed", "garbled", "both", "langs", "apps", "neither"}
  BY DEF Publish, Read
<1>5. Scan' = Scan /\ LangEntry' = LangEntry
  BY <1>1 DEF node, Scan, parseArgs, getContainerNames, LangEntry
<1>6. DetectorTypeOK'  BY <1>1, <1>2, <1>4, <1>5 DEF node, DetectorTypeOK
<1>7. HistoryKept'     BY <1>1 DEF node, HistoryKept
<1>8. ReportBacked'
  BY <1>1 DEF node, ReportBacked, Shown, Asked, Name, parseArgs, getContainerNames
<1> QED BY <1>3, <1>6, <1>7, <1>8

-----------------------------------------------------------------------------
(***************************************************************************)
(* The theorems.                                                           *)
(***************************************************************************)

LEMMA InitInv ==
  ASSUME DetectorInit
  PROVE  DetectorInv
<1> USE DEF DetectorInit
<1>1. scan = Start /\ scan \in Scan /\ scan.pc = "list" /\ scan.found = <<>> /\ scan.said = <<>>
  BY StartTyped DEF Start
<1>2. table \in [Pids -> Process \union {Gone}]
  BY DetectorAssumption
<1>3. lived \in SUBSET [pid : Pids, proc : Process]
  BY <1>2 DEF Life, Alive
<1>4. DetectorTypeOK
  BY <1>1, <1>2, <1>3, DetectorAssumption DEF DetectorTypeOK
<1>5. HistoryKept
  <2>1. \A p \in Pids : table[p].home \in Range(pod) \union {Host, Gone.home}
    OBVIOUS
  <2>2. \A l \in lived : \E p \in Pids : l = Life(p, table[p]) /\ table[p] \in Process
    BY <1>2 DEF Alive
  <2>3. \A l \in lived : l.proc.home \in Range(pod) \union {Host}
    BY <2>1, <2>2, DetectorAssumption DEF Life, Process, Gone, Host
  <2> QED BY <2>1, <2>2, <2>3 DEF HistoryKept, Life, Alive
<1>6. AtBacked /\ FoundBacked /\ SaidBacked
  BY <1>1 DEF AtBacked, FoundBacked, SaidBacked, Reading
<1>7. ReportBacked
  BY DEF ReportBacked
<1> QED BY <1>4, <1>5, <1>6, <1>7 DEF DetectorInv

LEMMA NextInv ==
  ASSUME DetectorInv, [DetectorNext]_dvars
  PROVE  DetectorInv'
<1>1. CASE Readdir       BY <1>1, ReaddirInv
<1>2. CASE GetMountInfo  BY <1>2, GetMountInfoInv
<1>3. CASE Readlink      BY <1>3, ReadlinkInv
<1>4. CASE ReadCmdline   BY <1>4, ReadCmdlineInv
<1>5. CASE ReadEnviron   BY <1>5, ReadEnvironInv
<1>6. CASE ReadFiles     BY <1>6, ReadFilesInv
<1>7. CASE Inspect       BY <1>7, InspectInv
<1>8. CASE Conclude      BY <1>8, ConcludeInv
<1>9. CASE Publish       BY <1>9, PublishInv
<1>10. CASE Fork         BY <1>10, ForkInv
<1>11. CASE Exec         BY <1>11, ExecInv
<1>12. CASE Exit         BY <1>12, ExitInv
<1>13. CASE UNCHANGED dvars
  <2>1. UNCHANGED <<report, outcome, node>> /\ scan' = scan  BY <1>13 DEF dvars, node
  <2>2. scan' \in Scan /\ AtBacked' /\ FoundBacked' /\ SaidBacked'
    <3>1. scan' \in Scan  BY <2>1 DEF DetectorInv, DetectorTypeOK
    <3>2. FoundBacked' /\ AtBacked'
      BY <2>1, SameName DEF DetectorInv, FoundBacked, AtBacked
    <3>3. SaidBacked'
      BY <2>1 DEF DetectorInv, SaidBacked, node, Shown, Name, InContainer
    <3> QED BY <3>1, <3>2, <3>3
  <2> QED BY <2>1, <2>2, ScanMoves
<1> QED
  BY <1>1, <1>2, <1>3, <1>4, <1>5, <1>6, <1>7, <1>8, <1>9, <1>10, <1>11, <1>12, <1>13
  DEF DetectorNext, Detect, Processes

\* What the detector is asked about and what it reports: where no name is the
\* beginning of another's, a process backs a report only if it ran in the
\* container that is reported.
LEMMA InvImplies ==
  ASSUME DetectorInv
  PROVE  LanguagesAreTheirs
<1> USE DEF DetectorInv
<1> SUFFICES ASSUME PrefixFree, NEW i \in DOMAIN report.langs
             PROVE  \E l \in lived : /\ l.proc.home = report.langs[i].container
                                    /\ Shows(l.proc.prog, report.langs[i].lang)
  BY DEF LanguagesAreTheirs
<1>1. PICK l \in lived : /\ InContainer(l.proc, report.langs[i].container)
                         /\ Shows(l.proc.prog, report.langs[i].lang)
  BY DEF ReportBacked, Shown
<1>2. report.langs[i].container \in Asked  BY DEF ReportBacked
<1>3. l.proc.home \in Range(pod)
  BY <1>1, DetectorAssumption DEF HistoryKept, InContainer
<1>4. l.proc.home = report.langs[i].container
  BY <1>1, <1>2, <1>3 DEF InContainer, PrefixFree
<1> QED BY <1>1, <1>4

THEOREM DetectorInvariant == DetectorSpec => []DetectorInv
<1>1. DetectorInit => DetectorInv  BY InitInv
<1>2. DetectorInv /\ [DetectorNext]_dvars => DetectorInv'  BY NextInv
<1> QED BY <1>1, <1>2, PTL DEF DetectorSpec

\* The detector's variables keep their types.
THEOREM DetectorTypeCorrect == DetectorSpec => []DetectorTypeOK
<1>1. DetectorInv => DetectorTypeOK  BY DEF DetectorInv
<1> QED BY <1>1, DetectorInvariant, PTL

\* However processes start, exec and exit between the reads, and in whatever
\* batches they are listed, a language is reported of a container only if a
\* process of that container showed it (process.go 181-284, langDetector/root.go).
THEOREM LanguagesCorrect == DetectorSpec => []LanguagesAreTheirs
<1>1. DetectorInv => LanguagesAreTheirs  BY InvImplies
<1> QED BY <1>1, DetectorInvariant, PTL

-----------------------------------------------------------------------------
(***************************************************************************)
(* Nothing is missed: where each process that stays is while /proc is       *)
(* listed.                                                                  *)
(***************************************************************************)

Stays(p, name) == p \in settled /\ InContainer(table[p], name)

SettledAlive == \A p \in settled : Alive(p)

TodoIsCurrent ==
  /\ scan.pc = "list" => scan.todo = {}
  /\ scan.pc \in Reading => scan.at.pid \in scan.todo

\* What has been read of a process that stays is what it shows.
AtMatches ==
  scan.pc \in Reading /\ scan.at.pid \in settled =>
    /\ scan.pc # "exe" => scan.at.exe = table[scan.at.pid].prog.exe
    /\ scan.pc \in {"environ", "files"} => scan.at.cmd = table[scan.at.pid].prog.cmd

Matches(d) ==
  d.pid \in settled => /\ d.exe = table[d.pid].prog.exe
                       /\ d.cmd = table[d.pid].prog.cmd

FoundMatches == \A i \in DOMAIN scan.found : Matches(scan.found[i])

FoundAlready(p) == \E i \in DOMAIN scan.found : scan.found[i].pid = p

NotPassed ==
  scan.pc \in {"list", "mounts"} \union Reading =>
    \A p \in Pids : Stays(p, Name(scan.k)) =>
      p > scan.cursor \/ p \in scan.todo \/ FoundAlready(p)

AllFound ==
  scan.pc \in {"inspect", "conclude"} =>
    \A p \in Pids : Stays(p, Name(scan.k)) => FoundAlready(p)

Heard ==
  /\ \A i \in DOMAIN scan.found :
       /\ i < scan.next
       /\ scan.found[i].pid \in settled
       /\ Speaking(table[scan.found[i].pid].prog)
       => scan.said # <<>>
  /\ scan.pc = "conclude" => scan.next > Len(scan.found)
  /\ scan.pc \in {"list", "mounts"} \union Reading => scan.next = 1

Reported(name) == \E i \in DOMAIN report.langs : report.langs[i].container = name

Covered ==
  \A j \in parseArgs :
    j < scan.k \/ scan.pc = "publish" \/ Published =>
      \A p \in Pids : Stays(p, Name(j)) /\ Speaking(table[p].prog) => Reported(Name(j))

CompleteInv ==
  /\ SettledAlive
  /\ TodoIsCurrent
  /\ AtMatches
  /\ FoundMatches
  /\ NotPassed
  /\ AllFound
  /\ Heard
  /\ Covered

\* The node's processes only make fewer of those that stay.
LEMMA NodeComplete ==
  ASSUME DetectorInv, CompleteInv, Processes
  PROVE  CompleteInv'
<1>1. PICK p \in Pids : \E proc : Becomes(p, proc)
  BY DEF Processes, Fork, Exec, Exit
<1>2. /\ UNCHANGED <<pod, scan, report, outcome>> /\ settled' = settled \ {p}
      /\ \E proc : table' = [table EXCEPT ![p] = proc]
  BY <1>1 DEF Becomes
<1>3. /\ settled \subseteq Pids
      /\ \A q \in settled' : q \in settled /\ table'[q] = table[q]
  BY <1>2 DEF DetectorInv, DetectorTypeOK
<1>4. parseArgs' = parseArgs /\ \A j : Name(j)' = Name(j)
  BY <1>2 DEF parseArgs, getContainerNames, Name
<1>5. \A q, name : Stays(q, name)' => Stays(q, name)
  BY <1>3 DEF Stays, InContainer
<1>6. SettledAlive'   BY <1>3 DEF CompleteInv, SettledAlive, Alive
<1>7. TodoIsCurrent'  BY <1>2 DEF CompleteInv, TodoIsCurrent
<1>8. AtMatches'      BY <1>2, <1>3 DEF CompleteInv, AtMatches
<1>9. FoundMatches'   BY <1>2, <1>3 DEF CompleteInv, FoundMatches, Matches
<1>10. NotPassed'     BY <1>2, <1>4, <1>5 DEF CompleteInv, NotPassed, FoundAlready
<1>11. AllFound'      BY <1>2, <1>4, <1>5 DEF CompleteInv, AllFound, FoundAlready
<1>12. Heard'         BY <1>2, <1>3 DEF CompleteInv, Heard
<1>13. Covered'
  <2>1. Published' = Published /\ \A name : Reported(name)' = Reported(name)
    BY <1>2 DEF Published, Reported
  <2>2. \A q, name : Stays(q, name)' => table'[q] = table[q]
    BY <1>3 DEF Stays
  <2> QED BY <1>2, <1>4, <1>5, <2>1, <2>2 DEF CompleteInv, Covered
<1> QED BY <1>6, <1>7, <1>8, <1>9, <1>10, <1>11, <1>12, <1>13 DEF CompleteInv

\* What the node looks like does not change under a step of the detector.
LEMMA DetectorAlone ==
  ASSUME UNCHANGED node
  PROVE  /\ parseArgs' = parseArgs /\ \A j : Name(j)' = Name(j)
         /\ \A p, name : Stays(p, name)' <=> Stays(p, name)
         /\ \A d : Matches(d)' <=> Matches(d)
         /\ settled' = settled /\ table' = table
         /\ SettledAlive' <=> SettledAlive
  BY DEF node, parseArgs, getContainerNames, Name, Stays, InContainer, Matches, SettledAlive, Alive

\* As long as the name asked about stays and nothing is published, what has been
\* covered is.
LEMMA StillCovered ==
  ASSUME CompleteInv, UNCHANGED <<report, outcome, node>>,
         scan'.k = scan.k, scan'.pc # "publish"
  PROVE  Covered'
<1>1. Published' = Published /\ \A name : Reported(name)' = Reported(name)
  BY DEF Published, Reported
<1> QED BY <1>1, DetectorAlone DEF CompleteInv, Covered

LEMMA FatalComplete ==
  ASSUME DetectorInv, CompleteInv, Fatal
  PROVE  CompleteInv'
<1>1. /\ UNCHANGED <<report, node>> /\ outcome' = "failed"
      /\ scan' = [Start EXCEPT !.pc = "done"]
  BY DEF Fatal
<1>2. /\ scan'.pc = "done" /\ scan'.found = <<>> /\ scan'.k = Least(parseArgs)
  BY <1>1 DEF Start
<1>3. parseArgs \subseteq Nat /\ \A j \in parseArgs : Least(parseArgs) <= j
  BY ArgsTyped, LeastIn DEF DetectorInv, DetectorTypeOK
<1>4. Covered'
  <2>1. ~Published'  BY <1>1 DEF Published
  <2>2. \A j \in parseArgs : ~(j < scan'.k)
    <3>1. Least(parseArgs) \in Nat  BY ArgsTyped, LeastIn DEF DetectorInv, DetectorTypeOK
    <3> QED BY <1>2, <1>3, <3>1
  <2> QED BY <1>1, <1>2, <2>1, <2>2, DetectorAlone DEF Covered
<1>5. SettledAlive'  BY <1>1, DetectorAlone DEF CompleteInv
<1> QED
  BY <1>2, <1>4, <1>5
  DEF CompleteInv, TodoIsCurrent, AtMatches, FoundMatches, NotPassed, AllFound, Heard, Reading

\* A batch has all the processes listed up to its last.
LEMMA BatchIsClosed ==
  ASSUME NEW last \in NextBatch, NEW p \in Ahead, p <= last
  PROVE  p \in NextBatch
<1> DEFINE upTo(r) == {q \in Ahead : q <= r}
<1>1. Ahead \subseteq Pids /\ Pids \subseteq Nat /\ IsFiniteSet(Pids) /\ last \in Ahead
  BY DetectorAssumption DEF Ahead, NextBatch
<1>2. IsFiniteSet(Ahead)  BY <1>1, FS_Subset
<1>3. upTo(last) \subseteq Ahead /\ upTo(p) \subseteq upTo(last)
  <2>1. \A q \in Ahead : q \in Nat  BY <1>1
  <2>2. p \in Nat /\ last \in Nat   BY <1>1
  <2>3. \A q \in Ahead : q <= p => q <= last  BY <2>1, <2>2
  <2> QED BY <2>3, Zenon
<1>4. IsFiniteSet(upTo(last))  BY <1>2, <1>3, FS_Subset
<1>5. IsFiniteSet(upTo(p)) /\ Cardinality(upTo(p)) <= Cardinality(upTo(last))
  BY <1>3, <1>4, FS_Subset
<1>6. Cardinality(upTo(p)) \in Nat /\ Cardinality(upTo(last)) \in Nat
  BY <1>4, <1>5, FS_CardinalityType
<1>7. Cardinality(upTo(last)) <= Batch  BY DEF NextBatch
<1>8. Cardinality(upTo(p)) <= Batch
  <2> HIDE DEF upTo
  <2> QED BY <1>5, <1>6, <1>7, DetectorAssumption
<1> QED BY <1>8 DEF NextBatch

LEMMA ReaddirComplete ==
  ASSUME DetectorInv, CompleteInv, Readdir
  PROVE  CompleteInv'
<1> USE DEF CompleteInv
<1>1. scan.pc = "list" /\ scan.todo = {} /\ UNCHANGED <<report, outcome, node>> /\ scan \in Scan
  BY DEF Readdir, At, Listed, Batched, Continue, TodoIsCurrent, DetectorInv, DetectorTypeOK
<1>2. \A p \in Pids : Stays(p, Name(scan.k)) => p \in Ahead \/ FoundAlready(p)
  BY <1>1 DEF NotPassed, SettledAlive, Stays, Ahead
<1>3. CASE Ahead = {} /\ Listed
  <2>1. scan' = [scan EXCEPT !.pc = "inspect"]  BY <1>3 DEF Listed, Continue
  <2>2. /\ scan'.pc = "inspect" /\ scan'.k = scan.k /\ scan'.found = scan.found
        /\ scan'.next = scan.next /\ scan'.said = scan.said
    BY <1>1, <2>1 DEF Scan
  <2>3. AllFound'      BY <1>1, <1>2, <1>3, <2>2, DetectorAlone DEF AllFound, FoundAlready
  <2>4. FoundMatches'  BY <1>1, <2>2, DetectorAlone DEF FoundMatches
  <2>5. Heard'         BY <1>1, <2>2, DetectorAlone DEF Heard
  <2>6. Covered'       BY <1>1, <2>2, StillCovered
  <2>7. SettledAlive'  BY <1>1, DetectorAlone
  <2> QED BY <2>2, <2>3, <2>4, <2>5, <2>6, <2>7 DEF TodoIsCurrent, AtMatches, NotPassed, Reading
<1>4. ASSUME NEW last \in NextBatch, Batched(last)
      PROVE  CompleteInv'
  <2>1. scan' = [scan EXCEPT !.pc = "mounts", !.todo = NextBatch, !.cursor = last]
    BY <1>4 DEF Batched, Continue
  <2>2. /\ scan'.pc = "mounts" /\ scan'.k = scan.k /\ scan'.found = scan.found
        /\ scan'.next = scan.next /\ scan'.said = scan.said
        /\ scan'.todo = NextBatch /\ scan'.cursor = last
    BY <1>1, <2>1 DEF Scan
  <2>3. NotPassed'
    <3>1. \A p \in Ahead : p > last \/ p \in NextBatch
      <4>1. \A p \in Ahead : p \in Nat /\ last \in Nat
        BY DetectorAssumption DEF Ahead, NextBatch
      <4> QED BY <4>1, BatchIsClosed
    <3> QED BY <1>1, <1>2, <2>2, <3>1, DetectorAlone DEF NotPassed, FoundAlready
  <2>4. FoundMatches'  BY <1>1, <2>2, DetectorAlone DEF FoundMatches
  <2>5. Heard'         BY <1>1, <2>2, DetectorAlone DEF Heard
  <2>6. Covered'       BY <1>1, <2>2, StillCovered
  <2>7. SettledAlive'  BY <1>1, DetectorAlone
  <2> QED BY <2>2, <2>3, <2>4, <2>5, <2>6, <2>7 DEF TodoIsCurrent, AtMatches, AllFound, Reading
<1> QED BY <1>3, <1>4 DEF Readdir

\* Where one process is passed to the next.
LEMMA WithoutMoves ==
  ASSUME DetectorTypeOK, NEW p \in scan.todo
  PROVE  /\ Without(p).todo = scan.todo \ {p} /\ Without(p).cursor = scan.cursor
         /\ Without(p).next = scan.next
         /\ Without(p).pc = "list" => Without(p).todo = {}
  BY DEF DetectorTypeOK, Without, Scan

LEMMA GetMountInfoComplete ==
  ASSUME DetectorInv, CompleteInv, GetMountInfo
  PROVE  CompleteInv'
<1> USE DEF CompleteInv
<1>1. PICK p \in scan.todo :
        IF InContainer(table[p], Name(scan.k))
        THEN Continue([scan EXCEPT !.pc = "exe", !.at = NotRead(p)])
        ELSE Continue(Without(p))
  BY DEF GetMountInfo
<1>2. /\ scan.pc = "mounts" /\ scan \in Scan /\ DetectorTypeOK
      /\ UNCHANGED <<report, outcome, node>>
  BY <1>1 DEF GetMountInfo, At, Continue, DetectorInv, DetectorTypeOK
<1>3. \A q \in Pids : Stays(q, Name(scan.k)) =>
        q > scan.cursor \/ q \in scan.todo \/ FoundAlready(q)
  BY <1>2 DEF NotPassed
<1>4. SettledAlive'  BY <1>2, DetectorAlone
<1>5. CASE InContainer(table[p], Name(scan.k))
  <2>1. scan' = [scan EXCEPT !.pc = "exe", !.at = NotRead(p)]  BY <1>1, <1>5 DEF Continue
  <2>2. /\ scan'.pc = "exe" /\ scan'.at = NotRead(p) /\ scan'.todo = scan.todo
        /\ scan'.cursor = scan.cursor /\ scan'.k = scan.k /\ scan'.found = scan.found
        /\ scan'.next = scan.next /\ scan'.said = scan.said
    BY <1>2, <2>1 DEF Scan
  <2>3. NotPassed'      BY <1>2, <1>3, <2>2, DetectorAlone DEF NotPassed, FoundAlready
  <2>4. FoundMatches'   BY <1>2, <2>2, DetectorAlone DEF FoundMatches
  <2>5. Heard'          BY <1>2, <2>2, DetectorAlone DEF Heard
  <2>6. Covered'        BY <1>2, <2>2, StillCovered
  <2>7. TodoIsCurrent'  BY <2>2 DEF TodoIsCurrent, NotRead
  <2> QED BY <1>4, <2>2, <2>3, <2>4, <2>5, <2>6, <2>7 DEF AtMatches, AllFound
<1>6. CASE ~InContainer(table[p], Name(scan.k))
  <2>1. scan' = Without(p)  BY <1>1, <1>6 DEF Continue
  <2>2. /\ scan'.pc \in {"list", "mounts"} /\ scan'.todo = scan.todo \ {p}
        /\ scan'.pc = "list" => scan'.todo = {}
        /\ scan'.cursor = scan.cursor /\ scan'.k = scan.k /\ scan'.found = scan.found
        /\ scan'.next = scan.next /\ scan'.said = scan.said
    BY <1>2, <2>1, WithoutTyped, WithoutMoves
  <2>3. NotPassed'
    <3>1. ~Stays(p, Name(scan.k))  BY <1>6 DEF Stays
    <3> QED BY <1>2, <1>3, <2>2, <3>1, DetectorAlone DEF NotPassed, FoundAlready
  <2>4. FoundMatches'   BY <1>2, <2>2, DetectorAlone DEF FoundMatches
  <2>5. Heard'          BY <1>2, <2>2, DetectorAlone DEF Heard
  <2>6. Covered'        BY <1>2, <2>2, StillCovered
  <2>7. TodoIsCurrent'  BY <2>2 DEF TodoIsCurrent, Reading
  <2> QED BY <1>4, <2>2, <2>3, <2>4, <2>5, <2>6, <2>7 DEF AtMatches, AllFound, Reading
<1> QED BY <1>5, <1>6

\* A read that stays at its process.
LEMMA ReadComplete ==
  ASSUME DetectorInv, CompleteInv, UNCHANGED <<report, outcome, node>>,
         scan.pc \in Reading, NEW pc \in Reading, NEW d,
         scan' = [scan EXCEPT !.pc = pc, !.at = d], d.pid = scan.at.pid,
         d.pid \in settled =>
           /\ pc # "exe" => d.exe = table[d.pid].prog.exe
           /\ pc \in {"environ", "files"} => d.cmd = table[d.pid].prog.cmd
  PROVE  CompleteInv'
<1> USE DEF CompleteInv
<1>1. /\ scan'.pc = pc /\ scan'.at = d /\ scan'.todo = scan.todo
      /\ scan'.cursor = scan.cursor /\ scan'.k = scan.k /\ scan'.found = scan.found
      /\ scan'.next = scan.next /\ scan'.said = scan.said
  BY DEF DetectorInv, DetectorTypeOK, Scan
<1>2. NotPassed'      BY <1>1, DetectorAlone DEF NotPassed, FoundAlready
<1>3. FoundMatches'   BY <1>1, DetectorAlone DEF FoundMatches
<1>4. Heard'          BY <1>1, DetectorAlone DEF Heard, Reading
<1>5. Covered'        BY <1>1, StillCovered DEF Reading
<1>6. TodoIsCurrent'  BY <1>1 DEF TodoIsCurrent, Reading
<1>7. AtMatches'      BY <1>1, DetectorAlone DEF AtMatches
<1>8. SettledAlive'   BY DetectorAlone
<1> QED BY <1>1, <1>2, <1>3, <1>4, <1>5, <1>6, <1>7, <1>8 DEF AllFound, Reading

LEMMA ReadStepsComplete ==
  ASSUME DetectorInv, CompleteInv, Readlink \/ ReadCmdline \/ ReadEnviron
  PROVE  CompleteInv'
<1> USE DEF CompleteInv
<1>1. scan.pc \in Reading => scan.at \in Details  BY DEF DetectorInv, AtBacked
<1>2. CASE Readlink
  <2> DEFINE d == [scan.at EXCEPT !.exe = table[scan.at.pid].prog.exe]
  <2>1. /\ scan.pc = "exe" /\ UNCHANGED <<report, outcome, node>>
        /\ scan' = [scan EXCEPT !.pc = "cmdline", !.at = d]
    BY <1>2 DEF Readlink, At, Continue
  <2>2. d.pid = scan.at.pid /\ d.exe = table[d.pid].prog.exe
    BY <1>1, <2>1 DEF Details, Reading
  <2> HIDE DEF d
  <2> QED BY <2>1, <2>2, ReadComplete DEF Reading
<1>3. CASE ReadCmdline
  <2> DEFINE d == [scan.at EXCEPT !.cmd = table[scan.at.pid].prog.cmd]
  <2>1. /\ scan.pc = "cmdline" /\ UNCHANGED <<report, outcome, node>>
        /\ scan' = [scan EXCEPT !.pc = "environ", !.at = d]
    BY <1>3 DEF ReadCmdline, At, Continue
  <2>2. d.pid = scan.at.pid /\ d.exe = scan.at.exe /\ d.cmd = table[d.pid].prog.cmd
    BY <1>1, <2>1 DEF Details, Reading
  <2>3. d.pid \in settled => d.exe = table[d.pid].prog.exe
    BY <2>1, <2>2 DEF AtMatches, Reading
  <2> HIDE DEF d
  <2> QED BY <2>1, <2>2, <2>3, ReadComplete DEF Reading
<1>4. CASE ReadEnviron /\ ~Fatal
  <2> DEFINE d == [scan.at EXCEPT !.env = table[scan.at.pid].prog.env]
  <2>1. /\ scan.pc = "environ" /\ UNCHANGED <<report, outcome, node>>
        /\ scan' = [scan EXCEPT !.pc = "files", !.at = d]
    BY <1>4 DEF ReadEnviron, At, Continue
  <2>2. d.pid = scan.at.pid /\ d.exe = scan.at.exe /\ d.cmd = scan.at.cmd
    BY <1>1, <2>1 DEF Details, Reading
  <2>3. d.pid \in settled => d.exe = table[d.pid].prog.exe /\ d.cmd = table[d.pid].prog.cmd
    BY <2>1, <2>2 DEF AtMatches, Reading
  <2> HIDE DEF d
  <2> QED BY <2>1, <2>2, <2>3, ReadComplete DEF Reading
<1> QED BY <1>2, <1>3, <1>4, FatalComplete

LEMMA ReadFilesComplete ==
  ASSUME DetectorInv, CompleteInv, ReadFiles
  PROVE  CompleteInv'
<1> USE DEF CompleteInv
<1>1. CASE Fatal  BY <1>1, FatalComplete
<1>2. CASE ~Fatal
  <2> DEFINE p == scan.at.pid
             d == [scan.at EXCEPT !.deps = extractDependencies(table[p].prog.files)]
  <2>1. /\ scan.pc = "files" /\ scan.at \in Details /\ scan \in Scan /\ DetectorTypeOK
        /\ UNCHANGED <<report, outcome, node>>
        /\ scan' = [Without(p) EXCEPT !.found = Append(@, d)]
    BY <1>2 DEF ReadFiles, At, Continue, DetectorInv, DetectorTypeOK, AtBacked, Reading
  <2>2. d.pid = p /\ d.exe = scan.at.exe /\ d.cmd = scan.at.cmd
    BY <2>1 DEF Details
  <2>3. Matches(d)  BY <2>1, <2>2 DEF AtMatches, Matches, Reading
  <2>4. p \in scan.todo  BY <2>1 DEF TodoIsCurrent, Reading
  <2>5. scan.found \in Seq(Details)  BY <2>1 DEF Scan
  <2> HIDE DEF d, p
  <2>6. /\ scan'.pc \in {"list", "mounts"} /\ scan'.todo = scan.todo \ {p}
        /\ scan'.pc = "list" => scan'.todo = {}
        /\ scan'.cursor = scan.cursor /\ scan'.k = scan.k
        /\ scan'.found = Append(scan.found, d)
        /\ scan'.next = scan.next /\ scan'.said = scan.said
    BY <2>1, <2>4, WithoutTyped, WithoutMoves DEF Scan
  <2>7. /\ \A i \in DOMAIN scan.found : i \in DOMAIN scan'.found /\ scan'.found[i] = scan.found[i]
        /\ \A i \in DOMAIN scan'.found : i \in DOMAIN scan.found \/ scan'.found[i] = d
        /\ \E i \in DOMAIN scan'.found : scan'.found[i] = d
    <3>1. Len(scan.found) + 1 \in DOMAIN Append(scan.found, d)
          /\ Append(scan.found, d)[Len(scan.found) + 1] = d
      BY <2>5
    <3> QED BY <2>5, <2>6, <3>1
  <2>8. NotPassed'
    <3> DEFINE now(q) == \E i \in DOMAIN scan'.found : scan'.found[i].pid = q
    <3>1. now(p) /\ \A q : FoundAlready(q) => now(q)
      BY <2>2, <2>7 DEF FoundAlready
    <3>2. \A q \in Pids : Stays(q, Name(scan.k)) =>
            q > scan.cursor \/ q \in scan.todo \/ FoundAlready(q)
      BY <2>1 DEF NotPassed, Reading
    <3>3. \A q \in Pids : Stays(q, Name(scan.k)) =>
            q > scan.cursor \/ q \in scan.todo \ {p} \/ now(q)
      BY <3>1, <3>2
    <3>4. \A q \in Pids : Stays(q, Name(scan.k))' <=> Stays(q, Name(scan.k))
      BY <2>1, <2>6, DetectorAlone
    <3> QED BY <2>6, <3>3, <3>4 DEF NotPassed, FoundAlready
  <2>9. FoundMatches'
    <3>1. \A i \in DOMAIN scan'.found : Matches(scan'.found[i])
      BY <2>3, <2>7 DEF FoundMatches
    <3> QED BY <2>1, <3>1, DetectorAlone DEF FoundMatches
  <2>10. Heard'
    <3>1. scan'.next = 1  BY <2>1, <2>6 DEF Heard, Reading
    <3>2. DOMAIN scan'.found \subseteq Nat \ {0}  BY <2>5, <2>6
    <3> QED BY <2>6, <3>1, <3>2 DEF Heard, Reading
  <2>11. Covered'        BY <2>1, <2>6, StillCovered
  <2>12. TodoIsCurrent'  BY <2>6 DEF TodoIsCurrent, Reading
  <2>13. SettledAlive'   BY <2>1, DetectorAlone
  <2> QED BY <2>6, <2>8, <2>9, <2>10, <2>11, <2>12, <2>13 DEF AtMatches, AllFound, Reading
<1> QED BY <1>1, <1>2

\* What a process that stays speaks, the inspectors detect.
LEMMA SpeakingIsHeard ==
  ASSUME NEW d, NEW prog, Speaking(prog), d.exe = prog.exe, d.cmd = prog.cmd
  PROVE  Language(d, prog.env.net) # <<>>
<1>1. PICK i \in DOMAIN Languages : Shows(prog, Languages[i])
  BY DEF Speaking, Range
<1>2. Languages[i] \in {"java", "python", "dotnet", "javascript"}
  BY DEF Languages
<1>3. Detects(Languages[i], d, prog.env.net)
  BY <1>1, <1>2 DEF Shows, Detects, Said
<1> QED BY <1>3 DEF Language, Hits

LEMMA InspectComplete ==
  ASSUME DetectorInv, CompleteInv, Inspect
  PROVE  CompleteInv'
<1> USE DEF CompleteInv
<1>1. /\ scan.pc = "inspect" /\ scan \in Scan /\ UNCHANGED <<report, outcome, node>>
      /\ scan.found \in Seq(Details) /\ scan.said \in Seq(Range(Languages))
      /\ scan.next \in Nat
  BY DEF Inspect, At, Continue, DetectorInv, DetectorTypeOK, Scan
<1>2. SettledAlive'  BY <1>1, DetectorAlone
<1>3. CASE scan.next > Len(scan.found)
  <2>1. scan' = [scan EXCEPT !.pc = "conclude"]  BY <1>3 DEF Inspect, Continue
  <2>2. /\ scan'.pc = "conclude" /\ scan'.k = scan.k /\ scan'.found = scan.found
        /\ scan'.next = scan.next /\ scan'.said = scan.said
    BY <1>1, <2>1 DEF Scan
  <2>3. AllFound'      BY <1>1, <2>2, DetectorAlone DEF AllFound, FoundAlready
  <2>4. FoundMatches'  BY <1>1, <2>2, DetectorAlone DEF FoundMatches
  <2>5. Heard'         BY <1>1, <1>3, <2>2, DetectorAlone DEF Heard, Reading
  <2>6. Covered'       BY <1>1, <2>2, StillCovered
  <2> QED BY <1>2, <2>2, <2>3, <2>4, <2>5, <2>6 DEF TodoIsCurrent, AtMatches, NotPassed, Reading
<1>4. CASE ~(scan.next > Len(scan.found))
  <2> DEFINE d == scan.found[scan.next]
             heard == Language(d, table[d.pid].prog.env.net)
             said == scan.said \o heard
  <2>1. scan' = [scan EXCEPT !.next = scan.next + 1, !.said = said]
    BY <1>4 DEF Inspect, Continue
  <2>2. heard \in Seq(Range(Languages))  BY LanguageIs
  <2>3. /\ scan'.pc = "inspect" /\ scan'.k = scan.k /\ scan'.found = scan.found
        /\ scan'.next = scan.next + 1 /\ scan'.said = said
    <3> HIDE DEF said
    <3> QED BY <1>1, <2>1 DEF Scan
  <2>4. scan.next \in DOMAIN scan.found
    BY <1>1, <1>4 DEF Scan
  <2>5. d.pid \in settled /\ Speaking(table[d.pid].prog) => heard # <<>>
    BY <2>4, SpeakingIsHeard DEF FoundMatches, Matches
  <2>6. (scan.said # <<>> \/ heard # <<>>) => said # <<>>
    BY <1>1, <2>2
  <2>7. Heard'
    <3> HIDE DEF said, heard
    <3>1. \A i \in DOMAIN scan.found : i < scan.next + 1 => i < scan.next \/ i = scan.next
      BY <1>1
    <3>2. ASSUME NEW i \in DOMAIN scan.found, i < scan.next + 1,
                 scan.found[i].pid \in settled, Speaking(table[scan.found[i].pid].prog)
          PROVE  said # <<>>
      <4>1. CASE i < scan.next  BY <2>6, <3>2, <4>1 DEF Heard
      <4>2. CASE i = scan.next  BY <2>5, <2>6, <3>2, <4>2
      <4> QED BY <3>1, <3>2, <4>1, <4>2
    <3> QED BY <1>1, <2>3, <3>2, DetectorAlone DEF Heard, Reading
  <2>8. AllFound'      BY <1>1, <2>3, DetectorAlone DEF AllFound, FoundAlready
  <2>9. FoundMatches'  BY <1>1, <2>3, DetectorAlone DEF FoundMatches
  <2>10. Covered'      BY <1>1, <2>3, StillCovered
  <2> QED BY <1>2, <2>3, <2>7, <2>8, <2>9, <2>10 DEF TodoIsCurrent, AtMatches, NotPassed, Reading
<1> QED BY <1>3, <1>4

LEMMA ConcludeComplete ==
  ASSUME DetectorInv, CompleteInv, Conclude
  PROVE  CompleteInv'
<1> USE DEF CompleteInv
<1> DEFINE later == {k \in parseArgs : k > scan.k}
           langs == report'.langs
<1>1. /\ scan.pc = "conclude" /\ scan \in Scan /\ UNCHANGED <<outcome, node>>
      /\ scan.found \in Seq(Details)
      /\ scan' = IF later = {} THEN [Start EXCEPT !.pc = "publish"]
                 ELSE [Start EXCEPT !.k = Least(later)]
  BY DEF Conclude, At, DetectorInv, DetectorTypeOK, Scan
<1>2. parseArgs \subseteq Nat /\ scan.k \in parseArgs
  BY ArgsTyped DEF DetectorInv, DetectorTypeOK, Scan
<1>3. PICK entry :
        /\ entry.container = Name(scan.k)
        /\ langs = IF scan.said = <<>> THEN report.langs ELSE Append(report.langs, entry)
  BY DEF Conclude
<1>4. report.langs \in Seq(LangEntry)  BY DEF DetectorInv, DetectorTypeOK
<1>5. /\ scan'.pc \in {"list", "publish"} /\ scan'.todo = {} /\ scan'.found = <<>>
      /\ scan'.next = 1 /\ scan'.cursor = 0
  BY <1>1 DEF Start
<1>6. \A name : Reported(name) => \E i \in DOMAIN langs : langs[i].container = name
  <2>1. \A i \in DOMAIN report.langs : i \in DOMAIN langs /\ langs[i] = report.langs[i]
    <3> HIDE DEF langs
    <3> QED BY <1>3, <1>4
  <2> HIDE DEF langs
  <2> QED BY <2>1 DEF Reported
<1>7. scan.said # <<>> => \E i \in DOMAIN langs : langs[i].container = Name(scan.k)
  <2>1. scan.said # <<>> => /\ Len(report.langs) + 1 \in DOMAIN langs
                           /\ langs[Len(report.langs) + 1] = entry
    <3> HIDE DEF langs
    <3> QED BY <1>3, <1>4
  <2> HIDE DEF langs
  <2> QED BY <1>3, <2>1
<1>8. \A p \in Pids : Stays(p, Name(scan.k)) /\ Speaking(table[p].prog) => scan.said # <<>>
  <2>1. \A i \in DOMAIN scan.found : i < scan.next
    BY <1>1 DEF Heard, Scan
  <2> QED BY <1>1, <2>1 DEF AllFound, FoundAlready, Heard, Stays
<1>9. ASSUME NEW j \in parseArgs, j < scan'.k \/ scan'.pc = "publish" \/ Published'
      PROVE  \A p \in Pids : Stays(p, Name(j)) /\ Speaking(table[p].prog) =>
               \E i \in DOMAIN langs : langs[i].container = Name(j)
  <2> HIDE DEF langs
  <2>0. j \in Nat /\ scan.k \in Nat /\ (j > scan.k => j \in later)  BY <1>2, <1>9
  <2>1. j < scan.k \/ j = scan.k \/ Published
    <3>1. CASE later = {}
      <4>1. j \notin later  BY <3>1
      <4> HIDE DEF later
      <4> QED BY <2>0, <4>1
    <3>2. CASE later # {}
      <4>1. scan'.pc = "list" /\ scan'.k = Least(later)  BY <1>1, <3>2 DEF Start
      <4>2. later \subseteq Nat  BY <1>2
      <4>3. Least(later) \in Nat /\ \A n \in later : Least(later) <= n
        <5> HIDE DEF later
        <5> QED BY <3>2, <4>2, LeastIn
      <4>4. Published' = Published  BY <1>1 DEF Published
      <4> HIDE DEF later
      <4>5. j < Least(later) => j \notin later  BY <2>0, <4>3
      <4>6. scan'.pc # "publish"  BY <4>1
      <4> QED BY <1>9, <2>0, <4>1, <4>4, <4>5, <4>6
    <3> QED BY <3>1, <3>2
  <2>2. CASE j = scan.k  BY <1>7, <1>8, <2>2
  <2>3. CASE j < scan.k \/ Published  BY <1>6, <2>3 DEF Covered
  <2> QED BY <2>1, <2>2, <2>3
<1>10. Covered'
  BY <1>1, <1>9, DetectorAlone DEF Covered, Reported
<1>11. Heard' /\ FoundMatches'
  BY <1>5 DEF Heard, FoundMatches, Reading
<1>12. NotPassed'
  <2>1. \A p \in Pids : p > 0  BY DetectorAssumption
  <2> QED BY <1>5, <2>1 DEF NotPassed
<1>13. SettledAlive'  BY <1>1, DetectorAlone
<1> QED BY <1>5, <1>10, <1>11, <1>12, <1>13 DEF TodoIsCurrent, AtMatches, AllFound, Reading

LEMMA PublishComplete ==
  ASSUME DetectorInv, CompleteInv, Publish
  PROVE  CompleteInv'
<1> USE DEF CompleteInv
<1>1. /\ scan.pc = "publish" /\ UNCHANGED <<report, node>>
      /\ scan' = [Start EXCEPT !.pc = "done"]
  BY DEF Publish, At
<1>2. scan'.pc = "done" /\ scan'.found = <<>>  BY <1>1 DEF Start
<1>3. Covered'
  <2>1. \A name : Reported(name)' = Reported(name)  BY <1>1 DEF Reported
  <2> QED BY <1>1, <2>1, DetectorAlone DEF Covered
<1>4. SettledAlive'  BY <1>1, DetectorAlone
<1> QED
  BY <1>2, <1>3, <1>4
  DEF TodoIsCurrent, AtMatches, FoundMatches, NotPassed, AllFound, Heard, Reading

LEMMA InitComplete ==
  ASSUME DetectorInit
  PROVE  CompleteInv
<1> USE DEF DetectorInit
<1>1. /\ scan.pc = "list" /\ scan.todo = {} /\ scan.found = <<>> /\ scan.next = 1
      /\ scan.cursor = 0 /\ scan.k = Least(parseArgs)
  BY DEF Start
<1>2. NotPassed
  <2>1. \A p \in Pids : p > 0  BY DetectorAssumption
  <2> QED BY <1>1, <2>1 DEF NotPassed
<1>3. Covered
  <2>1. \A j \in parseArgs : j \in Nat /\ Least(parseArgs) \in Nat /\ Least(parseArgs) <= j
    BY ArgsTyped, LeastIn
  <2>2. \A j \in parseArgs : ~(j < scan.k)  BY <1>1, <2>1
  <2>3. ~Published  BY DEF Published
  <2> QED BY <1>1, <2>2, <2>3 DEF Covered
<1>4. SettledAlive  BY DEF SettledAlive
<1> QED
  BY <1>1, <1>2, <1>3, <1>4
  DEF CompleteInv, TodoIsCurrent, AtMatches, FoundMatches, AllFound, Heard, Reading

LEMMA NextComplete ==
  ASSUME DetectorInv, CompleteInv, [DetectorNext]_dvars
  PROVE  CompleteInv'
<1>1. CASE Processes                              BY <1>1, NodeComplete
<1>2. CASE Readdir                                BY <1>2, ReaddirComplete
<1>3. CASE GetMountInfo                           BY <1>3, GetMountInfoComplete
<1>4. CASE Readlink \/ ReadCmdline \/ ReadEnviron  BY <1>4, ReadStepsComplete
<1>5. CASE ReadFiles                              BY <1>5, ReadFilesComplete
<1>6. CASE Inspect                                BY <1>6, InspectComplete
<1>7. CASE Conclude                               BY <1>7, ConcludeComplete
<1>8. CASE Publish                                BY <1>8, PublishComplete
<1>9. CASE UNCHANGED dvars
  <2>1. UNCHANGED <<report, outcome, node>> /\ scan' = scan  BY <1>9 DEF dvars, node
  <2>2. \A name : Reported(name)' = Reported(name)  BY <2>1 DEF Reported
  <2> QED
    BY <2>1, <2>2, DetectorAlone
    DEF CompleteInv, TodoIsCurrent, AtMatches, FoundMatches, NotPassed, AllFound, Heard, Covered,
        FoundAlready, Published
<1> QED
  BY <1>1, <1>2, <1>3, <1>4, <1>5, <1>6, <1>7, <1>8, <1>9 DEF DetectorNext, Detect

\* Whatever comes and goes around it, a process that has been there all along and
\* shows a language gives its container an entry in the report, for any batch
\* size and any number of processes (process.go 188-195).
THEOREM NoneMissed == DetectorSpec => []NothingMissed
<1>1. DetectorInit => CompleteInv  BY InitComplete
<1>2. DetectorInv /\ CompleteInv /\ [DetectorNext]_dvars => CompleteInv'  BY NextComplete
<1>3. DetectorInv /\ CompleteInv => NothingMissed
  <2> SUFFICES ASSUME DetectorInv, CompleteInv, Published,
                      NEW p \in settled, NEW lang \in Range(Languages), NEW a \in Asked,
                      InContainer(table[p], a), Shows(table[p].prog, lang)
               PROVE  Reported(a)
    BY DEF NothingMissed, Reported
  <2>1. PICK j \in parseArgs : a = Name(j)  BY DEF Asked
  <2>2. p \in Pids /\ Stays(p, Name(j)) /\ Speaking(table[p].prog)
    BY <2>1 DEF DetectorInv, DetectorTypeOK, Stays, Speaking
  <2> QED BY <2>1, <2>2 DEF CompleteInv, Covered
<1> QED BY <1>1, <1>2, <1>3, DetectorInvariant, PTL DEF DetectorSpec

-----------------------------------------------------------------------------
(***************************************************************************)
(* The outcome.                                                            *)
(***************************************************************************)

\* A detector with an outcome takes no step any more.
EndsOnce == outcome # "none" => scan.pc = "done"

LEMMA StepEnds ==
  ASSUME EndsOnce, DetectorTypeOK, [DetectorNext]_dvars
  PROVE  EndsOnce'
<1>1. scan \in Scan
  BY DEF DetectorTypeOK
<1>2. CASE UNCHANGED <<scan, outcome>>
  BY <1>2 DEF EndsOnce
<1>3. ASSUME scan.pc # "done", outcome' = outcome
      PROVE  EndsOnce'
  BY <1>3 DEF EndsOnce
<1>4. ASSUME scan' = [Start EXCEPT !.pc = "done"]
      PROVE  EndsOnce'
  <2>1. scan'.pc = "done"
    BY <1>4 DEF Start
  <2> QED BY <2>1 DEF EndsOnce
<1>5. CASE Publish \/ Fatal
  BY <1>4, <1>5 DEF Publish, Fatal
<1>6. CASE Processes
  BY <1>2, <1>6 DEF Processes, Fork, Exec, Exit, Becomes
<1>7. CASE Readdir \/ GetMountInfo \/ Readlink \/ ReadCmdline \/ Inspect \/ Conclude
  BY <1>3, <1>7 DEF Readdir, GetMountInfo, Readlink, ReadCmdline, Inspect, Conclude, Continue, Listed, Batched, At
<1>8. CASE ReadEnviron
  BY <1>3, <1>5, <1>8 DEF ReadEnviron, Continue, At
<1>9. CASE ReadFiles
  BY <1>3, <1>5, <1>9 DEF ReadFiles, Continue, At
<1> QED
  BY <1>2, <1>5, <1>6, <1>7, <1>8, <1>9 DEF DetectorNext, Detect, dvars

-----------------------------------------------------------------------------
(***************************************************************************)
(* What a failure is due to.                                               *)
(***************************************************************************)

\* A scan that ends the detector was at a process of the container asked about.
LEMMA FailedAtOwn ==
  ASSUME DetectorInv, scan.pc \in {"environ", "files"},
         \/ ~Alive(scan.at.pid)
         \/ ~table[scan.at.pid].prog.open
         \/ Panics(table[scan.at.pid].prog.files)
  PROVE  \E l \in lived :
           /\ InContainer(l.proc, Name(scan.k))
           /\ \/ ~Alive(l.pid)
              \/ ~table[l.pid].prog.open
              \/ Panics(table[l.pid].prog.files)
<1>1. Backed(scan.at)
  BY DEF DetectorInv, AtBacked, Reading
<1>2. PICK l \in lived : l.pid = scan.at.pid /\ InContainer(l.proc, Name(scan.k))
  BY <1>1 DEF Backed
<1> QED BY <1>2

\* However the processes come and go, the detector gives up only for one that has
\* run in the container it is asked about (process.go 239-243).
THEOREM FailuresCorrect == DetectorSpec => FailsForCause
<1>1. ASSUME DetectorInv, [DetectorNext]_dvars, outcome' = "failed", outcome = "none", ~At("publish")
      PROVE  \E l \in lived :
               /\ InContainer(l.proc, Name(scan.k))
               /\ \/ ~Alive(l.pid)
                  \/ ~table[l.pid].prog.open
                  \/ Panics(table[l.pid].prog.files)
  <2>1. CASE UNCHANGED outcome
    BY <1>1, <2>1
  <2>2. CASE Publish
    BY <1>1, <2>2 DEF Publish
  <2>3. CASE Processes
    BY <2>1, <2>3 DEF Processes, Fork, Exec, Exit, Becomes
  <2>4. CASE Readdir \/ GetMountInfo \/ Readlink \/ ReadCmdline \/ Inspect \/ Conclude
    BY <2>1, <2>4 DEF Readdir, GetMountInfo, Readlink, ReadCmdline, Inspect, Conclude,
                      Continue, Listed, Batched
  <2>5. CASE ReadEnviron
    <3>1. CASE Alive(scan.at.pid) /\ table[scan.at.pid].prog.open
      BY <2>1, <2>5, <3>1 DEF ReadEnviron, Continue
    <3>2. CASE ~(Alive(scan.at.pid) /\ table[scan.at.pid].prog.open)
      BY <1>1, <2>5, <3>2, FailedAtOwn DEF ReadEnviron, At
    <3> QED BY <3>1, <3>2
  <2>6. CASE ReadFiles
    <3>1. CASE ~Panics(table[scan.at.pid].prog.files)
      BY <2>1, <2>6, <3>1 DEF ReadFiles, Continue
    <3>2. CASE Panics(table[scan.at.pid].prog.files)
      BY <1>1, <2>6, <3>2, FailedAtOwn DEF ReadFiles, At
    <3> QED BY <3>1, <3>2
  <2> QED BY <1>1, <2>1, <2>2, <2>3, <2>4, <2>5, <2>6 DEF DetectorNext, Detect, dvars
<1>2. DetectorInv /\ [DetectorNext]_dvars
        => [outcome' = "failed" /\ outcome = "none" /\ ~At("publish")
              => \E l \in lived :
                   /\ InContainer(l.proc, Name(scan.k))
                   /\ \/ ~Alive(l.pid)
                      \/ ~table[l.pid].prog.open
                      \/ Panics(table[l.pid].prog.files)]_dvars
  BY <1>1
<1> QED BY <1>2, DetectorInvariant, PTL DEF DetectorSpec, FailsForCause
=============================================================================
