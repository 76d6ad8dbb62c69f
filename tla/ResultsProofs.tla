---------------------------- MODULE ResultsProofs ----------------------------
(***************************************************************************)
(* Theorems about ResultsStore for any number of commands, SBCs, seconds   *)
(* and ways to make a directory of a name, commands killed or not, as long *)
(* as runs of one directory never share a second.                          *)
(***************************************************************************)
EXTENDS ResultsStore, TLAPS, WellFoundedInduction

FileOf(x) == <<DirOf(x.sbc), x.at>>

\* A command has its file for itself, and the file holds what the command has
\* written so far.
WriterInv ==
  /\ \A r, q \in Runs : r # q /\ pc[r] # "idle" /\ pc[q] # "idle" => Path(r) # Path(q)
  /\ \A r \in Runs : /\ pc[r] = "write" => file[Path(r)] = Torn
                     /\ pc[r] = "done" => file[Path(r)] = report[r]

\* What is complete was written by a command that is done; what can be read is
\* complete and lies where it belongs.
RecordInv == /\ \A x \in complete : \E r \in Runs : pc[r] = "done" /\ report[r] = x
             /\ \A p \in Paths : file[p] \in Report => file[p] \in complete /\ FileOf(file[p]) = p

\* A run the dashboard has to show is still on its list or already outdone.
Covered(x) == FileOf(x) \in todo \/ \E e \in latest : e.sbc = x.sbc /\ e.at >= x.at
DashboardInv == /\ known \subseteq complete
                /\ \A d, e \in latest : d.sbc = e.sbc => d = e
                /\ \A x \in known : Covered(x)

\* The file that was picked is there, and no older than what was complete then.
PickInv == \A p \in picked :
             file[p] # Absent /\ \A x \in expected : DirOf(x.sbc) = p[1] => x.at <= p[2]

SInv == TypeOK /\ WriterInv /\ RecordInv /\ DashboardInv /\ PickInv
------------------------------------------------------------------------------
LEMMA SecondsType == MaxSecond \in Nat /\ Seconds = 0..MaxSecond /\ \A i \in Seconds : i \in Nat
BY StoreAssumption DEF Seconds

LEMMA ReportParts == ASSUME NEW x \in Report
                     PROVE  /\ x.sbc \in Sbcs /\ x.at \in Seconds /\ DirOf(x.sbc) \in Dirs
                            /\ FileOf(x) \in Paths /\ x # Torn /\ x # Absent
BY FileAssumption DEF Report, Dirs, Paths, FileOf

LEMMA PathIsFileOf == \A r : Path(r) = FileOf(report[r])
BY DEF Path, FileOf

\* Every set of seconds that is not empty has a last one.
LEMMA LastOf ==
  ASSUME NEW S \in SUBSET Seconds, S # {}
  PROVE  \E i \in S : \A j \in S : j <= i
<1> DEFINE R == {MaxSecond - i : i \in S}
<1>1. R \subseteq Nat /\ R # {}
  <2>1. \A i \in S : MaxSecond - i \in Nat
    BY SecondsType
  <2> QED
    BY <2>1
<1>2. PICK m \in R : \A n \in R : ~ (<<n, m>> \in OpToRel(<, Nat))
  <2> HIDE DEF R
  <2> QED
    BY <1>1, NatLessThanWellFounded, WFMin
<1>3. \A n \in R : ~ (n < m)
  BY <1>1, <1>2 DEF OpToRel
<1>4. PICK i \in S : m = MaxSecond - i
  OBVIOUS
<1>5. \A j \in S : j <= i
  <2> TAKE j \in S
  <2>1. ~ (MaxSecond - j < MaxSecond - i)
    BY <1>3, <1>4
  <2> QED
    BY <2>1, SecondsType
<1> QED
  BY <1>5

\* The last file of a directory that has one is there, and none is later.
LEMMA LastSecondIs ==
  ASSUME NEW d, NEW k \in Seconds, file[<<d, k>>] # Absent
  PROVE  /\ LastSecond(d) \in Seconds /\ file[<<d, LastSecond(d)>>] # Absent
         /\ \A j \in Seconds : file[<<d, j>>] # Absent => j <= LastSecond(d)
<1> DEFINE S == {i \in Seconds : file[<<d, i>>] # Absent}
<1>1. \E i \in S : \A j \in S : j <= i
  <2>1. S \in SUBSET Seconds /\ S # {}
    OBVIOUS
  <2> QED
    BY <2>1, LastOf
<1>2. \E i \in Seconds : /\ file[<<d, i>>] # Absent
                         /\ \A j \in Seconds : file[<<d, j>>] # Absent => j <= i
  BY <1>1
<1> QED
  BY <1>2 DEF LastSecond

\* Merging a report leaves one entry per SBC, no older than any before.
LEMMA MergeKeepsNewest ==
  ASSUME NEW entries \in SUBSET Report, NEW x \in Report,
         \A d, e \in entries : d.sbc = e.sbc => d = e
  PROVE  /\ Merge(entries, x) \in SUBSET Report
         /\ \A d, e \in Merge(entries, x) : d.sbc = e.sbc => d = e
         /\ \E e \in Merge(entries, x) : e.sbc = x.sbc /\ e.at >= x.at
         /\ \A d \in entries : \E e \in Merge(entries, x) : e.sbc = d.sbc /\ e.at >= d.at
<1> DEFINE old == {e \in entries : e.sbc = x.sbc}
<1>0. \A e \in Report : e.at \in Nat
  BY SecondsType DEF Report
<1>1. CASE old = {} \/ \E e \in old : x.at > e.at
  <2>1. Merge(entries, x) = (entries \ old) \cup {x}
    BY <1>1 DEF Merge, Newer
  <2>2. \A d \in entries : \E e \in Merge(entries, x) : e.sbc = d.sbc /\ e.at >= d.at
    <3> SUFFICES ASSUME NEW d \in entries
                 PROVE  \E e \in Merge(entries, x) : e.sbc = d.sbc /\ e.at >= d.at
      OBVIOUS
    <3>1. CASE d \in old
      <4>1. x.at > d.at
        BY <1>1, <3>1
      <4> QED
        BY <2>1, <3>1, <4>1, <1>0
    <3>2. CASE d \notin old
      BY <2>1, <3>2, <1>0
    <3> QED
      BY <3>1, <3>2
  <2> QED
    BY <2>1, <2>2, <1>0
<1>2. CASE ~ (old = {} \/ \E e \in old : x.at > e.at)
  <2>1. Merge(entries, x) = entries
    BY <1>2 DEF Merge, Newer
  <2>2. PICK e \in old : e.at >= x.at
    BY <1>2, <1>0
  <2> QED
    BY <2>1, <2>2, <1>0
<1> QED
  BY <1>1, <1>2
------------------------------------------------------------------------------
LEMMA InitSInv == Init => SInv
<1> SUFFICES ASSUME Init PROVE SInv
  OBVIOUS
<1>1. TypeOK
  <2>1. report \in [Runs -> Report]
    BY StoreAssumption, SecondsType DEF Init, Report
  <2>2. 0 \in Seconds
    BY SecondsType
  <2> QED
    BY <2>1, <2>2 DEF Init, TypeOK, RunSteps, Shown
<1>2. WriterInv /\ RecordInv /\ DashboardInv /\ PickInv
  BY FileAssumption DEF Init, WriterInv, RecordInv, DashboardInv, PickInv
<1> QED
  BY <1>1, <1>2 DEF SInv

LEMMA TypeStep == ASSUME SInv, [Next]_vars PROVE TypeOK'
<1>a. TypeOK /\ DashboardInv /\ PickInv
  BY DEF SInv
<1>b. \A r \in Runs : Path(r) \in Paths /\ report[r] \in Report
  BY <1>a, PathIsFileOf, ReportParts DEF TypeOK
<1> USE DEF TypeOK
<1>1. ASSUME NEW r \in Runs, Validate(r) PROVE TypeOK'
  <2>1. PICK s \in Sbcs : report' = [report EXCEPT ![r] = [sbc |-> s, at |-> clock, run |-> r]]
    BY <1>1 DEF Validate
  <2>2. report' \in [Runs -> Report]
    BY <1>a, <2>1 DEF Report
  <2> QED
    BY <1>1, <1>a, <2>2 DEF Validate, RunSteps, dashboard, perSbc
<1>2. ASSUME NEW r \in Runs, OpenResult(r) PROVE TypeOK'
  BY <1>2, <1>a, <1>b DEF OpenResult, RunSteps, dashboard, perSbc
<1>3. ASSUME NEW r \in Runs, DumpResult(r) PROVE TypeOK'
  <2>1. PICK c \in {report[r], Torn} : file' = [file EXCEPT ![Path(r)] = c]
    BY <1>3 DEF DumpResult
  <2>2. file' \in [Paths -> Report \cup {Absent, Torn}]
    BY <1>a, <1>b, <2>1
  <2>3. pc' \in [Runs -> RunSteps] /\ complete' \in SUBSET Report
    BY <1>3, <1>a, <1>b DEF DumpResult, RunSteps
  <2> QED
    BY <1>3, <1>a, <2>2, <2>3 DEF DumpResult, dashboard, perSbc
<1>4. ASSUME NEW r \in Runs, Crash(r) PROVE TypeOK'
  BY <1>4, <1>a DEF Crash, RunSteps, dashboard, perSbc
<1>5. CASE Tick
  <2>1. clock + 1 \in Seconds
    BY <1>5, <1>a, SecondsType DEF Tick
  <2> QED
    BY <1>5, <1>a, <2>1 DEF Tick, dashboard, perSbc
<1>6. CASE StartPayload
  BY <1>6, <1>a DEF StartPayload, Present, perSbc
<1>7. ASSUME NEW p \in Paths, ReadResult(p) PROVE TypeOK'
  <2>1. latest' \in SUBSET Report
    <3>1. CASE file[p] = Torn
      BY <1>7, <1>a, <3>1 DEF ReadResult
    <3>2. CASE file[p] # Torn
      <4>1. file[p] \in Report
        BY <1>7, <1>a, <3>2 DEF ReadResult, Present
      <4> QED
        BY <1>7, <1>a, <3>2, <4>1, MergeKeepsNewest DEF ReadResult, DashboardInv
    <3> QED
      BY <3>1, <3>2
  <2> QED
    BY <1>7, <1>a, <2>1 DEF ReadResult, perSbc
<1>8. ASSUME NEW d \in Dirs, PickReport(d) PROVE TypeOK'
  <2>1. CASE \A i \in Seconds : file[<<d, i>>] = Absent
    BY <1>8, <1>a, <2>1 DEF PickReport, Shown, dashboard
  <2>2. CASE \E i \in Seconds : file[<<d, i>>] # Absent
    <3>1. <<d, LastSecond(d)>> \in Paths
      BY <2>2, LastSecondIs DEF Paths
    <3> QED
      BY <1>8, <1>a, <2>2, <3>1 DEF PickReport, dashboard
  <2> QED
    BY <2>1, <2>2
<1>9. ASSUME NEW p \in Paths, RenderReport(p) PROVE TypeOK'
  <2>1. p[1] \in Dirs
    BY DEF Paths
  <2>2. file[p] \in Report \cup {Torn}
    BY <1>9, <1>a DEF RenderReport, PickInv
  <2>3. shown' \in Shown
    BY <1>9, <2>1, <2>2 DEF RenderReport, Shown
  <2> QED
    BY <1>9, <1>a, <2>3 DEF RenderReport, dashboard
<1>10. CASE UNCHANGED vars
  BY <1>10, <1>a DEF vars, dashboard, perSbc
<1> QED
  BY <1>1, <1>2, <1>3, <1>4, <1>5, <1>6, <1>7, <1>8, <1>9, <1>10 DEF Next, Write

\* The directory and second of a command change only when it validates.
LEMMA PathFrame == ASSUME report' = report PROVE \A r : Path(r)' = Path(r)
BY DEF Path

LEMMA ValidateReport ==
  ASSUME TypeOK, NEW r \in Runs, Validate(r)
  PROVE  /\ pc[r] = "idle" /\ pc' = [pc EXCEPT ![r] = "open"]
         /\ \E s \in Sbcs : /\ Spaced => ~Clash(s)
                            /\ report'[r] = [sbc |-> s, at |-> clock, run |-> r]
         /\ \A q \in Runs : q # r => report'[q] = report[q]
BY DEF Validate, TypeOK

LEMMA WriterStep == ASSUME Spaced, SInv, [Next]_vars PROVE WriterInv'
<1>a. TypeOK /\ WriterInv
  BY DEF SInv
<1>b. \A r \in Runs : Path(r) \in Paths
  BY <1>a, PathIsFileOf, ReportParts DEF TypeOK
<1>1. ASSUME NEW r \in Runs, Validate(r) PROVE WriterInv'
  <2>1. PICK s \in Sbcs : ~Clash(s) /\ report'[r] = [sbc |-> s, at |-> clock, run |-> r]
    BY <1>1, <1>a, ValidateReport
  <2>2. \A q \in Runs : q # r => report'[q] = report[q] /\ Path(q)' = Path(q) /\ pc'[q] = pc[q]
    BY <1>1, <1>a, ValidateReport DEF Path, TypeOK
  <2>3. Path(r)' = <<DirOf(s), clock>> /\ pc'[r] = "open"
    BY <1>1, <1>a, <2>1, ValidateReport DEF Path, TypeOK
  <2>4. \A q \in Runs : pc[q] # "idle" => Path(q) # <<DirOf(s), clock>>
    BY <2>1 DEF Clash
  <2>5. file' = file
    BY <1>1 DEF Validate
  <2> QED
    BY <1>a, <2>2, <2>3, <2>4, <2>5 DEF WriterInv
<1>2. ASSUME NEW r \in Runs, OpenResult(r) PROVE WriterInv'
  <2>1. report' = report /\ file' = [file EXCEPT ![Path(r)] = Torn] /\ pc' = [pc EXCEPT ![r] = "write"]
        /\ pc[r] = "open"
    BY <1>2 DEF OpenResult
  <2>2. \A q \in Runs : q # r /\ pc[q] # "idle" => file'[Path(q)] = file[Path(q)]
    BY <1>a, <1>b, <2>1 DEF WriterInv, TypeOK
  <2>3. file'[Path(r)] = Torn
    BY <1>a, <1>b, <2>1 DEF TypeOK
  <2> QED
    BY <1>a, <2>1, <2>2, <2>3, PathFrame DEF WriterInv, TypeOK
<1>3. ASSUME NEW r \in Runs, DumpResult(r) PROVE WriterInv'
  <2>1. report' = report /\ pc' = [pc EXCEPT ![r] = "done"] /\ pc[r] = "write"
    BY <1>3 DEF DumpResult
  <2>2. ~Contended(r)
    BY <1>a, <2>1 DEF Contended, WriterInv
  <2>3. file' = [file EXCEPT ![Path(r)] = report[r]]
    BY <1>3, <2>2 DEF DumpResult
  <2>4. \A q \in Runs : q # r /\ pc[q] # "idle" => file'[Path(q)] = file[Path(q)]
    BY <1>a, <1>b, <2>1, <2>3 DEF WriterInv, TypeOK
  <2>5. file'[Path(r)] = report[r]
    BY <1>a, <1>b, <2>3 DEF TypeOK
  <2> QED
    BY <1>a, <2>1, <2>4, <2>5, PathFrame DEF WriterInv, TypeOK
<1>4. ASSUME NEW r \in Runs, Crash(r) PROVE WriterInv'
  BY <1>4, <1>a, PathFrame DEF Crash, WriterInv, TypeOK
<1>5. CASE UNCHANGED <<file, pc, report>>
  BY <1>5, <1>a, PathFrame DEF WriterInv
<1> QED
  BY <1>1, <1>2, <1>3, <1>4, <1>5
  DEF Next, Write, Tick, StartPayload, ReadResult, PickReport, RenderReport, vars

\* What is complete is on file.
LEMMA CompleteOnFile ==
  ASSUME SInv, NEW x \in complete
  PROVE  FileOf(x) \in Paths /\ file[FileOf(x)] = x /\ x \in Report
<1>1. PICK q \in Runs : pc[q] = "done" /\ report[q] = x
  BY DEF SInv, RecordInv
<1> QED
  BY <1>1, PathIsFileOf, ReportParts DEF SInv, TypeOK, WriterInv

LEMMA RecordStep == ASSUME Spaced, SInv, [Next]_vars PROVE RecordInv'
<1>a. TypeOK /\ WriterInv /\ RecordInv
  BY DEF SInv
<1>b. \A r \in Runs : Path(r) \in Paths /\ report[r] \in Report /\ Path(r) = FileOf(report[r])
  BY <1>a, PathIsFileOf, ReportParts DEF TypeOK
<1>c. Torn \notin Report
  BY FileAssumption
<1>1. ASSUME NEW r \in Runs, Validate(r) PROVE RecordInv'
  <2>1. \A q \in Runs : pc[q] = "done" => pc'[q] = "done" /\ report'[q] = report[q]
    BY <1>1, <1>a, ValidateReport DEF TypeOK
  <2>2. file' = file /\ complete' = complete
    BY <1>1 DEF Validate
  <2> QED
    BY <1>a, <2>1, <2>2 DEF RecordInv
<1>2. ASSUME NEW r \in Runs, OpenResult(r) PROVE RecordInv'
  <2>1. \A q \in Runs : pc[q] = "done" => pc'[q] = "done" /\ report'[q] = report[q]
    BY <1>2, <1>a DEF OpenResult, TypeOK
  <2>2. \A p \in Paths : file'[p] \in Report => file'[p] = file[p]
    BY <1>2, <1>a, <1>b, <1>c DEF OpenResult, TypeOK
  <2>3. complete' = complete
    BY <1>2 DEF OpenResult
  <2> QED
    BY <1>a, <2>1, <2>2, <2>3 DEF RecordInv
<1>3. ASSUME NEW r \in Runs, DumpResult(r) PROVE RecordInv'
  <2>1. report' = report /\ pc' = [pc EXCEPT ![r] = "done"] /\ complete' = complete \cup {report[r]}
    BY <1>3 DEF DumpResult
  <2>2. PICK c \in {report[r], Torn} : file' = [file EXCEPT ![Path(r)] = c]
    BY <1>3 DEF DumpResult
  <2>3. \A p \in Paths : file'[p] \in Report => file'[p] = file[p] \/ (p = Path(r) /\ file'[p] = report[r])
    BY <1>a, <1>b, <1>c, <2>2 DEF TypeOK
  <2>4. \A x \in complete' : \E q \in Runs : pc'[q] = "done" /\ report'[q] = x
    BY <1>a, <2>1 DEF RecordInv, TypeOK
  <2>5. \A p \in Paths : file'[p] \in Report => file'[p] \in complete' /\ FileOf(file'[p]) = p
    BY <1>a, <1>b, <2>1, <2>3 DEF RecordInv
  <2> QED
    BY <2>4, <2>5 DEF RecordInv
<1>4. ASSUME NEW r \in Runs, Crash(r) PROVE RecordInv'
  BY <1>4, <1>a DEF Crash, RecordInv, TypeOK
<1>5. CASE UNCHANGED <<file, pc, report, complete>>
  BY <1>5, <1>a DEF RecordInv
<1> QED
  BY <1>1, <1>2, <1>3, <1>4, <1>5
  DEF Next, Write, Tick, StartPayload, ReadResult, PickReport, RenderReport, vars

LEMMA DashboardStep == ASSUME SInv, [Next]_vars PROVE DashboardInv'
<1>a. TypeOK /\ DashboardInv
  BY DEF SInv
<1>b. \A x \in known : x \in Report /\ x \in complete
  BY <1>a DEF TypeOK, DashboardInv
<1>1. CASE UNCHANGED dashboard /\ complete \subseteq complete'
  BY <1>1, <1>a DEF DashboardInv, Covered, dashboard
<1>2. CASE StartPayload
  <2>1. todo' = Present /\ known' = complete /\ latest' = {} /\ complete' = complete
    BY <1>2 DEF StartPayload
  <2>2. \A x \in complete : FileOf(x) \in Present
    BY CompleteOnFile, ReportParts DEF Present
  <2> QED
    BY <2>1, <2>2 DEF DashboardInv, Covered
<1>3. ASSUME NEW p \in Paths, ReadResult(p) PROVE DashboardInv'
  <2>1. /\ known' = known /\ complete' = complete /\ todo' = todo \ {p}
        /\ latest' = IF file[p] = Torn THEN latest ELSE Merge(latest, file[p])
        /\ file[p] # Absent
    BY <1>3 DEF ReadResult, perSbc, Present
  <2>2. CASE file[p] = Torn
    <3>1. \A x \in known : FileOf(x) # p
      BY <1>b, <2>2, CompleteOnFile, ReportParts
    <3> QED
      BY <1>a, <2>1, <2>2, <3>1 DEF DashboardInv, Covered
  <2>3. CASE file[p] # Torn
    <3>1. file[p] \in Report /\ latest' = Merge(latest, file[p])
      BY <1>a, <2>1, <2>3 DEF TypeOK
    <3>2. /\ \A d, e \in latest' : d.sbc = e.sbc => d = e
          /\ \E e \in latest' : e.sbc = file[p].sbc /\ e.at >= file[p].at
          /\ \A d \in latest : \E e \in latest' : e.sbc = d.sbc /\ e.at >= d.at
          /\ latest' \in SUBSET Report
      BY <1>a, <3>1, MergeKeepsNewest DEF DashboardInv, TypeOK
    <3>3. ASSUME NEW x \in known PROVE Covered(x)'
      <4>1. CASE FileOf(x) = p
        <5>1. file[p] = x
          BY <1>b, <4>1, CompleteOnFile
        <5> QED
          BY <3>2, <5>1 DEF Covered
      <4>2. CASE FileOf(x) # p /\ FileOf(x) \in todo
        BY <2>1, <4>2 DEF Covered, FileOf
      <4>3. CASE \E d \in latest : d.sbc = x.sbc /\ d.at >= x.at
        <5>1. PICK d \in latest : d.sbc = x.sbc /\ d.at >= x.at
          BY <4>3
        <5>2. PICK e \in latest' : e.sbc = d.sbc /\ e.at >= d.at
          BY <3>2, <5>1
        <5>3. x.at \in Nat /\ d.at \in Nat /\ e.at \in Nat
          BY <1>a, <1>b, <3>2, <5>1, <5>2, ReportParts, SecondsType DEF TypeOK
        <5>4. e.sbc = x.sbc /\ e.at >= x.at
          BY <5>1, <5>2, <5>3
        <5> QED
          BY <5>4 DEF Covered
      <4> QED
        BY <1>a, <4>1, <4>2, <4>3 DEF DashboardInv, Covered
    <3> QED
      BY <1>a, <2>1, <3>2, <3>3 DEF DashboardInv
  <2> QED
    BY <2>2, <2>3
<1>4. \/ UNCHANGED dashboard /\ complete \subseteq complete'
      \/ StartPayload \/ \E p \in Paths : ReadResult(p)
  BY DEF Next, Write, Validate, OpenResult, DumpResult, Crash, Tick, PickReport, RenderReport,
     vars, dashboard
<1> QED
  BY <1>1, <1>2, <1>3, <1>4

LEMMA PickStep == ASSUME SInv, [Next]_vars PROVE PickInv'
<1>a. TypeOK /\ PickInv
  BY DEF SInv
<1>b. \A r \in Runs : Path(r) \in Paths /\ report[r] \in Report
  BY <1>a, PathIsFileOf, ReportParts DEF TypeOK
<1>1. CASE UNCHANGED <<picked, expected>> /\ \A p \in Paths : file[p] # Absent => file'[p] # Absent
  BY <1>1, <1>a DEF PickInv, TypeOK
<1>2. ASSUME NEW r \in Runs, OpenResult(r) \/ DumpResult(r) PROVE PickInv'
  <2>1. \A p \in Paths : file[p] # Absent => file'[p] # Absent
    <3>1. PICK c \in {report[r], Torn} : file' = [file EXCEPT ![Path(r)] = c]
      BY <1>2 DEF OpenResult, DumpResult
    <3> QED
      BY <1>a, <1>b, <3>1, FileAssumption DEF TypeOK
  <2> QED
    BY <1>1, <1>2, <2>1 DEF OpenResult, DumpResult, perSbc
<1>3. ASSUME NEW d \in Dirs, PickReport(d) PROVE PickInv'
  <2>1. CASE \A i \in Seconds : file[<<d, i>>] = Absent
    BY <1>1, <1>3, <2>1 DEF PickReport
  <2>2. CASE \E i \in Seconds : file[<<d, i>>] # Absent
    <3>1. /\ file[<<d, LastSecond(d)>>] # Absent
          /\ \A j \in Seconds : file[<<d, j>>] # Absent => j <= LastSecond(d)
      BY <2>2, LastSecondIs
    <3>2. picked' = {<<d, LastSecond(d)>>} /\ expected' = complete /\ file' = file
      BY <1>3, <2>2 DEF PickReport
    <3>3. \A x \in complete : DirOf(x.sbc) = d => x.at <= LastSecond(d)
      BY <3>1, CompleteOnFile, ReportParts DEF FileOf
    <3> QED
      BY <3>1, <3>2, <3>3 DEF PickInv
  <2> QED
    BY <2>1, <2>2
<1>4. ASSUME NEW p \in Paths, RenderReport(p) PROVE PickInv'
  BY <1>4 DEF RenderReport, PickInv
<1>5. \/ UNCHANGED <<picked, expected, file>>
      \/ \E r \in Runs : OpenResult(r) \/ DumpResult(r)
      \/ \E d \in Dirs : PickReport(d)
      \/ \E p \in Paths : RenderReport(p)
  BY DEF Next, Write, Validate, Crash, Tick, StartPayload, ReadResult, vars, perSbc
<1> QED
  BY <1>1, <1>2, <1>3, <1>4, <1>5
------------------------------------------------------------------------------
THEOREM Invariance == ASSUME Spaced PROVE Spec => []SInv
<1>1. SInv /\ [Next]_vars => SInv'
  BY TypeStep, WriterStep, RecordStep, DashboardStep, PickStep DEF SInv
<1> QED
  BY <1>1, InitSInv, PTL DEF Spec

\* cli.py, _write_result: as long as runs of one directory never share a second,
\* every run that finished stays on record, whoever is killed meanwhile.
THEOREM HistoryKept == ASSUME Spaced PROVE Spec => []HistoryPreserved
<1>1. SInv => HistoryPreserved
  BY CompleteOnFile DEF HistoryPreserved, FileOf
<1> QED
  BY <1>1, Invariance, PTL

\* tools/build_dashboard_data.py: one entry per SBC, and none older than what was
\* complete when the request came in, in whatever order the files are read.
THEOREM DashboardIsCurrent == ASSUME Spaced PROVE Spec => []DashboardCurrent
<1>1. SInv => DashboardCurrent
  BY DEF SInv, DashboardInv, Covered, DashboardCurrent
<1> QED
  BY <1>1, Invariance, PTL

\* serve.py, /report/sbc: what is shown is a finished run, and none that was
\* complete when the file was chosen is newer.
THEOREM NewestIsShown == ASSUME Spaced PROVE Spec => ReportIsNewest
<1> DEFINE Step == picked # {} /\ picked' = {} /\ shown'.status = "ok" =>
                     /\ shown'.of \in complete
                     /\ \A x \in expected : DirOf(x.sbc) = DirOf(shown'.of.sbc) => x.at <= shown'.of.at
<1>1. ASSUME SInv, [Next]_vars PROVE Step
  <2> SUFFICES ASSUME picked # {}, picked' = {}, shown'.status = "ok" PROVE Step
    OBVIOUS
  <2>1. PICK p \in Paths : RenderReport(p)
    BY <1>1 DEF Next, Write, Validate, OpenResult, DumpResult, Crash, Tick, StartPayload, ReadResult,
       PickReport, vars, perSbc
  <2>2. file[p] # Torn /\ shown'.of = file[p] /\ picked = {p}
    BY <2>1 DEF RenderReport
  <2>3. file[p] \in Report /\ \A x \in expected : DirOf(x.sbc) = p[1] => x.at <= p[2]
    BY <1>1, <2>2 DEF SInv, TypeOK, PickInv
  <2>4. file[p] \in complete /\ FileOf(file[p]) = p
    BY <1>1, <2>3 DEF SInv, RecordInv
  <2>5. p[1] = DirOf(file[p].sbc) /\ p[2] = file[p].at
    BY <2>4 DEF FileOf
  <2> QED
    BY <2>2, <2>3, <2>4, <2>5
<1>2. SInv /\ [Next]_vars => [Step]_vars
  BY <1>1
<1> QED
  BY <1>2, Invariance, PTL DEF Spec, ReportIsNewest
==============================================================================
