---------------------------- MODULE ResultsStore ----------------------------
(***************************************************************************)
(* The results directory: `validate --out` runs write                      *)
(* results/<sbc>/<timestamp>.json (cli.py, _write_result), the dashboard   *)
(* rebuilds its payload from all files on every request                    *)
(* (tools/build_dashboard_data.py), and /report/sbc renders the last file  *)
(* of one SBC (serve.py).  Writers and readers are separate processes or   *)
(* threads and share nothing but the files; a file is truncated first and  *)
(* written afterwards, and its name has a resolution of one second.        *)
(*                                                                         *)
(* A definition named X_Y is the definition X with a bug Y.                *)
(***************************************************************************)
EXTENDS Naturals, FiniteSets

CONSTANTS Runs,      \* validate commands, each validates one config once
          Sbcs,      \* SBC names as they stand in reports
          DirOf(_),  \* the name made safe for a directory: not injective
          MaxSecond, \* last second of the model (bound)
          MayCrash,  \* whether a command can be killed while it writes
          Spaced,    \* whether runs of one directory never share a second
          Absent,    \* no such file
          Torn       \* truncated or mixed text: not JSON

ASSUME StoreAssumption == /\ MaxSecond \in Nat /\ Sbcs # {}
                          /\ MayCrash \in BOOLEAN /\ Spaced \in BOOLEAN

Seconds == 0..MaxSecond
Dirs    == {DirOf(s) : s \in Sbcs}
Paths   == Dirs \X Seconds
Report  == [sbc : Sbcs, at : Seconds, run : Runs]

ASSUME FileAssumption == Absent \notin Report /\ Torn \notin Report /\ Absent # Torn

VARIABLES
  file,     \* content of every path
  clock,    \* datetime.now in seconds
  pc,       \* per run: where it is
  report,   \* per run: the record it writes
  complete, \* history: the reports that were written to the end
  todo,     \* dashboard request: paths it has listed and not read yet
  read,     \* dashboard request: paths it has read
  latest,   \* dashboard request: the value of _latest_per_sbc so far
  known,    \* history: the reports complete when the request came in
  picked,   \* /report/sbc request: the path it chose, as a set of at most one
  expected, \* history: the reports complete when it chose
  shown     \* the answer of the latest /report/sbc request

vars == <<file, clock, pc, report, complete, todo, read, latest, known, picked, expected, shown>>
dashboard == <<todo, read, latest, known>>
perSbc    == <<picked, expected, shown>>

RunSteps == {"idle", "open", "write", "done", "dead"}
Path_NoTime(r) == <<DirOf(report[r].sbc), 0>>
Path(r) == <<DirOf(report[r].sbc), report[r].at>>

\* No record yet, nothing to show, no dashboard entry.
Nothing == [status |-> "none"]
Shown   == {Nothing} \cup [status : {"unknown", "died"}, dir : Dirs]
                     \cup [status : {"ok"}, of : Report]

Init == /\ file     = [p \in Paths |-> Absent]
        /\ clock    = 0
        /\ pc       = [r \in Runs |-> "idle"]
        /\ report   = [r \in Runs |-> [sbc |-> CHOOSE s \in Sbcs : TRUE, at |-> 0, run |-> r]]
        /\ complete = {}
        /\ todo = {} /\ read = {} /\ latest = {} /\ known = {}
        /\ picked = {} /\ expected = {} /\ shown = Nothing

\* Two runs of one directory in one second: possible unless Spaced.
Clash(s) == \E r \in Runs : pc[r] # "idle" /\ Path(r) = <<DirOf(s), clock>>

\* run() has its findings and stamps the report with the second.
Validate(r) ==
  /\ pc[r] = "idle"
  /\ \E s \in Sbcs : /\ Spaced => ~Clash(s)
                     /\ report' = [report EXCEPT ![r] = [sbc |-> s, at |-> clock, run |-> r]]
  /\ pc' = [pc EXCEPT ![r] = "open"]
  /\ UNCHANGED <<file, clock, complete, dashboard, perSbc>>

\* open(path, "w"): what stood there is gone.
OpenResult(r) ==
  /\ pc[r] = "open"
  /\ file' = [file EXCEPT ![Path(r)] = Torn]
  /\ pc'   = [pc EXCEPT ![r] = "write"]
  /\ UNCHANGED <<clock, report, complete, dashboard, perSbc>>

\* Another run has the same file open, or wrote it since r opened it.
Contended(r) == \/ file[Path(r)] # Torn
                \/ \E q \in Runs \ {r} : pc[q] = "write" /\ Path(q) = Path(r)

\* json.dump and close.
DumpResult(r) ==
  /\ pc[r] = "write"
  /\ \E c \in {report[r]} \cup (IF Contended(r) THEN {Torn} ELSE {}) :
       file' = [file EXCEPT ![Path(r)] = c]
  /\ pc'       = [pc EXCEPT ![r] = "done"]
  /\ complete' = complete \cup {report[r]}
  /\ UNCHANGED <<clock, report, dashboard, perSbc>>

Crash(r) == /\ MayCrash /\ pc[r] \in {"open", "write"}
            /\ pc' = [pc EXCEPT ![r] = "dead"]
            /\ UNCHANGED <<file, clock, report, complete, dashboard, perSbc>>

Tick == /\ clock < MaxSecond
        /\ clock' = clock + 1
        /\ UNCHANGED <<file, pc, report, complete, dashboard, perSbc>>

Present == {p \in Paths : file[p] # Absent}

\* build_payload: every file there is by now will be listed by the glob.
StartPayload ==
  /\ todo' = Present /\ read' = {} /\ latest' = {} /\ known' = complete
  /\ UNCHANGED <<file, clock, pc, report, complete, perSbc>>

\* _latest_per_sbc replaces an entry by a strictly later one.
Newer_Any(x, y) == TRUE
Newer(x, y) == x.at > y.at

Merge(entries, x) ==
  LET old == {e \in entries : e.sbc = x.sbc}
  IN  IF old = {} \/ \E e \in old : Newer(x, e) THEN (entries \ old) \cup {x} ELSE entries

\* _load_runs reads one more file, in any order; one that does not parse is
\* skipped.  A file that appeared after the request came in may be listed too.
ReadResult(p) ==
  /\ todo # {} /\ p \in Present \ read
  /\ read'   = read \cup {p}
  /\ todo'   = todo \ {p}
  /\ latest' = IF file[p] = Torn THEN latest ELSE Merge(latest, file[p])
  /\ UNCHANGED <<file, clock, pc, report, complete, known, perSbc>>

\* /report/sbc?name=d: the last file by name ...
LastSecond_First(d) == CHOOSE i \in Seconds : /\ file[<<d, i>>] # Absent
                                              /\ \A j \in Seconds : file[<<d, j>>] # Absent => i <= j
LastSecond(d) == CHOOSE i \in Seconds : /\ file[<<d, i>>] # Absent
                                        /\ \A j \in Seconds : file[<<d, j>>] # Absent => j <= i

PickReport(d) ==
  /\ picked = {}
  /\ IF \A i \in Seconds : file[<<d, i>>] = Absent
     THEN /\ shown' = [status |-> "unknown", dir |-> d]
          /\ UNCHANGED <<picked, expected>>
     ELSE /\ picked' = {<<d, LastSecond(d)>>} /\ expected' = complete
          /\ UNCHANGED shown
  /\ UNCHANGED <<file, clock, pc, report, complete, dashboard>>

\* ... whose text is parsed unguarded.
RenderReport(p) ==
  /\ picked = {p}
  /\ picked' = {} /\ expected' = {}
  /\ shown'  = IF file[p] = Torn THEN [status |-> "died", dir |-> p[1]]
                                 ELSE [status |-> "ok", of |-> file[p]]
  /\ UNCHANGED <<file, clock, pc, report, complete, dashboard>>

Write(r) == Validate(r) \/ OpenResult(r) \/ DumpResult(r) \/ Crash(r)

Next == \/ \E r \in Runs : Write(r)
        \/ Tick
        \/ StartPayload \/ \E p \in Paths : ReadResult(p)
        \/ \E d \in Dirs : PickReport(d)
        \/ \E p \in Paths : RenderReport(p)

Spec == Init /\ [][Next]_vars
------------------------------------------------------------------------------
TypeOK == /\ file \in [Paths -> Report \cup {Absent, Torn}]
          /\ clock \in Seconds
          /\ pc \in [Runs -> RunSteps]
          /\ report \in [Runs -> Report]
          /\ complete \in SUBSET Report
          /\ todo \in SUBSET Paths /\ read \in SUBSET Paths
          /\ latest \in SUBSET Report /\ known \in SUBSET Report
          /\ picked \in SUBSET Paths /\ expected \in SUBSET Report
          /\ shown \in Shown

\* Every run that finished stays on record ("Write one run as
\* results/<sbc>/<timestamp>.json (history-preserving)").
HistoryPreserved == \A x \in complete : file[<<DirOf(x.sbc), x.at>>] = x

\* The dashboard has one entry per SBC, and it is no older than any run of that
\* SBC that was complete when the request came in, though the files are read
\* one by one while other runs write ("takes the LATEST run per SBC").
DashboardCurrent ==
  todo = {} => /\ \A x \in known : \E e \in latest : e.sbc = x.sbc /\ e.at >= x.at
               /\ \A d, e \in latest : d.sbc = e.sbc => d = e

\* The per-SBC report is that of a finished run, and no run of its directory
\* that was complete when the file was chosen is newer: an older run is never
\* shown as the latest.
ReportIsNewest ==
  [][picked # {} /\ picked' = {} /\ shown'.status = "ok" =>
       /\ shown'.of \in complete
       /\ \A x \in expected : DirOf(x.sbc) = DirOf(shown'.of.sbc) => x.at <= shown'.of.at]_vars
==============================================================================
