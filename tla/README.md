# SBC Validator: verification project

SBC Validator reads the configuration of a session border controller (six export
formats of five vendors), judges it against a signed bundle of Microsoft Teams
Direct Routing rules, scores the findings, predicts whether a call would go
through, and gates a pipeline with its exit code. Around that core stand a local
console, a public scan server and a directory of results. This directory holds
TLA+ models of it, the TLC configurations that check them, and proofs checked by
TLAPS. Paths such as `cli.py` are relative to `src/sbc_validator/`.

* [1. The system](#1-the-system) - inventory
* [2. Modules](#2-modules) - what models what
* [3. Checks](#3-checks) - runs, bounds, fairness
* [4. Where code and text disagree](#4-where-code-and-text-disagree)
* [5. Proofs](#5-proofs)
* [6. What is not modelled](#6-what-is-not-modelled)
* [7. Plan](#7-plan)

Running a check: `tlc -config RuleConcurrent.cfg MCRuleClient.tla`. Checking the
proofs: `tlapm RuleClientProofs.tla`. `PROJECT.json` lists the runs, the lines
each definition translates, the hazards, and for every checked property a seeded
bug (a definition named `X_Y`: the definition `X` with the bug `Y`) that TLC finds
with it.

## 1. The system

| Component | State | Operations | Talks to | What makes it correct |
|---|---|---|---|---|
| Rule client (`rules/client.py`), `tools/fetch_ruleset.py` | one cache file `<id>.json` shared by all processes of the user | read floor, fetch from file or server, verify, cache, fall back | every command starts with it | only signed bundles, never below the floor or the pins; a refusal is final |
| Normalized model (`models.py`) | records with tristates: `None` is "the source did not carry it" | selectors | written by parsers, read by validators | `None` is never judged |
| Vendor parsers (`parsers/`) | none | text to `NormalizedConfig` | `detect_and_parse` | every line the format has arrives, no missing line becomes a setting |
| Validators (`validators/`) | none | configuration and rules to findings | cert inspection | severities and ids are consistent with the two consumers below |
| Risk (`report/risk.py`) | none | findings to score and verdict | CLI, dashboard, gate | monotone; clean configurations pass |
| Call simulation (`call_sim.py`) | none | findings to four stages and an outcome | CLI, walk, console | agrees with the verdict |
| `validate`, `walk` (`cli.py`, `walk.py`) | one run | parse, validate, score, predict, gate, write report | all of the above | exit code, prediction and findings agree; repairing a fault helps |
| Results directory (`cli.py`, `tools/build_dashboard_data.py`, `serve.py`) | `results/<sbc>/<timestamp>.json` | write report; list and merge; serve one | processes that share only files | history kept, dashboard current |
| Local console (`serve.py`) | `sys.stdout`, demo cache | `/walk`, `/report/sbc`, `/demo.json`, ... on parallel threads | pipeline, results | answers belong to their request |
| Scan server (`scan_server.py`) | a deque per client address, one cached handshake, a log | admit or refuse a scan; screen, grade and log it; count the log; reference handshake | probe | the limit holds; no stale answer; the statistics count what was logged; every scan ends |
| Certificate inspection (`cert_inspect.py`) | two walks over one file of certificates | is the chain complete; does it verify, to which root | validators | only a signed path is an anchor, wherever its certificates stand in the file; the walks end |
| HA drift (`validators/ha_drift.py`), `diff` | none | two configurations to drift, exit code | CLI | no drift means that the standby's calls go through when the active node's do |
| Probe (`probe.py`) | none | handshake to grade | CLI, scan server | agrees with the validators about the same leaf |
| Fleet (`fleet.py`), executive and compliance reports (`report/`) | none | findings of many files to readiness, shared risk, control families | CLI, results | ready means that calls connect; a shared fault is everybody's; no outage is left out |
| Packet analysis (`sip_trace.py`), explainer (`explainer.py`) | none kept between calls | capture to a diagnosis per call; gate on what the model says | CLI | what is said of a call is so, whatever the tap missed; only what has a cause is shown |

The hard behaviours, in the order in which they were modelled:

* **processes and crashes over one file** (rule cache, results): `write_text`
  truncates before it writes, the floor is read long before the cache is written,
  there are no locks;
* **threads over one object** (rate limit, reference cache, `sys.stdout`):
  `ThreadingHTTPServer` runs a thread per request, the objects have no lock;
* **tables written apart that must agree**: severities in ten validator modules,
  hard stops and warnings in `call_sim.py`, thresholds in `risk.py`;
* **the same fact judged in two places**: leaf and trust by validators and probe,
  readiness by fleet and executive report, checks by prefix in four tables;
* **captures that miss messages**, calls that are challenged, cancelled, changed;
* **tristates over six formats**: what is missing must stay unknown through
  parser, validators and score;
* **sequences of edits**: early returns hide later checks, so a repair can uncover
  something worse.

`PROJECT.json` lists 40 places where one of these bites, each at its line.

## 2. Modules

```
RuleTrust  <= RuleClient  <- MCRuleClient      (<= : implemented by)
                          <- RuleClientProofs
RateLimiter <- ScanServer <- MCScanServer
            <- ScanServerProofs
MsReference <- MCMsReference, MsReferenceProofs
WalkCapture <- MCWalkCapture, WalkCaptureProofs
ResultsStore <- MCResultsStore, ResultsProofs
NormalizedModel <- Validators, Parsers
Validators, Risk, CallSim <- ValidationPipeline <- MCValidationPipeline
                                                <- PipelineProofs
ValidationPipeline, Parsers <- VendorPipeline <- MCVendorPipeline
VendorPipeline, PipelineProofs <- ParserProofs
Validators <- HaDrift, Probe, Fleet
ValidationPipeline, HaDrift, Probe, Fleet, ChainWalk, CallTrace <- Commands
MCValidationPipeline, Commands <- MCCommands
Commands, PipelineProofs <- CommandsProofs
```

**RuleClient.** The processes of one machine over one cache file. A fetch is cut
where another process can come in between: `ReadFloor` (the cached version,
unverified, and the pins), `ReadLocal`/`ReadRemote`, `ReadCache`, `OpenForWrite`
(the truncation), `WriteText`, then `UseAnswer` (which for `fetch_ruleset` writes
the file a second time), `Exit`, and `Crash` anywhere. A bundle is a version
(dates in the code, compared as text; 0 for none) and whether its Ed25519
signature verifies. What a remote server answers is free: any bundle, a refusal or
a failure. Two writes that overlap can leave `Garbage` (the tail of the longer
text). `floor`, `bundle`, `refused` are locals of `fetch`; `vetted` (bundles
accepted so far) and `raced` (somebody wrote since I read the floor) are history.

**RuleTrust** is the abstract channel: a store and an answer per process, both
always among the vetted bundles, and an answer that is never exchanged. It knows
nothing of files, floors, fallbacks or crashes. RuleClient implements it with
`store` = the cache file where it can be served.

**RateLimiter.** `_rate_ok` for one client address and any number of handler
threads, every deque operation a step: emptiness test, `q[0]`, `popleft`, `len`,
`append`. Both reads of an empty deque are the `IndexError` they are. `Tick` moves
the clock; a thread takes its `now` once, as in the code. The queues of different
addresses never meet, so one address stands for all. `admitted`, `overlapped`,
`unfair` and `lost` are history.

**ScanServer.** `do_POST` as a whole: RateLimiter in front, and behind it what the
handler does while others run. `Arrive`, `Limit` and `LetThrough` are the limiter;
`Receive` is the body's arrival, which the client may put off for ever; `Reject`
answers a request without grading it; `Grade` logs a scan whose name resolves to
public addresses only (`Screened`); `GradeUnlogged` is the same with a full disk,
where nothing of the line, a piece of it or all but its newline may be left in the
file; `Restart` kills the process with any of its handlers inside the write and
starts it with an empty limiter. The log is what `/stats` tells apart: whether it
ends with a newline, inside a record or in a whole record without its newline,
which is counted until the next one is glued to it, and how many of its scans are
in no line that parses.

**MsReference.** `_ms_reference`: the entry is read key by key (`at`, `ttl`,
`ref`) while another thread's `update` replaces all three at once; the handshake
between ends in any of its outcomes and is stamped with the time of the question.

**WalkCapture.** `/walk`: `redirect_stdout` as save, swap, printed lines (or an
exception) and restore on the one `sys.stdout` of the process.

**ResultsStore.** Writers (`_write_result`: name, `open("w")`, `json.dump`), the
dashboard's scan of all files one by one in any order, and `/report/sbc` as a
choice of the last file and a later read. `DirOf` is the file-name sanitising of
`cli.py`, which is not injective; the clock has a resolution of one second.

**NormalizedModel, Validators, Risk, CallSim.** Pure operators. `NormalizedConfig`
is `models.py` field by field; `AllFindings(c)` is the union of the seven
validators, each check with its condition, id and severity, under the rules of the
shipped bundle; `Verdict` and `RiskScore` are `risk.py`; `Outcome` is
`call_sim.py` with its eight tables of ids. Strings are members of small sets that
keep apart what the validators keep apart: an FQDN is absent, a name, malformed or
an IP; a network is one of five CIDRs that differ in scope, width and containment.

**ValidationPipeline.** One file, validated again and again. `ParseConfig`,
`Validate`, `Score`, `Simulate`, `Gate` are the statements of `cli.run` (and of
`walk.run`); `Repair`, `Complete` and `Break` edit the file between two runs.
`Files`, `Parse` and the edits are parameters, so the proofs hold for every set of
files and every parser that returns a normalized configuration. `prev` and
`change` are history.

**Commands.** The other commands that judge a file, each in the place of a
`validate` run, with the answer in `out`: `RunDiff` (HaDrift; two files and three
exit gates), `RunProbe` (Probe; any handshake a listener of that configuration can
end with), `ValidateEach` and `SumUp` (Fleet; the rows, then what they say
together), the certificate file (ChainWalk; one step per certificate, then
`JudgeChain` hands the outcome to the validators' `Chain`), and `TapAndExplain`
for files that are captures. Everything is judged by the same `AllFindings`, so the
properties can ask whether two commands agree about one configuration; `ours` and
`theirs` are history for them.

**HaDrift, Probe, Fleet.** Pure operators over configurations and findings:
`HaDiff` with its `bool(None)`; `Grade` over `LeafIssues`, with the part of a day
`RemainingDays` loses; the prefix tables `CaPrefixes`, `ExecPrefixes` and
`Families`, kept as strings since what they match is the point.

**ChainWalk.** A certificate is its two names, its key and the key that signed it.
`CompleteEnds`, `CompleteClimbs` are the loop of `_chain_complete`; `RootReached`,
`IssuerAbsent`, `NoneSigned`, `VerifyClimbs` the branches of `verify_chain`.
`Signers`, `FirstOf`, `BestIssuer` choose among siblings as the code does: the
first that signed, without going back.

**CallTrace.** The environment is the calls: `Moves` is what a call may send and
where that takes it (challenged and repeated, cancelled while it is answered,
refused, changed while up, hung up; or a keep-alive), `Send` sends it past a tap
that may lose it, `Stray` and `Media` are its RTP, `Handshaken` the TLS on port
5061. `Explain` is the tool, at any moment: `Diagnosis` is `analyze` for one call,
`Agrees` the gate of `explain_capture` for any class the model may predict. The
properties compare `told` with `dialog`, which the tool cannot see.

**Parsers, VendorPipeline.** An export is a record of what its text says, with "?"
for a line it does not have. `ParseExport` is the six parsers: what each makes of
each setting it has and of each line that is missing. `NamedOnly` is the coder table
of two of them: a coder it does not name is dropped, and a list that is left empty
becomes "not carried". VendorPipeline puts them in
front of the pipeline. `DueOf` reads the *export*, not the parsed configuration:
which checks are due given what it shows and which lines its format has at all
(`Carries`). That is the independent statement the parsers are held to.

## 3. Checks

Every run is exhaustive within its bounds.

| Run (module, cfg) | Instance | Properties | What it shows |
|---|---|---|---|
| `rule_concurrent` (MCRuleClient, RuleConcurrent.cfg) | 2 processes, versions 0..3, 2 commands each, crashes; 228,137 states | `AnswersAreCurrent`, `RefusalIsFinal`, `RollbackOnlyByRace`, `OnlyVettedIsCached`, `ImplementsTrust` | Two processes that crash anywhere share one cache file that starts in any parseable state: answers and cache contents are vetted, refusals final, rollbacks need a race, and RuleTrust is implemented. |
| `rule_race` (violation) (MCRuleClient, RuleRace.cfg) | 2 processes, 1 command each, no crash | `NoRollback` | Two commands at once: a bundle older than one already accepted is accepted. |
| `scan_server` (MCScanServer, ScanServer.cfg) | 2 threads, 2 scans per window of 1, clock 0..2, 2 faults; 675,738 states | `QueueBound`, `WindowLimit`, `LoneRequestsDecided`, `StatsCount`, `EveryScanEnds` | Two handler threads of one client through the limiter, the screening and the log, with a full disk and restarts: the check-then-append gap lets in at most one scan per further thread, without overlap the limit is exact, the statistics lose at most two records per failed write, and every request whose body has arrived ends. |
| `reference_concurrent` (MCMsReference, ReferenceConcurrent.cfg) | 2 threads, TTLs 3 and 1, clock 0..5; 327,048 states | `FreshAnswer` | Two threads read the entry key by key while they replace it: an answer out of the cache is never older than its own TTL. |
| `walk_concurrent` (MCWalkCapture, WalkConcurrent.cfg) | 2 threads, 2 lines, 2 walks each; 2,362,728 states | `LoneReplyExact`, `ConsoleRestored` | Requests may overlap: one that overlapped with none is still answered exactly, and without any overlap the console works again after every walk. |
| `walk_overlap` (violation) (MCWalkCapture, WalkOverlap.cfg) | 2 threads, 2 lines, 1 walk each | `ReplyExact` | Two overlapping requests get each other's lines. |
| `results_spaced` (MCResultsStore, ResultsSpaced.cfg) | 3 runs, 2 SBCs, 3 seconds, crashes; 2,602,825 states | `HistoryPreserved`, `DashboardCurrent`, `ReportIsNewest` | Runs that never share a directory and a second, with crashes: no finished run is lost, the dashboard is current, the per-SBC report is the newest. |
| `results_clash` (violation) (MCResultsStore, ResultsClash.cfg) | 2 runs, 2 SBCs of one directory, 2 seconds | `HistoryPreserved` | Two runs of one directory in one second overwrite each other. |
| `commands` (MCCommands, Commands.cfg) | 4 kinds of source, up to 2 settings replaced, all edits; pairs of files; 1,885 access lists; 10,830 certificate files; 2 calls with 4 messages; 837,925 states | of `validate`: `TypeOK`, `DeadCallGated`, `StableIsUngated`, `OnlyCarriedIsJudged`, `VerdictMonotone`, `RepairNeverWorsens`, `ShadowedIsDead`, `ReportShowsOutage`; of the other commands: `NoDriftNoOutage`, `LeafFaultsAgree`, `PassingEdgeLives`, `ReadyConnects`, `SharedFate`, `AnchorProven`, `RootRecognized`, `WalkProgress`, `ConnectedIsAnswered`, `FailureIsReal`, `MediaIsJudged`, `ShownHasCause` | What the commands say of one configuration agrees, verdict, predicted call and the history of runs agree, and what explain says of a call is so. |
| `verdict_anchor` (violation) (MCValidationPipeline, VerdictAnchor.cfg) | the sources of commands | `AnchoredIsTrusted` | With a separately imported trust store, a chain to any root is reported as anchored to a trusted one. |
| `vendor_exports` (MCVendorPipeline, VendorExports.cfg) | 6 formats, up to 2 settings spoiled or missing, lines corrected, spoilt or filled in; 69,928 states | `RepairNeverWorsens`, `ShownFaultsAreFound`, `CleanPasses`, `UnknownJudgesNothing` | Sound exports of all six formats with up to two settings spoiled or missing, and with everything missing that may be: what is shown wrong is found, what is merely missing is not judged, a clean export passes, and no repair of a line makes the verdict worse. |
| `vendor_absent` (violation) (MCVendorPipeline, VendorAbsent.cfg) | as vendor_exports, completions of the ini only | `UnknownJudgesNothing` | Lines missing from an AudioCodes ini are reported as settings switched off. |

What the properties say, beyond their definitions:

* *Rule client.* `AnswersAreCurrent`: whatever the source and whoever writes
  meanwhile, what fetch caches or returns is signed and not below the floor it
  read nor the pins. `RefusalIsFinal`: no silent fallback after tampering.
  `RollbackOnlyByRace`: the check against older bundles is complete but for the
  gap between reading the floor and writing. `OnlyVettedIsCached`: also after a
  crash and also through `fetch_ruleset`'s second write. `ImplementsTrust`: the
  refinement.
* *Scan server.* `QueueBound`: the check-then-append gap costs at most one scan per
  further thread. `WindowLimit`, `LoneRequestsDecided`: for as long as the requests
  of one client have not overlapped, the limit is exact in every window, nobody is
  refused early and nobody dies. They are stated for that case since each is false
  once requests overlap, which is the honest reading of a limit without a lock.
  `StatsCount`: a failed write costs the statistics its own record and at most the
  one that is glued to what is left of it, whoever else was writing and however
  often the process was killed; the one record that fails and is counted all the
  same is a last line that lacks only its newline. `EveryScanEnds`: a handler that
  prunes the deque comes to an end although others refill it, and every request
  whose body has arrived is then answered, while other handlers may wait for their
  bodies for ever.
* *Reference.* `FreshAnswer`: no torn read pairs a new stamp with an old TTL so
  that a stale answer is served.
* *Walk.* `LoneReplyExact`, `ConsoleRestored`: what remains true although
  overlapping requests mix their output (section 4).
* *Results.* `HistoryPreserved`, `DashboardCurrent`, `ReportIsNewest`, the last
  two while runs are being written and after crashes left half a file.
* *Pipeline.* `DeadCallGated`: a call predicted to die never passes, except by two
  ids the validators call MEDIUM (`LenientStops`: no Teams interface; a chain that
  ends outside Microsoft's roots). `StableIsUngated`: conversely, nothing HIGH
  stands beside a STABLE call but what no call notices. `OnlyCarriedIsJudged`:
  of two runs of which the second was on a configuration that carries all the first
  one carried, and more, the second repeats the findings of the first, apart from
  those that say that something could not be seen. `VerdictMonotone`:
  more findings never rate better. `RepairNeverWorsens`: repairing settings
  never worsens the verdict unless the run had been blind (no Teams interface,
  FQDN, certificate or media realm, or an unreadable PEM), or half of a pair of
  agreeing legs is repaired first. `Repaired` says what a repair is: a setting gets
  a value no validator objects to, and one that no validator objected to stays.
* *Access lists.* `ShadowedIsDead`: against the first-match meaning of a list, over
  every kind of peer: a rule reported as shadowed can be taken out and no peer
  notices.
* *Two nodes.* `NoDriftNoOutage`: no drift, and calls go through on the active
  node: then they do on the standby, but for what is not compared and for a
  setting the active node's export does not carry, which counts as off.
* *Probe.* `LeafFaultsAgree`: probe and validators find the same in the same leaf,
  but on the one day their clocks disagree. `PassingEdgeLives`: a passing grade
  rules out that calls die in the handshake for anything the probe can see.
* *Fleet and reports.* `ReadyConnects`: ready, by either of the two tables, means
  that calls connect. `SharedFate`: no tenant on a faulty shared certificate is
  called ready, and all are at risk. `ReportShowsOutage`: a compliance report shows
  something HIGH wherever a call dies in the handshake or in the media.
* *Certificate files.* `AnchorProven`: an anchor is the end of a path of signatures
  from the leaf. `RootRecognized`: conversely a path to a published root is found
  whatever else is in the file, when the authorities on it have different names.
  `WalkProgress`: no step of either walk repeats, whatever cycles the authorities
  form.
* *Captures.* `ConnectedIsAnswered`: even with messages lost, no call is said to
  have been answered that was not. `FailureIsReal`: in a complete capture a
  rejected call never came up (unless it was challenged first) and one without an
  answer had none. `MediaIsJudged`: one-way audio is said of the call that has it.
  `ShownHasCause`: whatever class the model predicts, what the gate lets through is
  so of some call of a complete capture, in the words of the class; two explanations
  that pass without being so are excepted by name (`OnlyEncrypted`, `Unserved`).
* *Vendors.* `ShownFaultsAreFound`: no parser loses a fault its format shows,
  but for codecs its table does not name (`Legible`).
  `CleanPasses`: a clean export of any format passes however much it leaves out.
  `UnknownJudgesNothing`: filling in a line whose absence the parser keeps unknown
  removes no finding, apart from the same; it fails where a parser invents the value
  of a missing line. `RepairNeverWorsens`, for the lines of real exports.

### Bounds, and why they are enough

* **rule_\***: two processes, because every hazard here is one process between two
  steps of another; versions 0..3 with the compiled-in floor at 1 and the
  operator's pin at 2 give a bundle without a version, one below either pin, one
  on it and one above, so a rollback above the pins exists; two commands per
  process so that an answer can meet the cache of an earlier one. The cache starts
  missing or with any bundle, also an unsigned or stale one; crashes and
  overlapping writes make it empty or garbage later.
* **scan_server**: two threads, limit 2, window 1, clock 0..2 (`MaxClock`): entries
  expire, the queue fills and empties, two threads pop the same head, and the clock
  outlives a window. Two faults (`MaxFaults`): an unfinished line, or one that lacks
  only its newline, is followed by another failing write or by a restart.
* **reference_concurrent**: TTLs 3 and 1, clock to 5: a failed entry expires while
  a good one would not, and a slow handshake outlives both.
* **walk_\***: two lines per walk are enough to mix; two walks per thread let a
  later request meet what an earlier one left behind.
* **results_\***: three runs (interchangeable, hence the symmetry), two SBCs,
  seconds 0..2: a newer and an older file of one SBC and a file of another.
* **commands**: four kinds of source (full; one that carries neither trust store nor
  certificate; two that stand on the edge of REVIEW), each with every pair of its
  settings replaced by any of its values, and every edit of one setting between
  runs. Interactions of the checks are pairwise (an early return and what it hides,
  two legs, a certificate and its context); the edge cases of the score need a base
  near a threshold, which the last two are. `diff` and `fleet` see a sound file
  beside every file with one fault, two values of one setting, and files with two
  faults beside their repairs. Access lists have up to three rules, so that two
  rules can hide a third, over planes, actions and networks that overlap.
  Certificate files have one leaf and any sequence of up to four of nine other
  certificates: a cross-signed and a rekeyed authority, a forged root, a cycle. Two
  calls send at most four messages together (`MaxSent`), enough for a challenge
  that is repeated and answered, an answer that crosses a CANCEL, and a re-INVITE
  that is refused; the tap loses at most one (`MaxLost`); a flow is two packets
  (`MinRtp`), so that one packet is none.
* **vendor_exports**: likewise every pair of settings of every format, and one
  export per format without any line that may be missing; a line is corrected,
  spoilt or filled in between two runs.

Deadlock checking is off where the system really stops (all commands done, bounded
clock or walks); the scan server and the reference cache are checked for
deadlock.

### Fairness

Only ScanServer has a liveness property. `ServerSpec` asks weak fairness of each
thread's `Serve`, its steps through the limiter and from the complete body to the
answer: the interpreter keeps running every handler thread, the handshake it waits
for has a timeout, and an answer fits the socket's buffer. The socket itself has no
timeout (`BaseHTTPRequestHandler.timeout` is `None`), so `Receive`, the step on
which `rfile.read` returns (`scan_server.py:205`), is the client's and is not fair:
a client that announces a body and never sends it holds its handler for ever, and
the property promises nothing to it. Clients need not send requests, the clock need
not advance, nothing need fail or be restarted. The walks along a certificate file end by
`WalkProgress`, which needs no fairness. The other components promise no progress
that is not a plain sequential program's, so none is assumed for them.

## 4. Where code and text disagree

Five runs are expected to end in a counterexample.

* **rule_race** (`rules/client.py:190`): `_reject_rollback` says a fetched bundle
  must be at least as new as the highest version already trusted. Two commands at
  once: both read the same floor, the one with the newer bundle finishes first,
  the older one is accepted and overwrites it.
* **walk_overlap** (`serve.py:68`): `/walk` "returns the actual staged output".
  Two requests at once get each other's lines, since `redirect_stdout` replaces a
  variable of the process.
* **results_clash** (`cli.py:170`): "history-preserving". Two runs in one second
  of one SBC, or of two whose names differ only in `/`, space and `_`, overwrite
  each other.
* **verdict_anchor** (`validators/ca_compliance.py:146`): "anchors to one of the
  required Microsoft roots". For a source whose trust store is imported separately
  `required_roots` is emptied to skip one check and then passed to the chain
  check, which accepts any root.
* **vendor_absent** (`parsers/audiocodes.py:85` and four more lines): `None` means
  "judge nothing", and this "is enforced in the types". The AudioCodes ini parser
  reads five booleans with `fallback=False`, so a missing line is a setting that
  is off.

Seen while modelling, without a run: a call that is challenged (407) and then
answered is reported as rejected, since `analyze` takes the first final response
(`FailureIsReal` excepts it); one-way media is not judged in a capture of several
calls (`MediaIsJudged`); the gate of the explainer asks for a domain of the whole
capture, not of the call; with two siblings that both signed, the order in the
file decides which root a chain is said to reach (`RootRecognized`); a
certificate that a CUBE or Ribbon export only names carries no EKUs and is judged
HIGH for it; two parsers (`audiocodes_ini.py:223-225`, `oracle.py:112-116`) drop the
coders outside their tables, so that a leg that offers only iLBC is "not carried"
(lines 300 and 165, whose comments say that this means an export without the list)
and its missing overlap is not reported (`ShownFaultsAreFound` excepts it), while one
that offers AMR-WB and OPUS is reported as sharing nothing with Teams; the
gate of the explainer confirms "TLS handshake rejected" on a capture that is merely
encrypted, and unanswered OPTIONS where an INVITE was not answered or was refused
with 503 (`ShownHasCause` excepts both); the scan server reads a body without a
timeout (`scan_server.py:205`); a crash inside the cache's `write_text` loses the
version the rollback check of the rule client relies on (`client.py:196`);
`perimeta.py:80` promises mandated before preferred before listen, and between the
last two the first line wins.

## 5. Proofs

`tlapm` checks every obligation; nothing is assumed beyond the named `ASSUME`s of
the modules, which TLC evaluates in every run.

**RuleClientProofs** - for any number of processes, versions, commands, pins, with
or without crashes. The properties are not inductive: `AnswersAreCurrent` needs to
know that a process between two steps carries a vetted bundle, and
`RollbackOnlyByRace` what the cache can hold given that nobody wrote since. `IInv`
adds `FloorInv` (no floor below the pins), `vetted` within `Trusted`, `CarryInv`
(a process that carries a bundle carries a vetted one at or above its floor) and
`RaceInv` (as long as nobody wrote since p read its floor, what the file holds is
no newer than that floor or than p's bundle, and a file p truncated stays empty).
One lemma per conjunct, one step per action. From `IInv`: `TypeCorrect`,
`AnswersCurrent`, `RefusalsFinal`, `RollbackNeedsRace`, `CachedVetted` (an action
property), and `Refinement`: initial states map to initial states of RuleTrust,
every step to a step or a stutter.

**ScanServerProofs** - for any number of threads, limit, window, clock and faults.
`TypeCorrect`, and `QueueBounded` by counting the threads between check and
append: a thread can pass the check only when the queue is short, and at most all
other threads are between check and append then. `WindowLimit` and
`LoneRequestsDecided` speak of the history of admitted scans, the code of a deque
that loses its head: the inductive `LimiterInv` adds `ClockInv` (nobody's clock is
ahead) and `LoneInv`: without overlap at most one thread is inside, the history is
ordered, the deque is its end, and what is gone from it is older than the window
of whoever looks. `WindowInDeque` then counts a full window inside the deque
(`WindowsLimited`), and `RefusalIsFair` finds the limit's worth of scans behind
every refusal (`LoneDecided`). Each is stated of the whole server: a step of it is
a step of the limiter, a restart, or leaves the limiter alone
(`LimiterOrRestart`), and a restart empties history and deque together.
`StatsCounted`: `StatsInv` adds what the next record would spoil (`Glued`): the
unfinished text at the end of the log, and the record in it when it lacks only its
newline. `LoseKeepsStats` goes through what a failed write may leave behind.

**MsReferenceProofs** - for any number of threads and TTLs: `AnswersFresh`. `IInv`
adds `EntryInv` (an entry is stamped no later than it was born, with no longer a
TTL than its outcome allows) and `ReaderInv` (the stamp a reader holds is no
younger than the handshake behind the present entry, and once it passed the check
any later entry is fresh enough too).

**PipelineProofs** - for every configuration, every set of files, parser and edit.
`AllCalibrated`: every finding of every validator has a severity its id is
allowed, a table of ids and severities derived from the validators, one lemma per
validator; from it `DeadCallsAreGated` and `StableCallsAreUngated`, since a hard
stop comes from an id and a verdict from a severity. `MoreIsNeverBetter`: the
verdict is monotone over all finite sets of findings; `VerdictsAreMonotone` needs
every set of findings to be finite, shown validator by validator. `RunsTyped` is
the inductive invariant: types, what each phase has computed from the
configuration, and the same of the previous run; `TypeCorrect` follows, with the
risk in 0..100 whatever the number of findings. `EditsAreHistory` adds what an
edit knows of the run before it, for the theorems that compare two runs.

`MendingNeverWorsens`: if d is c with any number of settings repaired (`Repaired` in
ValidationPipeline) and the run on c was not blind, d is rated no worse. One lemma
per validator (`SyntaxMended` ... `AccessMended`): the findings on d are findings on
c, up to those for information (`InfoIsFree`), with two exceptions. A leg that had
offered Teams nothing may get codecs the carrier lacks, and an address that was
wrong or missing may become the second family of those advertised; each brings one
MEDIUM finding that c did not have, and takes a grave one away (`Eased`), which
lowers the score and keeps the worst finding (`ExchangeIsFree`).

**ParserProofs** - for every export of the six formats, with any lines missing.
`ParsersReturnConfigurations` discharges the pipeline's assumption on `Parse`. One
lemma per format says what its parser makes of each setting (`IniParts` ...
`PerimetaParts`); everything after them speaks of `DetectAndParse`.
`TeamsLegIsTeams`: the leg the validators take for the one to Teams is the
export's. `LegReported`, `TlsReported`, `LeafReported`, `RestReported` say which
finding each wrong value gives, `LegSays`, `TlsSays`, `CertSays` that the wrong
value reaches the configuration; with them `EveryShownFaultIsFound`, and
`ShownFaultsFound` of every run. `SoundExportsPass` goes the other way: the parts of
a sound export, parsed (`SoundLegParsed`, `SoundContextParsed`, `GoodCerts`,
`SoundRealms` ...), give no finding but the few notes on what cannot be seen, at
most 16 points (`LittlePasses`), and none of them stops a call; hence
`CleanFilesPass`.

**CommandsProofs** - for every set of files, every parser, edit, handshake, chain
file of any length, access list of any length, and any number of calls and messages.

* `ValidateUndisturbed`, `CommandsImplement`: the command line implements the
  validate pipeline, the walks and the captures, step by step (the other commands
  leave their variables alone), so what is proved of those holds of it.
* *Certificate files.* `ChainInv`: during the second walk the present certificate
  is in every set that holds the leaf and what signed a member; a walk that ended in
  a root stands on one that signed itself (`EndInv`); the places it came through
  are joined by signatures (`TrailInv`), and the first walk is complete on the
  issuers it looked for (`VisitedInv`). `AnchorIsProven`, `WalkEnds`, and
  `RootsAreRecognized`: a walk that stops short of the root stands on the path to
  it, where a signer was there to be chosen. The first of several signers exists by
  well-founded induction (`WFMin`, cited; `FirstPlace`).
* *Captures.* `TraceInv`: where each call really is fits the messages captured of it
  (`Fits`) and what the tap may have lost. `DiagnosisIs` and `ToldIs` say what
  `analyze` makes of a set of messages; from both the four properties of captures.
* *What the tools say.* `SaidInv`: whatever a command said is what its operators
  compute of the file, also while others run. Which validator a check id comes
  from is decided once (`WhoFound`, over one lemma of names per validator); from
  there `ToolsAgreeOnLeaf`, `GoodGradesLive`, `ReadyMeansConnected`, `FateIsShared`,
  `ReportsShowOutages`, `DriftlessFailover`.
* *Access lists.* `ShadowCovers`: whoever a shadowed rule would decide, an earlier
  one decides; `RemovedDecides`: the first match of a list with a rule taken out.
  `ShadowedRulesAreDead` for lists of any length.
* *Tristates.* `CompletionKeepsFindings`: if d is c with settings filled in that c
  lacked, whatever their values (`Completed` in
  ValidationPipeline), the findings on c that say something was wrong are findings
  on d. One lemma per validator. `OnlyCarriedJudged` follows with
  `EditsAreHistory`, and `RepairsNeverWorsen` in the same way from
  `MendingNeverWorsens`.

**WalkCaptureProofs** - for any number of threads, requests and lines. Neither
property is inductive, since earlier overlaps can leave anything in `sys.stdout`
and in buffers of requests long over. `IInv` adds `NameInv` and `FreshInv` (a
buffer not handed out yet is empty, and neither `sys.stdout` nor a saved target
points to it), `AloneInv` (a walk that overlapped with none is the only one under
way), `BufferInv` (what its buffer holds at each step) and `ConsoleInv` (without any
overlap the saved target is the console). From it `TypeCorrect`, `LoneReplies` and
`ConsoleComesBack`. That one more printed line is the staged output one line longer
is `OneMoreLine`, by the library's facts about `Append`.

**ResultsProofs** - for any number of commands, names, seconds and any `DirOf`,
commands killed or not, under `Spaced` (without it `results_clash` is the
counterexample). `SInv` adds `WriterInv` (no two commands share a file, and each
holds what its command has written so far), `RecordInv` (what can be read is complete
and lies under its own name), `DashboardInv` (a run the payload owes is still on its
list or outdone by an entry) and `PickInv` (the file picked is there and no older
than what was complete then). From it `HistoryKept`, `DashboardIsCurrent` and the
action property `NewestIsShown`. `MergeKeepsNewest` is the lemma about
`_latest_per_sbc`; a directory with files has a last one by `WFMin`.

### Assumptions

Each is a named `ASSUME` that TLC evaluates on the instances of the runs.
Constants of the models have the types and bounds one expects; beyond those:

* `NoneAssumption` (NormalizedModel): the value for "none" is no certificate and no
  context. Every proof that tells `None` from a record needs it.
* `ParseAssumption` (ValidationPipeline): the parser returns a configuration or
  refuses. `ParsersReturnConfigurations` proves it of the six parsers.
* `RepairAssumption` (Commands): what `Repairs` offers are repairs (`Repaired`). It
  is not assumed of the pipeline behind the six parsers, where it would say something
  of the parsers' own code; TLC checks `RepairNeverWorsens` there. Nothing is assumed
  of `Completions`: `OnlyCarriedIsJudged` asks of the two configurations whether the
  second completes the first, and what the parsers make of a missing line is
  `UnknownJudgesNothing`, which only TLC checks.
* `PrefixAssumption` (Fleet): which check ids begin with which prefixes, closed facts
  about strings that the provers do not compute and TLC does.
* `CompletionsComplete` (MCCommands) is no premise of a proof: it checks that the
  run does have edits `OnlyCarriedIsJudged` speaks of.
* `SparseIsSound` (MCVendorPipeline) is none either: it checks that `Sound`
  covers the exports with everything missing that may be, so that `CleanPasses`
  cannot become a statement about nothing.

### What the proofs changed

Attempts that failed for a reason the small instances could not show, and what was
wrong each time: two branches of `Diagnosis` overlapped, where the code has an order;
`diff` does not compare where a context name leads, so `NoDriftNoOutage` excepts
`C.TLS.DANGLING_TLS`; a file with a lone root counts as self-signed and a trust store
that cannot be seen demands no root, so `RootRecognized` asks for both; `SharedFate` goes by the name of a
certificate, not its contents; `ShownFaultsAreFound` took the first leg by peer where a
name decides too, took AMR-WB for foreign, and forgot the switch that pings every peer of
a CUBE. Three edits that had counted as repairs can worsen a verdict, and none of
them mends what a validator found wrong: of two legs that agree on a codec
Teams lacks, the carrier's is changed first (a MEDIUM more, enough to cross the
threshold of BLOCK); a trust store that is imported separately is filled in (a LOW
becomes the MEDIUM of an untrusted anchor); an address that was sound becomes the
second family (again a MEDIUM). `Repaired` leaves them out, and so do the instances.

### Model-checked only

Liveness (`EveryScanEnds`: liveness under fairness and `ENABLED` are out of the
prover's reach); `UnknownJudgesNothing`, which is checked of the lines
whose absence each parser keeps unknown (`Kept`) and fails where `vendor_absent` shows it. Every other
invariant and action property of the passing runs is stated by a theorem. What recursive definitions compute for every input cannot be
proved here either (induction over data); the models have none that a theorem needs.

## 6. What is not modelled

* *Inside the modelled parts:* the text of exports (sections, regular expressions,
  sniffing), the order of statements within a block, string, date and CIDR
  arithmetic beyond the cases the validators tell apart, wording of findings,
  Ed25519 and X.509 arithmetic (their outcome is a value), HTTP.
* *Captures:* reading pcap files, the text of SIP and SDP, the order of messages
  with one time stamp; a message is what `analyze` looks at.
* *Explainer:* tokens, training and the naive-Bayes arithmetic; its prediction is
  any class, so the gate is checked for every model.
* *Certificates:* X.509 decoding and the arithmetic of signatures.
* *Reports* (`report/*.py` other than `risk.py`, the readiness rule of `exec.py`
  and the families of `compliance.py`), counts and rankings of the fleet report:
  rendering of finished records.
* *Other endpoints* of the console (`/validate`, `/demo.json`): the modelled
  pipeline on a body or on bundled samples. The demo cache and the way a refused
  bundle ends a handler thread (`serve.py:342`) are listed as hazards without a
  property.
* *Tools and assets:* build-time scripts and static pages.

## 7. Plan

Done, in this order, the most consequential first: (1) rule client with its
abstract channel; (2) rate limit and reference cache; (3) walk capture and
results; (4) normalized model, validators, risk, call simulation and the pipeline
over them; (5) the six parsers and the pipeline behind them; (6) the proofs of
section 5; (7) HA drift, probe, fleet, reports, certificate files and captures,
composed with the pipeline in Commands; the first-match meaning of access lists;
(8) the scan server behind its limiter, with faults.

Next:

1. **Remediation**: the loop of edits until PASS, with liveness under fairness of
   the editor, over ValidationPipeline.
2. **Demo cache** and the console's handler threads under a refused bundle.
