----------------------------- MODULE ScanServer -----------------------------
(***************************************************************************)
(* POST /scan of the public scanner (scan_server.py, do_POST): a request   *)
(* passes the limiter of RateLimiter and is then screened, graded, logged  *)
(* and answered, while the handlers of other requests run beside it.  The  *)
(* handshakes share nothing; what they share is the log, one line per      *)
(* graded scan, which /stats counts.  The process may be killed and        *)
(* started again, and the disk may be full.  The reference of Microsoft's  *)
(* edge, which only decorates the answer, is in MsReference.               *)
(*                                                                         *)
(* A definition named X_Y is the definition X with a bug Y.                *)
(***************************************************************************)
EXTENDS RateLimiter

CONSTANT MaxFaults  \* failing writes and restarts (bound)

VARIABLES
  stage,    \* per thread: waiting for a body behind the limiter, or serving it
  log,      \* the log file: how it ends, and how many of the scans it was to
            \* hold are in no line that parses
  failed,   \* history: how many of them failed to be written
  faults    \* how often the disk was full or the process killed

serverVars == <<vars, stage, log, failed, faults>>

ServerInit == /\ Init
              /\ stage = [t \in Threads |-> "free"]
              /\ log = [tail |-> "line", missing |-> 0] /\ failed = 0 /\ faults = 0

Leave(t) == stage[t] = "serving" /\ stage' = [stage EXCEPT ![t] = "free"] /\ UNCHANGED vars

\* The limiter: 429, a dead handler, or on.
Arrive(t)  == stage[t] = "free" /\ Request(t) /\ UNCHANGED <<stage, log, failed, faults>>
Limit(t)   == /\ Nonempty(t) \/ ReadHead(t) \/ PopLeft(t) \/ CheckLen(t)
              /\ UNCHANGED <<stage, log, failed, faults>>
LetThrough(t) == AppendHit(t) /\ stage' = [stage EXCEPT ![t] = "reading"]
                 /\ UNCHANGED <<log, failed, faults>>

\* The body the client announced is there, or the client has hung up: nothing
\* limits how long rfile.read waits for either.
Receive(t) == /\ stage[t] = "reading" /\ stage' = [stage EXCEPT ![t] = "serving"]
              /\ UNCHANGED vars /\ UNCHANGED <<log, failed, faults>>

\* _resolve_global: of all addresses one that is not public refuses the name.
Resolutions == {<<>>, <<"public">>, <<"public", "private">>, <<"private", "public">>}
Screened(addresses) == addresses # <<>> /\ \A i \in DOMAIN addresses : addresses[i] = "public"

\* A body that is not JSON is answered 400, one without an object in it kills the
\* handler, a name that is none, or does not resolve to public addresses only, is
\* answered with an error: nothing is logged.
Reject(t) == Leave(t) /\ UNCHANGED <<log, failed, faults>>

\* The file ends with a newline ("line"), in a piece of a record that does not
\* parse ("part"), or in a record that lacks only its newline ("whole"), which
\* counts until something is glued to it.
Tails == {"line", "part", "whole"}
Unended == IF log.tail = "whole" THEN 1 ELSE 0

\* _anon_log: a record glued to an unfinished line parses no more than that does.
Glued == IF log.tail = "line" THEN 0 ELSE 1 + Unended
AppendLine_NoNewline == [tail |-> IF log.tail = "line" THEN "whole" ELSE "part",
                         missing |-> log.missing + Glued]
AppendLine == [tail |-> "line", missing |-> log.missing + Glued]

\* n writes fail; of one of them a piece, or all but the newline, is in the file.
Lose(n, piece) ==
  CASE piece = "none" -> [log EXCEPT !.missing = @ + n]
    [] piece = "whole" /\ log.tail = "line" -> [tail |-> "whole", missing |-> log.missing + n - 1]
    [] OTHER -> [tail |-> "part", missing |-> log.missing + n + Unended]
Pieces == {"none", "part", "whole"}

Grade(t) == \E addresses \in Resolutions :
  /\ Screened(addresses) /\ Leave(t)
  /\ log' = AppendLine /\ UNCHANGED <<failed, faults>>

\* `except OSError: pass`, whatever of the line was written.
GradeUnlogged(t) == \E addresses \in Resolutions, piece \in Pieces :
  /\ Screened(addresses) /\ Leave(t)
  /\ faults < MaxFaults /\ faults' = faults + 1
  /\ log' = Lose(1, piece) /\ failed' = failed + 1

\* The process is killed, with some of its handlers inside their write, and
\* started again: it has forgotten whom it let through, and the log stays.
Restart == \E writing \in SUBSET {t \in Threads : stage[t] = "serving"}, piece \in Pieces :
  /\ faults < MaxFaults /\ faults' = faults + 1
  /\ piece # "none" => writing # {}
  /\ log' = Lose(Cardinality(writing), piece) /\ failed' = failed + Cardinality(writing)
  /\ hits' = <<>> /\ admitted' = <<>>
  /\ pc' = [t \in Threads |-> "idle"] /\ now' = [t \in Threads |-> 0]
  /\ stage' = [t \in Threads |-> "free"] /\ UNCHANGED <<clock, lost, unfair, overlapped>>

Serve(t) == Limit(t) \/ LetThrough(t) \/ Reject(t) \/ Grade(t) \/ GradeUnlogged(t)

ServerNext == \/ Tick /\ UNCHANGED <<stage, log, failed, faults>>
              \/ Restart
              \/ \E t \in Threads : Arrive(t) \/ Receive(t) \/ Serve(t)

\* The interpreter keeps running every handler thread, and the handshake has a
\* timeout.  The handler's socket has none: a client may never send its body, so
\* Receive is not fair; nor do the clock and the operator owe anything.
ServerSpec == /\ ServerInit /\ [][ServerNext]_serverVars
              /\ \A t \in Threads : WF_serverVars(Serve(t))
------------------------------------------------------------------------------
\* Whatever was running when the disk was full or the process killed, the
\* statistics count no scan whose record was not written, but at most one that
\* lacks only its newline, and a failed write costs at most its own record and
\* the one that is glued to it ("Aggregate the anonymized scan log").
StatsCount == failed <= log.missing + Unended /\ log.missing <= 2 * failed

\* A request is limited, and once its body is in it is answered or its handler
\* dies, whatever the others do to the deque it prunes: a client that never sends
\* its body holds up its own handler only.
EveryScanEnds ==
  \A t \in Threads : pc[t] # "idle" \/ stage[t] = "serving"
                      ~> pc[t] = "idle" /\ stage[t] # "serving"
==============================================================================
