----------------------------- MODULE RateLimiter -----------------------------
(****************************************************************************)
(* The scanner's per-client limit on POST /scan (scan_server.py, _rate_ok)  *)
(* for one client address: a deque of the times of its recent scans, shared *)
(* by the handler threads of ThreadingHTTPServer without a lock.  The       *)
(* queues of different addresses never meet.  Between any two deque         *)
(* operations another thread can run; each operation is atomic.             *)
(*                                                                          *)
(* A definition named X_Y is the definition X with a bug Y.                 *)
(****************************************************************************)
EXTENDS Integers, Sequences, FiniteSets

CONSTANTS Threads,   \* handler threads serving one client address
          RateMax,   \* _RATE_MAX
          RateWindow,\* _RATE_WINDOW
          MaxClock   \* last instant of the model (bound)

ASSUME ThreadAssumption == IsFiniteSet(Threads) /\ Threads # {}
ASSUME RateAssumption   == /\ RateMax \in Nat \ {0}
                           /\ RateWindow \in Nat
                           /\ MaxClock \in Nat

Time == 0..MaxClock

VARIABLES
  hits,      \* hits[ip], the deque of this client
  pc, now,   \* per thread: where it is in _rate_ok, its local variable now
  clock,     \* time.monotonic()
  admitted,  \* history: the scans let through in their order, by their `now`
  lost,      \* history: a handler died of an IndexError
  unfair,    \* history: a scan was refused though fewer than RateMax scans
             \* had been let through in the window before it
  overlapped \* history: two requests of this client were under way at once

vars == <<hits, pc, now, clock, admitted, lost, unfair, overlapped>>

Steps == {"idle", "nonempty", "head", "popleft", "len", "append"}

Init == /\ hits     = <<>>
        /\ pc       = [t \in Threads |-> "idle"]
        /\ now      = [t \in Threads |-> 0]
        /\ clock    = 0
        /\ admitted = <<>>
        /\ lost     = FALSE
        /\ unfair   = FALSE
        /\ overlapped = FALSE

Goto(t, from, to) == pc[t] = from /\ pc' = [pc EXCEPT ![t] = to]

\* Scans let through with a time in the closed interval a..b.
Admitted(a, b) == Cardinality({k \in DOMAIN admitted : a <= admitted[k] /\ admitted[k] <= b})

\* POST /scan: the handler takes the time.
Request(t) == /\ Goto(t, "idle", "nonempty")
              /\ now' = [now EXCEPT ![t] = clock]
              /\ overlapped' = (overlapped \/ \E u \in Threads : pc[u] # "idle")
              /\ UNCHANGED <<hits, clock, admitted, lost, unfair>>

\* while q ...
Nonempty(t) == /\ Goto(t, "nonempty", IF hits = <<>> THEN "len" ELSE "head")
               /\ UNCHANGED <<hits, now, clock, admitted, lost, unfair, overlapped>>

\* The exception of an empty deque leaves the handler: no response.
IndexError(t) == /\ hits = <<>>
                 /\ pc'   = [pc EXCEPT ![t] = "idle"]
                 /\ lost' = TRUE
                 /\ UNCHANGED hits

Expired_Inclusive(t, i) == now[t] - i >= RateWindow
Expired(t, i) == now[t] - i > RateWindow

\* ... and now - q[0] > _RATE_WINDOW
ReadHead(t) ==
  /\ pc[t] = "head"
  /\ \/ IndexError(t)
     \/ /\ hits # <<>>
        /\ pc' = [pc EXCEPT ![t] = IF Expired(t, Head(hits)) THEN "popleft" ELSE "len"]
        /\ UNCHANGED <<hits, lost, overlapped>>
  /\ UNCHANGED <<now, clock, admitted, unfair, overlapped>>

\* q.popleft(): whatever is at the head by now.
PopLeft_Peeks(t) == /\ Goto(t, "popleft", "nonempty")
                    /\ UNCHANGED <<hits, now, clock, admitted, lost, unfair, overlapped>>
PopLeft(t) ==
  /\ pc[t] = "popleft"
  /\ \/ IndexError(t)
     \/ /\ hits # <<>>
        /\ hits' = Tail(hits)
        /\ pc'   = [pc EXCEPT ![t] = "nonempty"]
        /\ UNCHANGED lost
  /\ UNCHANGED <<now, clock, admitted, unfair, overlapped>>

\* if len(q) >= _RATE_MAX: 429
HasRoom_OffByOne == Len(hits) <= RateMax
HasRoom == Len(hits) < RateMax

\* t is refused though its window holds fewer scans than allowed.
Unfair(t) == ~HasRoom /\ Admitted(now[t] - RateWindow, now[t]) < RateMax

CheckLen_CountsRefused(t) ==
  /\ Goto(t, "len", IF HasRoom THEN "append" ELSE "idle")
  /\ unfair' = (unfair \/ Unfair(t))
  /\ hits' = IF HasRoom THEN hits ELSE Append(hits, now[t])
  /\ UNCHANGED <<now, clock, admitted, lost, overlapped>>
CheckLen(t) ==
  /\ Goto(t, "len", IF HasRoom THEN "append" ELSE "idle")
  /\ unfair' = (unfair \/ Unfair(t))
  /\ UNCHANGED <<hits, now, clock, admitted, lost, overlapped>>

\* q.append(now): the scan goes ahead.
AppendHit(t) ==
  /\ Goto(t, "append", "idle")
  /\ hits'     = Append(hits, now[t])
  /\ admitted' = Append(admitted, now[t])
  /\ UNCHANGED <<now, clock, lost, unfair, overlapped>>

RateOk(t) == \/ Nonempty(t) \/ ReadHead(t) \/ PopLeft(t)
             \/ CheckLen(t) \/ AppendHit(t)

Tick == /\ clock < MaxClock
        /\ clock' = clock + 1
        /\ UNCHANGED <<hits, pc, now, admitted, lost, unfair, overlapped>>

Next == Tick \/ \E t \in Threads : Request(t) \/ RateOk(t)

Spec == Init /\ [][Next]_vars
------------------------------------------------------------------------------
TypeOK == /\ hits \in Seq(Time)
          /\ pc \in [Threads -> Steps]
          /\ now \in [Threads -> Time]
          /\ clock \in Time
          /\ admitted \in Seq(Time)
          /\ lost \in BOOLEAN /\ unfair \in BOOLEAN /\ overlapped \in BOOLEAN

\* Threads that passed the length check and have not appended yet.
Passed == {t \in Threads : pc[t] = "append"}

\* However the threads interleave, the deque outgrows _RATE_MAX by at most one
\* entry per further thread: the check-then-append gap is the only overrun.
QueueBound == Len(hits) + Cardinality(Passed) <= RateMax + Cardinality(Threads) - 1

\* As long as requests of a client come one after the other, at most _RATE_MAX
\* of them are let through in any window of _RATE_WINDOW seconds ("_RATE_MAX =
\* 12 # scans, _RATE_WINDOW = 60.0 # per this many seconds, per client IP").
WindowLimit ==
  ~overlapped => \A i \in Time : Admitted(i, i + RateWindow) <= RateMax

\* ... and each is served or refused as it should be: one is refused only if
\* _RATE_MAX were let through in the window before it, expired entries never
\* count, and none dies inside _rate_ok without a response.
LoneRequestsDecided == ~overlapped => ~unfair /\ ~lost
==============================================================================
