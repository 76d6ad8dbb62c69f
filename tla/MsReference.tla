----------------------------- MODULE MsReference -----------------------------
(***************************************************************************)
(* The cached Microsoft-edge reference of the scanner (scan_server.py,     *)
(* _ms_reference): one dict with the keys at, ttl and ref, read key by key *)
(* and replaced by one dict.update, without a lock around the handshake in *)
(* between.  dict.update with keyword arguments is atomic; a thread can be *)
(* preempted between any two of the reads.                                 *)
(*                                                                         *)
(* A definition named X_Y is the definition X with a bug Y.                *)
(***************************************************************************)
EXTENDS Integers, FiniteSets

CONSTANTS Threads,   \* handler threads of the scanner
          TtlOk,     \* _MS_REF_TTL_OK
          TtlFail,   \* _MS_REF_TTL_FAIL
          MaxClock   \* last instant of the model (bound)

ASSUME TtlAssumption == /\ TtlOk \in Nat \ {0} /\ TtlFail \in Nat \ {0}
                        /\ MaxClock \in Nat

Time == 0..MaxClock
Refs == {"verified", "unverified", "none"}   \* "none" is Python's None

VARIABLES
  entry,     \* _ms_ref_cache
  clock,     \* time.monotonic()
  pc, now,   \* per thread: where it is in _ms_reference, its variable now
  at,        \* per thread: the value of _ms_ref_cache["at"] it read
  born,      \* history: when the handshake behind entry.ref was over
  served     \* history: the answer a thread got out of the cache, with the
             \* time its handshake was over

vars == <<entry, clock, pc, now, at, born, served>>

Ttl(ref) == IF ref = "none" THEN TtlFail ELSE TtlOk

Steps  == {"idle", "at", "ttl", "ref", "handshake"}
Nobody == [ref |-> "none", age |-> -1]

Init == /\ entry   = [at |-> 0, ttl |-> 0, ref |-> "none"]
        /\ clock   = 0
        /\ pc      = [t \in Threads |-> "idle"]
        /\ now     = [t \in Threads |-> 0]
        /\ at      = [t \in Threads |-> 0]
        /\ born    = 0
        /\ served  = [t \in Threads |-> Nobody]

Goto(t, from, to) == pc[t] = from /\ pc' = [pc EXCEPT ![t] = to]

\* A graded scan asks for the reference.
Ask(t) == /\ Goto(t, "idle", "at")
          /\ now'    = [now EXCEPT ![t] = clock]
          /\ served' = [served EXCEPT ![t] = Nobody]
          /\ UNCHANGED <<entry, clock, at, born>>

\* now - _ms_ref_cache["at"] ...
ReadAt(t) == /\ Goto(t, "at", "ttl")
             /\ at' = [at EXCEPT ![t] = entry.at]
             /\ UNCHANGED <<entry, clock, now, born, served>>

\* ... < _ms_ref_cache["ttl"]
Valid(t) == now[t] - at[t] < entry.ttl

ReadTtl(t) == /\ Goto(t, "ttl", IF Valid(t) THEN "ref" ELSE "handshake")
               /\ UNCHANGED <<entry, clock, now, at, born, served>>

\* return _ms_ref_cache["ref"]
ReadRef(t) == /\ Goto(t, "ref", "idle")
              /\ served' = [served EXCEPT ![t] = [ref |-> entry.ref, age |-> now[t] - born]]
              /\ UNCHANGED <<entry, clock, now, at, born>>

\* The handshake is over: its outcome replaces the entry, stamped with the
\* time it was asked for.
Handshake_Stuck(t) ==
  /\ Goto(t, "handshake", "idle")
  /\ \E r \in Refs : entry' = [at |-> now[t], ttl |-> TtlOk, ref |-> r]
  /\ born' = clock
  /\ UNCHANGED <<clock, now, at, served>>
Handshake(t) ==
  /\ Goto(t, "handshake", "idle")
  /\ \E r \in Refs : entry' = [at |-> now[t], ttl |-> Ttl(r), ref |-> r]
  /\ born' = clock
  /\ UNCHANGED <<clock, now, at, served>>

Reference(t) == ReadAt(t) \/ ReadTtl(t) \/ ReadRef(t) \/ Handshake(t)

Tick == /\ clock < MaxClock
        /\ clock' = clock + 1
        /\ UNCHANGED <<entry, pc, now, at, born, served>>

Next == Tick \/ \E t \in Threads : Ask(t) \/ Reference(t)

Spec == Init /\ [][Next]_vars
------------------------------------------------------------------------------
TypeOK == /\ entry \in [at : Time, ttl : {0, TtlOk, TtlFail}, ref : Refs]
          /\ clock \in Time /\ born \in Time
          /\ pc \in [Threads -> Steps]
          /\ now \in [Threads -> Time] /\ at \in [Threads -> Time]
          /\ served \in [Threads -> [ref : Refs, age : Int]]

\* An answer out of the cache stems from a handshake that was over less than
\* its own TTL before the request, although at, ttl and ref are read one by one
\* while other threads replace them: a success is shown for at most an hour, and
\* an outage for at most five minutes ("Failures cache briefly so a transient
\* outage doesn't stick for an hour").
FreshAnswer == \A t \in Threads : served[t].age < Ttl(served[t].ref)
==============================================================================
