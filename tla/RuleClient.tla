----------------------------- MODULE RuleClient -----------------------------
(***************************************************************************)
(* The rule-set client (rules/client.py) as the processes of one machine   *)
(* run it: every `validate`, `simulate`, `fleet` ... starts with           *)
(* RuleClient().fetch(id, local_path), and tools/fetch_ruleset.py with     *)
(* RuleClient(api_base).fetch(id), all over one cache file <id>.json.      *)
(*                                                                         *)
(* A fetch is split where another process can come in between: reading the *)
(* trusted floor, reading the source, reading the cache, truncating the    *)
(* cache file (write_text opens it with "w") and writing its text.         *)
(* A bundle is its version (an ISO date in the code, compared as text;     *)
(* 0 is a bundle without one) and whether its signature verifies.          *)
(*                                                                         *)
(* A definition named X_Y is the definition X with a bug Y; it is used     *)
(* only to show that a property would notice the bug.                      *)
(***************************************************************************)
EXTENDS Naturals, FiniteSets

CONSTANTS Procs,          \* the processes that share the cache directory
          MaxVersion,     \* newest version in the model
          MinBundle,      \* _MIN_BUNDLE_VERSION
          EnvPin,         \* SBC_RULE_MIN_VERSION, 0 when unset
          MaxRuns,        \* commands each process slot may start (bound)
          MayCrash,       \* whether processes can die at any point
          Missing,        \* no cache file
          Empty,          \* the file was truncated and not written yet
          Garbage,        \* two overlapping writes left text that is not JSON
          NoBundle

Versions == 0..MaxVersion
Bundle   == [version : Versions, signed : BOOLEAN]

ASSUME VersionAssumption == /\ MaxVersion \in Nat
                            /\ MinBundle \in Versions \ {0}
                            /\ EnvPin \in Versions
ASSUME RunAssumption     == MaxRuns \in Nat /\ MayCrash \in BOOLEAN
ASSUME ValueAssumption   ==
  /\ Missing \notin Bundle /\ Empty \notin Bundle /\ Garbage \notin Bundle
  /\ NoBundle \notin Bundle
  /\ Missing # Empty /\ Missing # Garbage /\ Empty # Garbage

\* How a process was started: a --ruleset file, --ruleset naming the cache
\* file itself (what fetch_ruleset.py advises), an api_base, or neither.
Modes == {"local", "self", "remote", "cache"}
Steps == {"idle", "floor", "source", "cache", "store", "storing",
          "returned", "dump", "dumping", "stopped"}

VARIABLES
  cache,    \* content of the cache file
  pc, mode, \* where each process is in fetch, and how it was started
  floor,    \* the value of fetch's local variable `floor`
  bundle,   \* the value of fetch's local variable `bundle`
  refused,  \* this fetch met a bundle it must refuse
  runs,     \* commands started (bounded by MaxRuns)
  vetted,   \* history: bundles that passed _verify and _reject_rollback
  raced     \* history: somebody else wrote the cache since p read its floor

vars == <<cache, pc, mode, floor, bundle, refused, runs, vetted, raced>>

Max2(a, b) == IF a >= b THEN a ELSE b

\* The floor without a cache: compiled in, or the operator's pin.
PinnedFloor == Max2(MinBundle, EnvPin)

\* _verify: the signature is checked against the pinned key.
Verify(b) == b.signed

\* _reject_rollback: the version must not be below the floor.
FreshEnough_Unversioned(b, f) == b.version = 0 \/ b.version >= f
FreshEnough(b, f) == b.version # 0 /\ b.version >= f

Accepts(b, f) == Verify(b) /\ FreshEnough(b, f)

\* _trusted_floor: the version in the cache file counts as soon as the file
\* parses; nothing is verified here.  An unreadable file is ignored.
TrustedFloor_PinsOnly == PinnedFloor
TrustedFloor == IF cache \in Bundle THEN Max2(PinnedFloor, cache.version)
                                    ELSE PinnedFloor

CacheContents == Bundle \cup {Missing, Empty, Garbage}

Init ==
  /\ cache \in Bundle \cup {Missing}
  /\ pc      = [p \in Procs |-> "idle"]
  /\ mode    = [p \in Procs |-> "local"]
  /\ floor   = [p \in Procs |-> PinnedFloor]
  /\ bundle  = [p \in Procs |-> NoBundle]
  /\ refused = [p \in Procs |-> FALSE]
  /\ runs    = [p \in Procs |-> 0]
  /\ vetted  = IF cache \in Bundle /\ Accepts(cache, PinnedFloor) THEN {cache} ELSE {}
  /\ raced   = [p \in Procs |-> FALSE]

Goto(p, from, to) == pc[p] = from /\ pc' = [pc EXCEPT ![p] = to]

\* Everybody else's knowledge of the cache file is out of date from here on.
Touch(p) == raced' = [q \in Procs |-> IF q = p THEN raced[q] ELSE TRUE]

\* A command constructs its RuleClient and calls fetch.
Start(p) ==
  /\ runs[p] < MaxRuns
  /\ Goto(p, "idle", "floor")
  /\ \E m \in Modes : mode' = [mode EXCEPT ![p] = m]
  /\ runs'    = [runs EXCEPT ![p] = @ + 1]
  /\ bundle'  = [bundle EXCEPT ![p] = NoBundle]
  /\ refused' = [refused EXCEPT ![p] = FALSE]
  /\ UNCHANGED <<cache, floor, vetted, raced>>

\* floor = self._trusted_floor(ruleset_id)
ReadFloor(p) ==
  /\ Goto(p, "floor", IF mode[p] = "cache" THEN "cache" ELSE "source")
  /\ floor' = [floor EXCEPT ![p] = TrustedFloor]
  /\ raced' = [raced EXCEPT ![p] = FALSE]
  /\ UNCHANGED <<cache, mode, bundle, refused, runs, vetted>>

\* RuleVerificationError leaves fetch: from here p ends without an answer.
Refuse(p) ==
  /\ pc'      = [pc EXCEPT ![p] = "stopped"]
  /\ refused' = [refused EXCEPT ![p] = TRUE]
  /\ UNCHANGED <<bundle, vetted>>

Accept(p, b, next) ==
  /\ pc'     = [pc EXCEPT ![p] = next]
  /\ bundle' = [bundle EXCEPT ![p] = b]
  /\ vetted' = vetted \cup {b}
  /\ UNCHANGED refused

\* verify-then-rollback on a parsed bundle.
Vet_Unchecked(p, b, next) == Accept(p, b, next)
Vet(p, b, next) == IF Accepts(b, floor[p]) THEN Accept(p, b, next) ELSE Refuse(p)

\* Any other exception leaves fetch, or (remote only) sends it to the cache.
Fail(p, next) == /\ pc' = [pc EXCEPT ![p] = next]
                 /\ UNCHANGED <<bundle, refused, vetted>>

\* local_path: a ValueError or OSError of reading it escapes from fetch.
ReadLocal(p) ==
  /\ pc[p] = "source" /\ mode[p] \in {"local", "self"}
  /\ \/ mode[p] = "local" /\ \E b \in Bundle : Vet(p, b, "store")
     \/ mode[p] = "local" /\ Fail(p, "stopped")
     \/ mode[p] = "self" /\ cache \in Bundle /\ Vet(p, cache, "store")
     \/ mode[p] = "self" /\ cache \notin Bundle /\ Fail(p, "stopped")
  /\ UNCHANGED <<cache, mode, floor, runs, raced>>

\* api_base: a refusal is final, a transport or parse failure tries the cache.
ReadRemote_FallsBack(p) ==
  /\ pc[p] = "source" /\ mode[p] = "remote"
  /\ \E b \in Bundle : \/ Accepts(b, floor[p]) /\ Accept(p, b, "store")
                       \/ /\ ~Accepts(b, floor[p])
                          /\ pc'      = [pc EXCEPT ![p] = "cache"]
                          /\ refused' = [refused EXCEPT ![p] = TRUE]
                          /\ UNCHANGED <<bundle, vetted>>
  /\ UNCHANGED <<cache, mode, floor, runs, raced>>
ReadRemote(p) ==
  /\ pc[p] = "source" /\ mode[p] = "remote"
  /\ \/ \E b \in Bundle : Vet(p, b, "store")
     \/ Fail(p, "cache")
  /\ UNCHANGED <<cache, mode, floor, runs, raced>>

\* The cache file is read, verified and held to the floor like any source.
ReadCache_Unverified(p) ==
  /\ pc[p] = "cache"
  /\ \/ cache \in Bundle /\ Accept(p, cache, "returned")
     \/ cache \notin Bundle /\ Fail(p, "stopped")
  /\ UNCHANGED <<cache, mode, floor, runs, raced>>
ReadCache(p) ==
  /\ pc[p] = "cache"
  /\ \/ cache = Missing /\ Refuse(p)
     \/ cache \in Bundle /\ Vet(p, cache, "returned")
     \/ cache \in {Empty, Garbage} /\ Fail(p, "stopped")
  /\ UNCHANGED <<cache, mode, floor, runs, raced>>

\* open(cache, "w"): the old text is gone, the new one is not there yet.
OpenForWrite(p) ==
  /\ \/ Goto(p, "store", "storing")
     \/ Goto(p, "dump", "dumping")
  /\ cache' = Empty
  /\ Touch(p)
  /\ UNCHANGED <<mode, floor, bundle, refused, runs, vetted>>

\* The text is written from offset 0.  When another process wrote since p
\* truncated, a longer text of its own sticks out behind p's: not JSON.
WriteText(p) ==
  /\ \/ Goto(p, "storing", "returned")
     \/ Goto(p, "dumping", "stopped")
  /\ cache' \in {bundle[p]} \cup (IF cache = Empty THEN {} ELSE {Garbage})
  /\ Touch(p)
  /\ UNCHANGED <<mode, floor, bundle, refused, runs, vetted>>

\* The command uses the answer.  fetch_ruleset.py writes it once more, to -o
\* or by default to the cache path; the other commands only read it.
UseAnswer(p) ==
  /\ pc[p] = "returned"
  /\ \/ pc' = [pc EXCEPT ![p] = "stopped"]
     \/ mode[p] = "remote" /\ pc' = [pc EXCEPT ![p] = "dump"]
  /\ UNCHANGED <<cache, mode, floor, bundle, refused, runs, vetted, raced>>

\* The command is over; the slot may run another one.
Exit(p) ==
  /\ Goto(p, "stopped", "idle")
  /\ bundle' = [bundle EXCEPT ![p] = NoBundle]
  /\ UNCHANGED <<cache, mode, floor, refused, runs, vetted, raced>>

\* The process is killed between two steps; the file stays as it is.
Crash(p) ==
  /\ MayCrash
  /\ pc[p] \notin {"idle", "stopped"}
  /\ pc'     = [pc EXCEPT ![p] = "idle"]
  /\ bundle' = [bundle EXCEPT ![p] = NoBundle]
  /\ UNCHANGED <<cache, mode, floor, refused, runs, vetted, raced>>

Fetch(p) == \/ ReadFloor(p) \/ ReadLocal(p) \/ ReadRemote(p) \/ ReadCache(p)
            \/ OpenForWrite(p) \/ WriteText(p) \/ UseAnswer(p) \/ Exit(p)

Next == \E p \in Procs : Start(p) \/ Fetch(p) \/ Crash(p)

Spec == Init /\ [][Next]_vars
------------------------------------------------------------------------------
(* Properties *)

\* The values of the variables.
TypeOK ==
  /\ cache \in CacheContents
  /\ pc \in [Procs -> Steps]
  /\ mode \in [Procs -> Modes]
  /\ floor \in [Procs -> Versions]
  /\ bundle \in [Procs -> Bundle \cup {NoBundle}]
  /\ refused \in [Procs -> BOOLEAN]
  /\ runs \in [Procs -> 0..MaxRuns]
  /\ vetted \in SUBSET Bundle
  /\ raced \in [Procs -> BOOLEAN]

\* p holds the answer of its fetch.
Answered(p) == pc[p] \in {"returned", "dump", "dumping"}

\* Whatever the source and whoever else writes the cache meanwhile, a bundle
\* that fetch is about to cache or has returned is signed, is not older than
\* the floor this fetch read, and never older than the compiled-in floor and
\* the operator's pin (client.py: "a stale bundle is refused even on a clean
\* first run").
AnswersAreCurrent ==
  \A p \in Procs : Answered(p) \/ pc[p] \in {"store", "storing"} =>
    /\ bundle[p] \in Bundle
    /\ Verify(bundle[p])
    /\ bundle[p].version >= floor[p]
    /\ floor[p] >= PinnedFloor

\* A fetch that met a tampered or stale bundle ends there: it neither answers
\* nor writes, in particular it never falls back to the cache ("tampered or
\* stale: never fall back silently").
RefusalIsFinal == \A p \in Procs : refused[p] => pc[p] \in {"stopped", "idle"}

\* A process replaces a readable cache by an older bundle only if some other
\* process wrote the file after this one read its floor: the rollback check of
\* fetch is complete but for the gap between its read and its write.
RollbackOnlyByRace ==
  \A p \in Procs : pc[p] \in {"store", "dump"} /\ ~raced[p] /\ cache \in Bundle
                     => bundle[p].version >= cache.version

\* Nothing enters the cache file but a signed bundle at or above the pins,
\* whichever write of whichever command fills it ("verify BEFORE
\* trusting/caching").
OnlyVettedIsCached ==
  [][cache' # cache /\ cache' \in Bundle => Accepts(cache', PinnedFloor)]_vars

\* A bundle is accepted only if it is at least as new as every bundle accepted
\* before it (_reject_rollback: "a fetched bundle must be at least as new as
\* the highest version we already trust").
NoRollback ==
  [][\A p \in Procs : bundle'[p] # bundle[p] /\ bundle'[p] # NoBundle =>
       \A b \in vetted : bundle'[p].version >= b.version]_vars

(***************************************************************************)
(* RuleClient implements RuleTrust: the store is the cache file as far as  *)
(* it can be served, an answer is what fetch returned.                     *)
(***************************************************************************)
Trusted == {b \in Bundle : Accepts(b, PinnedFloor)}

Store == IF cache \in Trusted THEN cache ELSE NoBundle

Answer == [p \in Procs |-> IF Answered(p) THEN bundle[p] ELSE NoBundle]

Trust == INSTANCE RuleTrust WITH Nothing <- NoBundle, store <- Store,
                                 answer <- Answer

ImplementsTrust == Trust!TSpec
==============================================================================
