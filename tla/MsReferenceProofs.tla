-------------------------- MODULE MsReferenceProofs --------------------------
(***************************************************************************)
(* Theorems about MsReference for any number of threads and any TTLs.      *)
(***************************************************************************)
EXTENDS MsReference, TLAPS

\* The entry was stamped before its handshake was over and is kept for no
\* longer than its reference may be.
EntryInv == /\ entry.at <= born /\ born <= clock
            /\ entry.ttl <= Ttl(entry.ref)

\* A thread's request lies in the past, the stamp it read is not younger than
\* the handshake behind the present entry, and once it passed the check any
\* later entry is fresh enough too: it can only have been born after the request.
ReaderInv == \A t \in Threads :
  /\ now[t] <= clock
  /\ pc[t] = "ttl" => at[t] <= born
  /\ pc[t] = "ref" => now[t] - born < Ttl(entry.ref)

IInv == TypeOK /\ EntryInv /\ ReaderInv /\ FreshAnswer

LEMMA TtlFacts == \A r : /\ Ttl(r) \in {0, TtlOk, TtlFail}
                         /\ Ttl(r) \in Nat /\ Ttl(r) > 0
BY TtlAssumption DEF Ttl

LEMMA TimeFacts == \A i \in Time : i \in Nat
BY TtlAssumption DEF Time

LEMMA InitInv == Init => IInv
<1> SUFFICES ASSUME Init PROVE IInv
  OBVIOUS
<1>1. 0 \in Time
  BY TtlAssumption DEF Time
<1>2. TypeOK
  BY <1>1 DEF Init, TypeOK, Refs, Steps, Nobody
<1>3. EntryInv /\ ReaderInv
  BY TtlFacts DEF Init, EntryInv, ReaderInv
<1>4. FreshAnswer
  BY TtlFacts DEF Init, FreshAnswer, Nobody
<1> QED
  BY <1>2, <1>3, <1>4 DEF IInv

LEMMA StepInv == IInv /\ [Next]_vars => IInv'
<1> SUFFICES ASSUME IInv, [Next]_vars PROVE IInv'
  OBVIOUS
<1>0. /\ clock \in Nat /\ born \in Nat /\ entry.at \in Nat /\ entry.ttl \in Nat
      /\ \A t \in Threads : now[t] \in Nat /\ at[t] \in Nat
  BY TtlFacts, TimeFacts, TtlAssumption DEF IInv, TypeOK
<1> USE <1>0, TtlFacts DEF IInv, TypeOK, EntryInv, ReaderInv, FreshAnswer, Steps
<1>1. CASE Tick
  <2>1. clock' \in Time /\ clock' = clock + 1
    BY <1>1, TtlAssumption DEF Tick, Time
  <2> QED
    BY <1>1, <2>1 DEF Tick
<1>2. ASSUME NEW t \in Threads, Ask(t) PROVE IInv'
  <2>1. TypeOK'
    BY <1>2 DEF Ask, Goto, Nobody, Refs
  <2>2. EntryInv' /\ ReaderInv'
    BY <1>2 DEF Ask, Goto
  <2>3. FreshAnswer'
    BY <1>2 DEF Ask, Goto, Nobody
  <2> QED
    BY <2>1, <2>2, <2>3
<1>3. ASSUME NEW t \in Threads, ReadAt(t) PROVE IInv'
  BY <1>3 DEF ReadAt, Goto
<1>4. ASSUME NEW t \in Threads, ReadTtl(t) PROVE IInv'
  <2>1. TypeOK' /\ EntryInv' /\ FreshAnswer'
    BY <1>4 DEF ReadTtl, Goto
  <2>2. Valid(t) /\ pc[t] = "ttl" => now[t] - born < Ttl(entry.ref)
    BY DEF Valid
  <2>3. ReaderInv'
    BY <1>4, <2>2 DEF ReadTtl, Goto
  <2> QED
    BY <2>1, <2>3
<1>5. ASSUME NEW t \in Threads, ReadRef(t) PROVE IInv'
  <2>1. TypeOK' /\ EntryInv' /\ ReaderInv'
    BY <1>5 DEF ReadRef, Goto
  <2>2. served' = [served EXCEPT ![t] = [ref |-> entry.ref, age |-> now[t] - born]]
        /\ now[t] - born < Ttl(entry.ref)
    BY <1>5 DEF ReadRef, Goto
  <2>3. FreshAnswer'
    BY <2>2
  <2> QED
    BY <2>1, <2>3
<1>6. ASSUME NEW t \in Threads, Handshake(t) PROVE IInv'
  <2>1. PICK r \in Refs : entry' = [at |-> now[t], ttl |-> Ttl(r), ref |-> r]
    BY <1>6 DEF Handshake
  <2>2. TypeOK' /\ EntryInv' /\ FreshAnswer'
    BY <1>6, <2>1 DEF Handshake, Goto
  <2>3. ReaderInv'
    BY <1>6, <2>1 DEF Handshake, Goto
  <2> QED
    BY <2>2, <2>3
<1>7. CASE UNCHANGED vars
  BY <1>7 DEF vars
<1> QED
  BY <1>1, <1>2, <1>3, <1>4, <1>5, <1>6, <1>7 DEF Next, Reference

THEOREM Invariance == Spec => []IInv
BY InitInv, StepInv, PTL DEF Spec

\* However the reads of the three keys interleave with updates, an answer out
\* of the cache stems from a handshake over for less than its own TTL.
THEOREM AnswersFresh == Spec => []FreshAnswer
BY Invariance, PTL DEF IInv
==============================================================================
