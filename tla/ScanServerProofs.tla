--------------------------- MODULE ScanServerProofs ---------------------------
(***************************************************************************)
(* Theorems about RateLimiter and about ScanServer, which embeds it, for   *)
(* any number of threads, any limit, any window and any number of faults.  *)
(***************************************************************************)
EXTENDS ScanServer, FiniteSetTheorems, SequenceTheorems, TLAPS

LEMMA TypeStep == TypeOK /\ [Next]_vars => TypeOK'
<1> SUFFICES ASSUME TypeOK, [Next]_vars PROVE TypeOK'
  OBVIOUS
<1> USE DEF TypeOK, Steps
<1>1. CASE Tick
  BY <1>1, RateAssumption DEF Tick, Time
<1>2. ASSUME NEW t \in Threads, Request(t) PROVE TypeOK'
  BY <1>2 DEF Request, Goto
<1>3. ASSUME NEW t \in Threads, Nonempty(t) PROVE TypeOK'
  BY <1>3 DEF Nonempty, Goto
<1>4. ASSUME NEW t \in Threads, ReadHead(t) PROVE TypeOK'
  BY <1>4 DEF ReadHead, IndexError
<1>5. ASSUME NEW t \in Threads, PopLeft(t) PROVE TypeOK'
  <2>1. hits # <<>> => Tail(hits) \in Seq(Time)
    BY HeadTailProperties
  <2> QED
    BY <1>5, <2>1 DEF PopLeft, IndexError
<1>6. ASSUME NEW t \in Threads, CheckLen(t) PROVE TypeOK'
  BY <1>6 DEF CheckLen, Goto, Unfair
<1>7. ASSUME NEW t \in Threads, AppendHit(t) PROVE TypeOK'
  <2>1. hits' \in Seq(Time) /\ admitted' \in Seq(Time)
    BY <1>7, AppendProperties DEF AppendHit
  <2> QED
    BY <1>7, <2>1 DEF AppendHit, Goto
<1>8. CASE UNCHANGED vars
  BY <1>8 DEF vars
<1> QED
  BY <1>1, <1>2, <1>3, <1>4, <1>5, <1>6, <1>7, <1>8 DEF Next, RateOk

LEMMA InitType == Init => TypeOK
<1> SUFFICES ASSUME Init PROVE TypeOK
  OBVIOUS
<1>1. 0 \in Time /\ hits \in Seq(Time) /\ admitted \in Seq(Time)
  BY RateAssumption DEF Init, Time
<1> QED
  BY <1>1 DEF Init, TypeOK, Steps

\* Every variable keeps its type.
THEOREM TypeCorrect == Spec => []TypeOK
BY InitType, TypeStep, PTL DEF Spec

------------------------------------------------------------------------------
LEMMA PassedFacts == /\ IsFiniteSet(Passed)
                     /\ Cardinality(Passed) \in Nat
                     /\ Cardinality(Threads) \in Nat
                     /\ Cardinality(Passed) <= Cardinality(Threads)
<1>1. Passed \subseteq Threads
  BY DEF Passed
<1> QED
  BY <1>1, ThreadAssumption, FS_Subset, FS_CardinalityType

\* A step of t that does not leave or enter the gap keeps Passed as it was; a
\* step into the gap adds t, a step out of it removes t.
LEMMA PassedStep ==
  ASSUME TypeOK, NEW t \in Threads, NEW s \in Steps, pc' = [pc EXCEPT ![t] = s]
  PROVE  /\ pc[t] # "append" /\ s # "append" => Passed' = Passed
         /\ pc[t] = "append" /\ s # "append"
              => Cardinality(Passed') = Cardinality(Passed) - 1
<1>1. ASSUME pc[t] # "append", s # "append" PROVE Passed' = Passed
  BY <1>1 DEF Passed, TypeOK
<1>2. ASSUME pc[t] = "append", s # "append"
      PROVE  Cardinality(Passed') = Cardinality(Passed) - 1
  <2>1. Passed' = Passed \ {t} /\ t \in Passed
    BY <1>2 DEF Passed, TypeOK
  <2> QED
    BY <2>1, PassedFacts, FS_RemoveElement
<1> QED
  BY <1>1, <1>2

LEMMA BoundStep == TypeOK /\ QueueBound /\ [Next]_vars => QueueBound'
<1> SUFFICES ASSUME TypeOK, QueueBound, [Next]_vars PROVE QueueBound'
  OBVIOUS
<1>0. Len(hits) \in Nat
  BY DEF TypeOK
<1> USE PassedFacts, RateAssumption DEF QueueBound
<1>1. CASE Tick \/ UNCHANGED vars
  BY <1>1 DEF Tick, vars, Passed
<1>2. ASSUME NEW t \in Threads, Request(t) \/ Nonempty(t) \/ ReadHead(t)
      PROVE  QueueBound'
  <2>1. hits' = hits
    BY <1>2 DEF Request, Nonempty, ReadHead, IndexError
  <2>2. PICK s \in Steps : s # "append" /\ pc[t] # "append" /\ pc' = [pc EXCEPT ![t] = s]
    BY <1>2 DEF Request, Nonempty, ReadHead, IndexError, Goto, Steps
  <2>3. Passed' = Passed
    BY <2>2, PassedStep
  <2> QED
    BY <2>1, <2>3
<1>3. ASSUME NEW t \in Threads, PopLeft(t) PROVE QueueBound'
  <2>1. PICK s \in Steps : s # "append" /\ pc[t] # "append" /\ pc' = [pc EXCEPT ![t] = s]
    BY <1>3 DEF PopLeft, IndexError, Steps
  <2>2. Passed' = Passed
    BY <2>1, PassedStep
  <2>3. CASE hits' = hits
    BY <2>2, <2>3
  <2>4. CASE hits # <<>> /\ hits' = Tail(hits)
    <3>1. Len(hits') = Len(hits) - 1
      BY <2>4, HeadTailProperties DEF TypeOK
    <3> QED
      BY <3>1, <2>2, <1>0
  <2> QED
    BY <1>3, <2>3, <2>4 DEF PopLeft, IndexError
<1>4. ASSUME NEW t \in Threads, CheckLen(t) PROVE QueueBound'
  <2>1. hits' = hits /\ pc[t] = "len"
    BY <1>4 DEF CheckLen, Goto
  <2>2. CASE HasRoom
    <3>1. t \notin Passed
      BY <2>1 DEF Passed
    <3>2. Passed' \subseteq Threads /\ IsFiniteSet(Passed')
      BY ThreadAssumption, FS_Subset DEF Passed
    <3>3. Cardinality(Passed') <= Cardinality(Threads) /\ Cardinality(Passed') \in Nat
      BY <3>2, ThreadAssumption, FS_Subset, FS_CardinalityType
    <3>4. Len(hits) <= RateMax - 1
      BY <2>2, <1>0 DEF HasRoom
    <3> HIDE DEF QueueBound
    <3>5. Len(hits) + Cardinality(Passed') <= RateMax + Cardinality(Threads) - 1
      BY <3>3, <3>4, <1>0
    <3> QED
      BY <2>1, <3>5 DEF QueueBound
  <2>3. CASE ~HasRoom
    <3>1. pc' = [pc EXCEPT ![t] = "idle"]
      BY <1>4, <2>3 DEF CheckLen, Goto
    <3>2. Passed' = Passed
      BY <2>1, <3>1, PassedStep DEF Steps
    <3> QED
      BY <2>1, <3>2
  <2> QED
    BY <2>2, <2>3
<1>5. ASSUME NEW t \in Threads, AppendHit(t) PROVE QueueBound'
  <2>1. pc[t] = "append" /\ pc' = [pc EXCEPT ![t] = "idle"]
    BY <1>5 DEF AppendHit, Goto
  <2>2. Cardinality(Passed') = Cardinality(Passed) - 1
    BY <2>1, PassedStep DEF Steps
  <2>3. Len(hits') = Len(hits) + 1
    <3>1. hits' = Append(hits, now[t]) /\ hits \in Seq(Time) /\ now[t] \in Time
      BY <1>5 DEF AppendHit, TypeOK
    <3> QED
      BY <3>1, AppendProperties
  <2> QED
    BY <2>2, <2>3, <1>0
<1> QED
  BY <1>1, <1>2, <1>3, <1>4, <1>5 DEF Next, RateOk

LEMMA InitBound == Init => QueueBound
<1> SUFFICES ASSUME Init PROVE QueueBound
  OBVIOUS
<1>1. Passed = {} /\ Len(hits) = 0
  BY DEF Init, Passed
<1>2. Cardinality(Threads) # 0 /\ Cardinality(Passed) = 0
  BY <1>1, ThreadAssumption, FS_EmptySet
<1> QED
  BY <1>1, <1>2, PassedFacts, RateAssumption DEF QueueBound

\* The check-then-append gap lets the deque outgrow _RATE_MAX by less than the
\* number of handler threads.
THEOREM QueueBounded == Spec => []QueueBound
BY InitBound, BoundStep, TypeCorrect, InitType, TypeStep, PTL DEF Spec
------------------------------------------------------------------------------
\* No clock reading is ahead of the clock.
ClockInv == /\ \A t \in Threads : now[t] <= clock
            /\ \A k \in 1..Len(admitted) : admitted[k] <= clock

\* What follows holds for as long as requests of the client come one by one.
Active(t) == pc[t] # "idle"
OneActive == \A t, u \in Threads : Active(t) /\ Active(u) => t = u

\* The scans were let through in the order of their times.
Ordered == \A j, k \in 1..Len(admitted) : j <= k => admitted[j] <= admitted[k]

\* The deque is the end of what was let through; what it lacks is expired for
\* good, for the request under way and for any later one.
Dropped == Len(admitted) - Len(hits)
Suffix  == /\ Len(hits) <= Len(admitted)
           /\ \A j \in 1..Len(hits) : hits[j] = admitted[Dropped + j]
Gone    == \A k \in 1..Dropped :
             /\ clock - admitted[k] > RateWindow
             /\ \A t \in Threads : Active(t) => now[t] - admitted[k] > RateWindow

\* What the request under way has found out about the deque still holds.
Position(t) == /\ Active(t) => \A k \in 1..Len(admitted) : admitted[k] <= now[t]
               /\ pc[t] \in {"head", "popleft"} => hits # <<>>
               /\ pc[t] = "popleft" => Expired(t, Head(hits))
               /\ pc[t] = "len" => hits = <<>> \/ ~Expired(t, Head(hits))
               /\ pc[t] = "append" => HasRoom

Windows == \A i \in Time : Admitted(i, i + RateWindow) <= RateMax
Decided == ~unfair /\ ~lost
LoneInv == ~overlapped => /\ OneActive /\ Ordered /\ Suffix /\ Gone
                          /\ \A t \in Threads : Position(t)
                          /\ Windows /\ Decided

LEMMA Numbers == ASSUME TypeOK
                 PROVE  /\ Len(hits) \in Nat /\ Len(admitted) \in Nat /\ clock \in Nat
                        /\ RateWindow \in Nat /\ RateMax \in Nat /\ RateMax > 0
                        /\ \A t \in Threads : now[t] \in Nat
                        /\ \A k \in 1..Len(admitted) : admitted[k] \in Nat
                        /\ \A k \in 1..Len(hits) : hits[k] \in Nat
                        /\ DOMAIN admitted = 1..Len(admitted)
<1>1. Time \subseteq Nat /\ RateWindow \in Nat /\ RateMax \in Nat /\ RateMax > 0
  BY RateAssumption DEF Time
<1>2. hits \in Seq(Time) /\ admitted \in Seq(Time) /\ clock \in Time /\ now \in [Threads -> Time]
  BY DEF TypeOK
<1>3. \A q \in Seq(Time) : Len(q) \in Nat /\ DOMAIN q = 1..Len(q) /\ \A k \in 1..Len(q) : q[k] \in Time
  OBVIOUS
<1> QED
  BY <1>1, <1>2, <1>3

LEMMA CountBound == ASSUME NEW a \in Nat, NEW b \in Nat, a <= b, NEW S, S \subseteq (a+1)..b
                    PROVE  IsFiniteSet(S) /\ Cardinality(S) <= b - a /\ Cardinality(S) \in Nat
<1>1. IsFiniteSet((a+1)..b) /\ Cardinality((a+1)..b) = b - a
  <2>1. a + 1 \in Int /\ b \in Int
    OBVIOUS
  <2>2. Cardinality((a+1)..b) = IF a + 1 > b THEN 0 ELSE b - (a + 1) + 1
    BY <2>1, FS_Interval
  <2>3. IsFiniteSet((a+1)..b)
    BY <2>1, FS_Interval
  <2>4. Cardinality((a+1)..b) = b - a
    BY <2>1, <2>2
  <2> QED
    BY <2>3, <2>4
<1>2. IsFiniteSet(S) /\ Cardinality(S) <= Cardinality((a+1)..b)
  BY <1>1, FS_Subset
<1> QED
  BY <1>1, <1>2, FS_CardinalityType

\* As long as the request under way may append, the scans in its window are all
\* in the deque.
LEMMA WindowInDeque ==
  ASSUME TypeOK, Suffix, Gone, NEW t \in Threads, Active(t),
         NEW k \in 1..Len(admitted), now[t] - admitted[k] <= RateWindow
  PROVE  k \in (Dropped + 1)..Len(admitted)
<1>1. k \notin 1..Dropped
  BY Numbers DEF Gone
<1> QED
  BY <1>1, Numbers DEF Dropped, Suffix

\* A refusal is fair: then all of the deque is in the window.
LEMMA RefusalIsFair ==
  ASSUME TypeOK, Ordered, Suffix, NEW t \in Threads, Position(t), pc[t] = "len"
  PROVE  ~Unfair(t)
<1> DEFINE S == {k \in DOMAIN admitted : now[t] - RateWindow <= admitted[k] /\ admitted[k] <= now[t]}
<1>5. IsFiniteSet(S) /\ Cardinality(S) \in Nat
  <2>1. S \subseteq (0 + 1)..Len(admitted) /\ 0 <= Len(admitted)
    BY Numbers
  <2> HIDE DEF S
  <2> QED
    BY <2>1, Numbers, CountBound
<1> SUFFICES ASSUME ~HasRoom PROVE Cardinality(S) >= RateMax
  BY <1>5, Numbers DEF Unfair, Admitted
<1>1. Len(hits) >= RateMax /\ hits # <<>>
  BY Numbers DEF HasRoom
<1>2. ~Expired(t, hits[1]) /\ hits[1] = admitted[Dropped + 1]
  BY <1>1, Numbers, HeadTailProperties DEF Position, Suffix, TypeOK
<1>3. (Dropped + 1)..Len(admitted) \subseteq S
  <2> SUFFICES ASSUME NEW k \in (Dropped + 1)..Len(admitted) PROVE k \in S
    OBVIOUS
  <2>1. Dropped \in Nat /\ k \in 1..Len(admitted) /\ Dropped + 1 \in 1..Len(admitted) /\ Dropped + 1 <= k
    BY <1>1, Numbers DEF Dropped, Suffix
  <2>2. admitted[Dropped + 1] <= admitted[k] /\ admitted[k] <= now[t]
    BY <2>1 DEF Ordered, Position, Active
  <2>3. now[t] - admitted[Dropped + 1] <= RateWindow
    BY <1>2, <2>1, Numbers DEF Expired
  <2> QED
    BY <2>1, <2>2, <2>3, Numbers, SMTT(40)
<1>4. Cardinality((Dropped + 1)..Len(admitted)) = Len(hits)
  <2>1. Dropped + 1 \in Int /\ Len(admitted) \in Int /\ Len(admitted) - (Dropped + 1) + 1 = Len(hits)
        /\ Dropped + 1 <= Len(admitted)
    BY <1>1, Numbers DEF Dropped, Suffix
  <2>2. Cardinality((Dropped + 1)..Len(admitted)) =
          IF Dropped + 1 > Len(admitted) THEN 0 ELSE Len(admitted) - (Dropped + 1) + 1
    BY <2>1, FS_Interval
  <2> QED
    BY <2>1, <2>2
<1>6. Len(hits) <= Cardinality(S)
  <2> HIDE DEF S
  <2> QED
    BY <1>3, <1>4, <1>5, FS_Subset
<1> QED
  BY <1>1, <1>5, <1>6, Numbers

\* Letting one more through while there is room fills no window beyond the limit.
LEMMA AppendKeepsWindows ==
  ASSUME TypeOK, Suffix, Gone, Windows, NEW t \in Threads, Position(t), pc[t] = "append",
         admitted' = Append(admitted, now[t])
  PROVE  Windows'
<1> DEFINE In(q, i) == {k \in DOMAIN q : i <= q[k] /\ q[k] <= i + RateWindow}
<1>0. now[t] \in Time /\ Active(t) /\ HasRoom /\ Time \subseteq Nat
  BY RateAssumption DEF Position, Active, TypeOK, Time
<1>1. /\ Len(admitted') = Len(admitted) + 1
      /\ \A k \in 1..Len(admitted) : admitted'[k] = admitted[k]
      /\ admitted'[Len(admitted) + 1] = now[t]
      /\ DOMAIN admitted' = 1..(Len(admitted) + 1)
  <2>1. /\ admitted' \in Seq(Time) /\ Len(admitted') = Len(admitted) + 1
        /\ \A k \in 1..Len(admitted) : admitted'[k] = admitted[k]
        /\ admitted'[Len(admitted) + 1] = now[t]
    BY <1>0, AppendProperties DEF TypeOK
  <2> QED
    BY <2>1
<1> SUFFICES ASSUME NEW i \in Time PROVE Cardinality(In(admitted', i)) <= RateMax
  BY DEF Windows, Admitted
<1>2. Cardinality(In(admitted, i)) <= RateMax
  BY DEF Windows, Admitted
<1>3. CASE i <= now[t] /\ now[t] <= i + RateWindow
  <2>1. In(admitted', i) \subseteq (Dropped + 1)..(Len(admitted) + 1)
    <3> SUFFICES ASSUME NEW k \in 1..(Len(admitted) + 1), i <= admitted'[k], k # Len(admitted) + 1
                 PROVE  k \in (Dropped + 1)..Len(admitted)
      BY <1>1, Numbers DEF Dropped, Suffix
    <3>1. k \in 1..Len(admitted) /\ i <= admitted[k]
      BY <1>1, Numbers
    <3>2. now[t] - admitted[k] <= RateWindow
      BY <1>0, <1>3, <3>1, Numbers
    <3> QED
      BY <1>0, <3>1, <3>2, WindowInDeque
  <2>2. Dropped \in Nat /\ Dropped <= Len(admitted) + 1 /\ Len(admitted) + 1 - Dropped <= RateMax
    BY <1>0, Numbers DEF Dropped, Suffix, HasRoom
  <2>3. Len(admitted) + 1 \in Nat
    BY Numbers
  <2>4. Cardinality(In(admitted', i)) <= Len(admitted) + 1 - Dropped
        /\ Cardinality(In(admitted', i)) \in Nat
    <3> HIDE DEF In
    <3> QED
      BY <2>1, <2>2, <2>3, CountBound
  <2>5. RateMax \in Nat /\ Len(admitted) \in Nat
    BY Numbers
  <2> HIDE DEF In
  <2> QED
    BY <2>2, <2>4, <2>5
<1>4. CASE ~(i <= now[t] /\ now[t] <= i + RateWindow)
  <2>0. Len(admitted) + 1 \notin In(admitted', i)
    BY <1>1, <1>4
  <2>1. In(admitted', i) = In(admitted, i)
    BY <1>1, <2>0, Numbers
  <2> QED
    BY <1>2, <2>1
<1> QED
  BY <1>3, <1>4

LEMMA ClockStep == ASSUME TypeOK, ClockInv, [Next]_vars PROVE ClockInv'
<1> USE Numbers DEF ClockInv
<1>1. CASE Tick
  BY <1>1 DEF Tick
<1>2. ASSUME NEW t \in Threads, Request(t) PROVE ClockInv'
  BY <1>2 DEF Request, TypeOK
<1>3. ASSUME NEW t \in Threads, AppendHit(t) PROVE ClockInv'
  <2>1. /\ Len(admitted') = Len(admitted) + 1
        /\ \A k \in 1..Len(admitted) : admitted'[k] = admitted[k]
        /\ admitted'[Len(admitted) + 1] = now[t]
    BY <1>3, AppendProperties DEF AppendHit, TypeOK
  <2> QED
    BY <1>3, <2>1 DEF AppendHit
<1>4. CASE UNCHANGED <<now, clock, admitted>>
  BY <1>4
<1> QED
  BY <1>1, <1>2, <1>3, <1>4 DEF Next, RateOk, Nonempty, ReadHead, PopLeft, CheckLen, vars

\* Steps that leave the deque alone keep what is said of the deque.
LEMMA DequeFrame == ASSUME hits' = hits, admitted' = admitted
                    PROVE  /\ Dropped' = Dropped /\ (HasRoom' <=> HasRoom)
                           /\ Suffix => Suffix'
                           /\ Ordered => Ordered'
                           /\ Windows => Windows'
BY DEF Dropped, HasRoom, Suffix, Ordered, Windows, Admitted

LEMMA LoneRequest ==
  ASSUME TypeOK, ClockInv, LoneInv, NEW t \in Threads, Request(t) PROVE LoneInv'
<1> SUFFICES ASSUME ~overlapped' PROVE LoneInv'
  BY DEF LoneInv
<1>1. /\ ~overlapped /\ (\A u \in Threads : ~Active(u)) /\ hits' = hits /\ admitted' = admitted
      /\ clock' = clock /\ unfair' = unfair /\ lost' = lost
      /\ pc'[t] = "nonempty" /\ now'[t] = clock
      /\ \A u \in Threads : u # t => pc'[u] = pc[u] /\ now'[u] = now[u]
  BY DEF Request, Goto, TypeOK, Active
<1>2. OneActive' /\ \A u \in Threads : Active(u)' => u = t
  BY <1>1 DEF OneActive, Active
<1>3. Ordered /\ Suffix /\ Gone /\ Windows /\ Decided
  BY <1>1 DEF LoneInv
<1>4. Gone'
  BY <1>1, <1>2, <1>3, DequeFrame DEF Gone
<1>5. \A u \in Threads : Position(u)'
  BY <1>1 DEF Position, ClockInv, Active
<1> QED
  BY <1>1, <1>2, <1>3, <1>4, <1>5, DequeFrame DEF LoneInv, Decided

\* A step inside _rate_ok of the only request under way.
LEMMA LoneSteps ==
  ASSUME TypeOK, ClockInv, LoneInv, NEW t \in Threads, RateOk(t), ~overlapped'
  PROVE  /\ Active(t) /\ OneActive /\ Ordered /\ Suffix /\ Gone /\ Position(t) /\ Windows /\ Decided
         /\ ~overlapped /\ clock' = clock /\ now' = now
         /\ \A u \in Threads : u # t => pc'[u] = "idle"
         /\ OneActive' /\ \A u \in Threads : Active(u)' => u = t
<1>1. Active(t) /\ ~overlapped /\ clock' = clock /\ now' = now
  BY DEF RateOk, Nonempty, ReadHead, PopLeft, CheckLen, AppendHit, Goto, Active
<1>2. \A u \in Threads : u # t => pc[u] = "idle" /\ pc'[u] = pc[u]
  BY <1>1 DEF LoneInv, OneActive, Active, RateOk, Nonempty, ReadHead, PopLeft, CheckLen, AppendHit,
     IndexError, Goto, TypeOK
<1> QED
  BY <1>1, <1>2 DEF LoneInv, OneActive, Active

LEMMA LoneLook ==
  ASSUME TypeOK, ClockInv, LoneInv, NEW t \in Threads, Nonempty(t) \/ ReadHead(t) \/ CheckLen(t)
  PROVE  LoneInv'
<1> SUFFICES ASSUME ~overlapped' PROVE LoneInv'
  BY DEF LoneInv
<1>0. RateOk(t)
  BY DEF RateOk
<1>1. /\ Active(t) /\ Ordered /\ Suffix /\ Gone /\ Position(t) /\ Windows /\ Decided
      /\ clock' = clock /\ now' = now
      /\ \A u \in Threads : u # t => pc'[u] = "idle"
      /\ OneActive' /\ \A u \in Threads : Active(u)' => u = t
  BY <1>0, LoneSteps
<1>2. hits' = hits /\ admitted' = admitted
  BY DEF Nonempty, ReadHead, CheckLen, IndexError
<1>3. Gone'
  BY <1>1, <1>2, DequeFrame DEF Gone
<1>4. (\A k \in 1..Len(admitted) : admitted[k] <= now[t])
  BY <1>1 DEF Position
<1>5. CASE Nonempty(t)
  <2>1. pc'[t] = IF hits = <<>> THEN "len" ELSE "head"
    BY <1>5 DEF Nonempty, Goto, TypeOK
  <2>2. \A u \in Threads : Position(u)'
    BY <1>1, <1>2, <1>4, <2>1 DEF Position, Active
  <2>3. Decided'
    BY <1>1, <1>5 DEF Nonempty, Decided
  <2> QED
    BY <1>1, <1>2, <1>3, <2>2, <2>3, DequeFrame DEF LoneInv
<1>6. CASE ReadHead(t)
  <2>1. hits # <<>> /\ pc[t] = "head"
    BY <1>1, <1>6 DEF ReadHead, Position
  <2>2. pc'[t] = IF Expired(t, Head(hits)) THEN "popleft" ELSE "len"
    BY <1>6, <2>1 DEF ReadHead, IndexError, TypeOK
  <2>3. lost' = lost /\ unfair' = unfair
    BY <1>6, <2>1 DEF ReadHead, IndexError
  <2>4. Expired(t, Head(hits))' <=> Expired(t, Head(hits))
    BY <1>1, <1>2 DEF Expired
  <2>5. \A u \in Threads : Position(u)'
    BY <1>1, <1>2, <1>4, <2>1, <2>2, <2>4 DEF Position, Active
  <2> QED
    BY <1>1, <1>2, <1>3, <2>3, <2>5, DequeFrame DEF LoneInv, Decided
<1>7. CASE CheckLen(t)
  <2>1. pc[t] = "len" /\ pc'[t] = IF HasRoom THEN "append" ELSE "idle"
    BY <1>7 DEF CheckLen, Goto, TypeOK
  <2>2. ~Unfair(t)
    BY <1>1, <2>1, RefusalIsFair
  <2>3. Decided'
    BY <1>1, <1>7, <2>2 DEF CheckLen, Decided
  <2>4. \A u \in Threads : Position(u)'
    BY <1>1, <1>2, <1>4, <2>1, DequeFrame DEF Position, Active
  <2> QED
    BY <1>1, <1>2, <1>3, <2>3, <2>4, DequeFrame DEF LoneInv
<1> QED
  BY <1>5, <1>6, <1>7

LEMMA LonePop == ASSUME TypeOK, ClockInv, LoneInv, NEW t \in Threads, PopLeft(t) PROVE LoneInv'
<1> SUFFICES ASSUME ~overlapped' PROVE LoneInv'
  BY DEF LoneInv
<1>0. RateOk(t)
  BY DEF RateOk
<1>1. /\ Active(t) /\ Ordered /\ Suffix /\ Gone /\ Position(t) /\ Windows /\ Decided
      /\ clock' = clock /\ now' = now
      /\ \A u \in Threads : u # t => pc'[u] = "idle"
      /\ OneActive' /\ \A u \in Threads : Active(u)' => u = t
  BY <1>0, LoneSteps
<1>2. hits # <<>> /\ Expired(t, Head(hits))
  BY <1>1 DEF PopLeft, Position
<1>3. hits' = Tail(hits) /\ admitted' = admitted /\ pc'[t] = "nonempty" /\ lost' = lost /\ unfair' = unfair
  BY <1>2 DEF PopLeft, IndexError, TypeOK
<1>4. /\ Len(hits') = Len(hits) - 1 /\ Len(hits) > 0
      /\ \A j \in 1..Len(hits') : hits'[j] = hits[j + 1]
  <2>1. hits \in Seq(Time)
    BY DEF TypeOK
  <2>2. Len(hits) > 0
    BY <1>2, <2>1
  <2> QED
    BY <1>2, <1>3, <2>1, <2>2, HeadTailProperties
<1>5. Dropped' = Dropped + 1 /\ Dropped \in Nat
  <2>1. Len(hits) \in Nat /\ Len(admitted) \in Nat /\ Len(hits) <= Len(admitted)
    BY <1>1, Numbers DEF Suffix
  <2>2. Dropped \in Nat
    BY <2>1 DEF Dropped
  <2>3. Dropped' = Len(admitted) - Len(hits')
    BY <1>3 DEF Dropped
  <2>4. Len(admitted) - Len(hits') = Len(admitted) - Len(hits) + 1
    BY <1>4, <2>1
  <2> QED
    BY <2>2, <2>3, <2>4 DEF Dropped
<1>6. Suffix'
  <2> SUFFICES ASSUME NEW j \in 1..Len(hits') PROVE hits'[j] = admitted'[Dropped' + j]
    BY <1>1, <1>3, <1>4, Numbers DEF Suffix
  <2>1. j + 1 \in 1..Len(hits)
    BY <1>4, Numbers
  <2>2. hits[j + 1] = admitted[Dropped + (j + 1)]
    BY <1>1, <2>1 DEF Suffix
  <2>3. Dropped + (j + 1) = Dropped' + j
    BY <1>5
  <2> QED
    BY <1>3, <1>4, <2>2, <2>3
<1>7. Gone'
  <2>1. now[t] - admitted[Dropped + 1] > RateWindow
    <3>1. Head(hits) = admitted[Dropped + 1]
      BY <1>1, <1>2, <1>4, Numbers DEF Suffix, TypeOK
    <3> QED
      BY <1>2, <3>1 DEF Expired
  <2>2. Dropped + 1 \in 1..Len(admitted) /\ now[t] <= clock
    BY <1>1, <1>4, <1>5, Numbers DEF Dropped, Suffix, ClockInv
  <2>3. clock - admitted[Dropped + 1] > RateWindow
    BY <2>1, <2>2, Numbers
  <2> QED
    BY <1>1, <1>3, <1>5, <2>1, <2>3 DEF Gone
<1>8. \A u \in Threads : Position(u)'
  BY <1>1, <1>3 DEF Position, Active
<1>9. Ordered' /\ Windows' /\ Decided'
  BY <1>1, <1>3 DEF Ordered, Windows, Admitted, Decided
<1> QED
  BY <1>1, <1>6, <1>7, <1>8, <1>9 DEF LoneInv

LEMMA LoneAppend == ASSUME TypeOK, ClockInv, LoneInv, NEW t \in Threads, AppendHit(t) PROVE LoneInv'
<1> SUFFICES ASSUME ~overlapped' PROVE LoneInv'
  BY DEF LoneInv
<1>0. RateOk(t)
  BY DEF RateOk
<1>1. /\ Active(t) /\ Ordered /\ Suffix /\ Gone /\ Position(t) /\ Windows /\ Decided
      /\ clock' = clock /\ now' = now
      /\ \A u \in Threads : u # t => pc'[u] = "idle"
      /\ OneActive' /\ \A u \in Threads : Active(u)' => u = t
  BY <1>0, LoneSteps
<1>2. /\ hits' = Append(hits, now[t]) /\ admitted' = Append(admitted, now[t])
      /\ pc[t] = "append" /\ pc'[t] = "idle" /\ lost' = lost /\ unfair' = unfair
  BY DEF AppendHit, Goto, TypeOK
<1>3. /\ Len(hits') = Len(hits) + 1 /\ hits'[Len(hits) + 1] = now[t]
      /\ \A j \in 1..Len(hits) : hits'[j] = hits[j]
  BY <1>2, AppendProperties DEF TypeOK
<1>4. /\ Len(admitted') = Len(admitted) + 1 /\ admitted'[Len(admitted) + 1] = now[t]
      /\ \A k \in 1..Len(admitted) : admitted'[k] = admitted[k]
  BY <1>2, AppendProperties DEF TypeOK
<1>5. Dropped' = Dropped /\ Dropped \in Nat /\ Dropped + Len(hits) = Len(admitted)
  BY <1>1, <1>3, <1>4, Numbers DEF Dropped, Suffix
<1>6. Suffix'
  <2> SUFFICES ASSUME NEW j \in 1..Len(hits') PROVE hits'[j] = admitted'[Dropped + j]
    BY <1>1, <1>3, <1>4, <1>5, Numbers DEF Suffix
  <2>1. CASE j = Len(hits) + 1
    <3>0. Len(hits) \in Nat /\ Len(admitted) \in Nat
      BY Numbers
    <3>1. Dropped + j = Len(admitted) + 1
      BY <1>5, <2>1, <3>0
    <3> QED
      BY <1>3, <1>4, <2>1, <3>1
  <2>2. CASE j # Len(hits) + 1
    <3>1. j \in 1..Len(hits) /\ Dropped + j \in 1..Len(admitted)
      BY <1>3, <1>5, <2>2, Numbers
    <3> QED
      BY <1>1, <1>3, <1>4, <3>1 DEF Suffix
  <2> QED
    BY <2>1, <2>2
<1>7. Gone'
  <2>1. \A k \in 1..Dropped : admitted'[k] = admitted[k]
    BY <1>4, <1>5, Numbers
  <2> QED
    BY <1>1, <1>5, <2>1 DEF Gone
<1>8. Ordered'
  <2>1. \A k \in 1..Len(admitted) : admitted[k] <= now[t]
    BY <1>1 DEF Position
  <2>2. Len(admitted) \in Nat /\ now[t] \in Nat
    BY Numbers
  <2> SUFFICES ASSUME NEW j \in 1..(Len(admitted) + 1), NEW k \in 1..(Len(admitted) + 1), j <= k
               PROVE  admitted'[j] <= admitted'[k]
    BY <1>4 DEF Ordered
  <2>3. CASE k \in 1..Len(admitted)
    <3>1. j \in 1..Len(admitted)
      BY <2>2, <2>3
    <3> QED
      BY <1>1, <1>4, <2>3, <3>1 DEF Ordered
  <2>4. CASE k = Len(admitted) + 1 /\ j \in 1..Len(admitted)
    BY <1>4, <2>1, <2>4
  <2>5. CASE j = Len(admitted) + 1 /\ k = Len(admitted) + 1
    BY <1>4, <2>2, <2>5
  <2> QED
    BY <2>2, <2>3, <2>4, <2>5
<1>9. Windows'
  BY <1>1, <1>2, AppendKeepsWindows
<1>10. (\A u \in Threads : Position(u)') /\ Decided'
  BY <1>1, <1>2 DEF Position, Active, Decided
<1> QED
  BY <1>1, <1>6, <1>7, <1>8, <1>9, <1>10 DEF LoneInv

LEMMA LoneStep == ASSUME TypeOK, ClockInv, LoneInv, [Next]_vars PROVE LoneInv'
<1>1. CASE Tick
  <2> SUFFICES ASSUME ~overlapped' PROVE LoneInv'
    BY DEF LoneInv
  <2>1. /\ OneActive /\ Ordered /\ Suffix /\ Gone /\ (\A t \in Threads : Position(t)) /\ Windows /\ Decided
        /\ UNCHANGED <<hits, pc, now, admitted, lost, unfair>> /\ clock' = clock + 1
    BY <1>1 DEF Tick, LoneInv
  <2>2. Gone'
    <3>1. Dropped \in Int /\ \A k \in 1..Dropped : k \in 1..Len(admitted)
      BY <2>1, Numbers DEF Dropped, Suffix
    <3> QED
      BY <2>1, <3>1, DequeFrame, Numbers DEF Gone, Active
  <2>3. \A t \in Threads : Position(t)'
    BY <2>1 DEF Position, Active, Expired, HasRoom
  <2> QED
    BY <2>1, <2>2, <2>3, DequeFrame DEF LoneInv, OneActive, Active, Decided
<1>2. CASE UNCHANGED vars
  BY <1>2 DEF vars, LoneInv, OneActive, Active, Ordered, Suffix, Gone, Dropped, Position, Expired, HasRoom,
     Windows, Admitted, Decided
<1> QED
  BY <1>1, <1>2, LoneRequest, LoneLook, LonePop, LoneAppend DEF Next, RateOk
------------------------------------------------------------------------------
(* The server: the limiter's steps, or a restart. *)

LEMMA LimiterOrRestart ==
  ASSUME [ServerNext]_serverVars
  PROVE  [Next]_vars \/ Restart
BY DEF ServerNext, serverVars, Arrive, Receive, Serve, Limit, LetThrough, Reject, Grade, GradeUnlogged, Leave,
   Next, RateOk

\* Restart forgets what the limiter knew.
LEMMA RestartForgets ==
  ASSUME TypeOK, QueueBound, ClockInv, LoneInv, Restart
  PROVE  TypeOK' /\ QueueBound' /\ ClockInv' /\ LoneInv'
<1>1. /\ hits' = <<>> /\ admitted' = <<>> /\ pc' = [t \in Threads |-> "idle"]
      /\ now' = [t \in Threads |-> 0] /\ UNCHANGED <<clock, lost, unfair, overlapped>>
  BY DEF Restart
<1>2. 0 \in Time /\ RateMax \in Nat \ {0} /\ \A i \in Time : i >= 0
  BY RateAssumption DEF Time
<1>3. Len(hits') = 0 /\ Len(admitted') = 0 /\ hits' \in Seq(Time) /\ admitted' \in Seq(Time)
  BY <1>1
<1>4. TypeOK'
  BY <1>1, <1>2, <1>3 DEF TypeOK, Steps
<1>5. QueueBound'
  <2>1. Passed' = {}
    BY <1>1 DEF Passed
  <2>2. Cardinality(Passed') = 0 /\ Cardinality(Threads) # 0 /\ Cardinality(Threads) \in Nat
    BY <2>1, ThreadAssumption, FS_EmptySet, FS_CardinalityType
  <2> QED
    BY <1>2, <1>3, <2>2 DEF QueueBound
<1>6. ClockInv'
  BY <1>1, <1>2, <1>3 DEF ClockInv, TypeOK
<1>7. LoneInv'
  <2> SUFFICES ASSUME ~overlapped' PROVE LoneInv'
    BY DEF LoneInv
  <2>1. Decided'
    BY <1>1 DEF LoneInv, Decided
  <2>2. Windows'
    <3> SUFFICES ASSUME NEW i \in Time PROVE Admitted(i, i + RateWindow)' <= RateMax
      BY DEF Windows
    <3>1. DOMAIN admitted' = {}
      BY <1>1
    <3>2. Admitted(i, i + RateWindow)' = Cardinality({})
      BY <3>1 DEF Admitted
    <3> QED
      BY <1>2, <3>2, FS_EmptySet
  <2>3. OneActive' /\ \A t \in Threads : ~Active(t)' /\ Position(t)'
    BY <1>1 DEF OneActive, Active, Position
  <2>4. Ordered' /\ Suffix' /\ Gone'
    BY <1>3 DEF Ordered, Suffix, Gone, Dropped
  <2> QED
    BY <2>1, <2>2, <2>3, <2>4 DEF LoneInv
<1> QED
  BY <1>4, <1>5, <1>6, <1>7

\* The limiter's inductive invariant.
LimiterInv == TypeOK /\ QueueBound /\ ClockInv /\ LoneInv

LEMMA InitLimiterInv == Init => LimiterInv
<1> SUFFICES ASSUME Init PROVE LimiterInv
  OBVIOUS
<1>1. /\ hits = <<>> /\ admitted = <<>> /\ Len(admitted) = 0 /\ Len(hits) = 0 /\ clock = 0
      /\ ~unfair /\ ~lost /\ \A t \in Threads : pc[t] = "idle" /\ now[t] = 0
  BY DEF Init
<1>2. Windows
  <2>1. DOMAIN admitted = {}
    BY <1>1
  <2>2. \A i \in Time : Admitted(i, i + RateWindow) = Cardinality({})
    BY <2>1 DEF Admitted
  <2> QED
    BY <2>2, FS_EmptySet, RateAssumption DEF Windows
<1>3. ClockInv
  BY <1>1 DEF ClockInv
<1>4. LoneInv
  BY <1>1, <1>2 DEF LoneInv, OneActive, Active, Ordered, Suffix, Gone, Dropped, Position, Decided
<1> QED
  BY <1>3, <1>4, InitType, InitBound DEF LimiterInv

LEMMA StepLimiterInv == LimiterInv /\ [Next]_vars => LimiterInv'
BY TypeStep, BoundStep, ClockStep, LoneStep DEF LimiterInv

THEOREM LimiterInvariance == ServerSpec => []LimiterInv
<1>1. ServerInit => LimiterInv
  BY InitLimiterInv DEF ServerInit
<1>2. LimiterInv /\ [ServerNext]_serverVars => LimiterInv'
  BY LimiterOrRestart, StepLimiterInv, RestartForgets DEF LimiterInv
<1> QED
  BY <1>1, <1>2, PTL DEF ServerSpec

\* As QueueBounded, with everything around the limiter and with restarts.
THEOREM ServerQueueBounded == ServerSpec => []QueueBound
<1>1. LimiterInv => QueueBound
  BY DEF LimiterInv
<1> QED
  BY <1>1, LimiterInvariance, PTL

\* scan_server.py, _rate_ok: while the requests of a client come one after the
\* other, no window of the given length holds more scans than the limit.
THEOREM WindowsLimited == ServerSpec => []WindowLimit
<1>1. LimiterInv => WindowLimit
  BY DEF LimiterInv, LoneInv, Windows, WindowLimit
<1> QED
  BY <1>1, LimiterInvariance, PTL

\* ... none of them is refused before the limit is reached, and none dies.
THEOREM LoneDecided == ServerSpec => []LoneRequestsDecided
<1>1. LimiterInv => LoneRequestsDecided
  BY DEF LimiterInv, LoneInv, Decided, LoneRequestsDecided
<1> QED
  BY <1>1, LimiterInvariance, PTL
------------------------------------------------------------------------------
(* The statistics: a failed write loses its own record, or leaves it to be *)
(* lost, and leaves at most one unfinished line, which takes the next      *)
(* record with it.                                                         *)

Stages == {"free", "reading", "serving"}
ServerTypeOK == /\ stage \in [Threads -> Stages]
                /\ log \in [tail : Tails, missing : Nat]
                /\ failed \in Nat

\* Glued counts what a next record would add to those missing by now.
StatsInv == failed <= log.missing + Unended /\ log.missing + Glued <= 2 * failed

LEMMA LogFacts ==
  ASSUME ServerTypeOK
  PROVE  /\ log.tail \in Tails /\ log.missing \in Nat /\ failed \in Nat
         /\ log = [tail |-> log.tail, missing |-> log.missing]
         /\ Unended \in {0, 1} /\ Glued \in {0, 1, 2}
         /\ log.tail = "line" => Unended = 0 /\ Glued = 0
         /\ log.tail = "part" => Unended = 0 /\ Glued = 1
         /\ log.tail = "whole" => Unended = 1 /\ Glued = 2
<1>1. log.tail \in Tails /\ log.missing \in Nat /\ failed \in Nat
      /\ log = [tail |-> log.tail, missing |-> log.missing]
  BY DEF ServerTypeOK
<1>2. Unended = IF log.tail = "whole" THEN 1 ELSE 0
  BY DEF Unended
<1>3. Glued = IF log.tail = "line" THEN 0 ELSE 1 + Unended
  BY DEF Glued
<1> QED
  BY <1>1, <1>2, <1>3 DEF Tails

\* The same of the next log, given its two fields.
LEMMA NextLogFacts ==
  ASSUME NEW l \in Tails, NEW m \in Nat, log' = [tail |-> l, missing |-> m]
  PROVE  /\ log' \in [tail : Tails, missing : Nat] /\ log'.missing = m
         /\ l = "line" => Unended' = 0 /\ Glued' = 0
         /\ l = "part" => Unended' = 0 /\ Glued' = 1
         /\ l = "whole" => Unended' = 1 /\ Glued' = 2
<1>1. log'.tail = l /\ log'.missing = m /\ log' \in [tail : Tails, missing : Nat]
  OBVIOUS
<1>2. Unended' = IF l = "whole" THEN 1 ELSE 0
  BY <1>1 DEF Unended
<1>3. Glued' = IF l = "line" THEN 0 ELSE 1 + Unended'
  BY <1>1 DEF Glued
<1> QED
  BY <1>1, <1>2, <1>3

LEMMA LoseKeepsStats ==
  ASSUME ServerTypeOK, StatsInv, NEW n \in Nat, NEW piece \in Pieces, piece # "none" => n >= 1,
         log' = Lose(n, piece), failed' = failed + n
  PROVE  log' \in [tail : Tails, missing : Nat] /\ failed' \in Nat /\ StatsInv'
<1>0. failed' \in Nat /\ failed <= log.missing + Unended /\ log.missing + Glued <= 2 * failed
  BY LogFacts DEF StatsInv
<1>1. CASE piece = "none"
  <2>1. log' = [tail |-> log.tail, missing |-> log.missing + n]
    BY <1>1, LogFacts DEF Lose
  <2>2. log.missing + n \in Nat /\ log.tail \in Tails
    BY LogFacts
  <2>3. /\ log' \in [tail : Tails, missing : Nat] /\ log'.missing = log.missing + n
        /\ Unended' = Unended /\ Glued' = Glued
    BY <2>1, <2>2, LogFacts, NextLogFacts DEF Tails
  <2>4. failed + n <= log.missing + n + Unended /\ log.missing + n + Glued <= 2 * (failed + n)
    BY <1>0, LogFacts
  <2> QED
    BY <1>0, <2>3, <2>4 DEF StatsInv
<1>2. CASE piece = "whole" /\ log.tail = "line"
  <2>1. log' = [tail |-> "whole", missing |-> log.missing + n - 1] /\ log.missing + n - 1 \in Nat
    BY <1>2, LogFacts DEF Lose
  <2>2. /\ log' \in [tail : Tails, missing : Nat] /\ log'.missing = log.missing + n - 1
        /\ Unended' = 1 /\ Glued' = 2
    BY <2>1, NextLogFacts DEF Tails
  <2>3. failed + n <= log.missing + n - 1 + 1 /\ log.missing + n - 1 + 2 <= 2 * (failed + n)
    BY <1>0, <1>2, LogFacts
  <2> QED
    BY <1>0, <2>2, <2>3 DEF StatsInv
<1>3. CASE piece # "none" /\ ~(piece = "whole" /\ log.tail = "line")
  <2>1. log' = [tail |-> "part", missing |-> log.missing + n + Unended]
        /\ log.missing + n + Unended \in Nat
    BY <1>3, LogFacts DEF Lose
  <2>2. /\ log' \in [tail : Tails, missing : Nat] /\ log'.missing = log.missing + n + Unended
        /\ Unended' = 0 /\ Glued' = 1
    BY <2>1, NextLogFacts DEF Tails
  <2>3. failed + n <= log.missing + n + Unended + 0
        /\ log.missing + n + Unended + 1 <= 2 * (failed + n)
    BY <1>0, <1>3, LogFacts DEF Tails
  <2> QED
    BY <1>0, <2>2, <2>3 DEF StatsInv
<1> QED
  BY <1>1, <1>2, <1>3

LEMMA StatsStep == ServerTypeOK /\ StatsInv /\ [ServerNext]_serverVars => ServerTypeOK' /\ StatsInv'
<1> SUFFICES ASSUME ServerTypeOK, StatsInv, [ServerNext]_serverVars PROVE ServerTypeOK' /\ StatsInv'
  OBVIOUS
<1>1. ASSUME UNCHANGED <<log, failed>>, stage' \in [Threads -> Stages]
      PROVE  ServerTypeOK' /\ StatsInv'
  BY <1>1 DEF ServerTypeOK, StatsInv, Glued, Unended
<1>2. CASE UNCHANGED serverVars
  BY <1>1, <1>2 DEF serverVars, ServerTypeOK
<1>3. CASE Tick /\ UNCHANGED <<stage, log, failed, faults>>
  BY <1>1, <1>3 DEF ServerTypeOK
<1>4. ASSUME NEW t \in Threads, Arrive(t) \/ Limit(t) \/ LetThrough(t) \/ Receive(t) \/ Reject(t)
      PROVE  ServerTypeOK' /\ StatsInv'
  <2>1. UNCHANGED <<log, failed>> /\ stage' \in [Threads -> Stages]
    BY <1>4 DEF Arrive, Limit, LetThrough, Receive, Reject, Leave, ServerTypeOK, Stages
  <2> QED
    BY <1>1, <2>1
<1>5. ASSUME NEW t \in Threads, Grade(t) PROVE ServerTypeOK' /\ StatsInv'
  <2>1. log' = AppendLine /\ failed' = failed /\ stage' \in [Threads -> Stages]
    BY <1>5 DEF Grade, Leave, ServerTypeOK, Stages
  <2>2. log' = [tail |-> "line", missing |-> log.missing + Glued] /\ log.missing + Glued \in Nat
    BY <2>1, LogFacts DEF AppendLine
  <2>3. /\ log' \in [tail : Tails, missing : Nat] /\ log'.missing = log.missing + Glued
        /\ Unended' = 0 /\ Glued' = 0
    BY <2>2, NextLogFacts DEF Tails
  <2>4. failed <= log.missing + Glued + 0 /\ log.missing + Glued + 0 <= 2 * failed
    BY LogFacts DEF StatsInv, Tails
  <2>5. StatsInv'
    BY <2>1, <2>3, <2>4 DEF StatsInv
  <2> QED
    BY <2>1, <2>3, <2>5, LogFacts DEF ServerTypeOK
<1>6. ASSUME NEW t \in Threads, GradeUnlogged(t) PROVE ServerTypeOK' /\ StatsInv'
  <2>1. PICK piece \in Pieces : log' = Lose(1, piece) /\ failed' = failed + 1
    BY <1>6 DEF GradeUnlogged
  <2>2. stage' \in [Threads -> Stages]
    BY <1>6 DEF GradeUnlogged, Leave, ServerTypeOK, Stages
  <2> QED
    BY <2>1, <2>2, LoseKeepsStats DEF ServerTypeOK
<1>7. CASE Restart
  <2>1. PICK writing \in SUBSET {t \in Threads : stage[t] = "serving"}, piece \in Pieces :
               /\ piece # "none" => writing # {}
               /\ log' = Lose(Cardinality(writing), piece) /\ failed' = failed + Cardinality(writing)
               /\ stage' = [t \in Threads |-> "free"]
    BY <1>7 DEF Restart
  <2>2. IsFiniteSet(writing) /\ Cardinality(writing) \in Nat
    BY ThreadAssumption, FS_Subset, FS_CardinalityType
  <2>3. piece # "none" => Cardinality(writing) >= 1
    BY <2>1, <2>2, FS_EmptySet
  <2>4. stage' \in [Threads -> Stages]
    BY <2>1 DEF Stages
  <2> QED
    BY <2>1, <2>2, <2>3, <2>4, LoseKeepsStats DEF ServerTypeOK
<1> QED
  BY <1>2, <1>3, <1>4, <1>5, <1>6, <1>7 DEF ServerNext, Serve

\* scan_server.py, _anon_log and stats: no scan is counted whose record was not
\* written, but at most one that lacks only its newline, and a failed write costs
\* at most two records.
THEOREM StatsCounted == ServerSpec => []StatsCount
<1>1. ServerInit => ServerTypeOK /\ StatsInv
  <2>1. Stages = {"free", "reading", "serving"} /\ "line" \in Tails
    BY DEF Stages, Tails
  <2> QED
    BY <2>1 DEF ServerInit, ServerTypeOK, StatsInv, Glued, Unended
<1>2. ServerTypeOK /\ StatsInv => StatsCount
  BY LogFacts DEF StatsInv, StatsCount
<1> QED
  BY <1>1, <1>2, StatsStep, PTL DEF ServerSpec
==============================================================================
