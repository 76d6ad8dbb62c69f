-------------------------- MODULE RuleClientProofs --------------------------
(***************************************************************************)
(* Theorems about RuleClient, for any number of processes, versions, pins, *)
(* commands and crashes.                                                   *)
(***************************************************************************)
EXTENDS RuleClient, TLAPS

\* Floors only ever come from the pins or lie above them.
FloorInv == \A p \in Procs : floor[p] >= PinnedFloor

\* From its acceptance until the command is over, a process carries a bundle
\* that was vetted against the floor it read.
CarryInv == \A p \in Procs :
              Answered(p) \/ pc[p] \in {"store", "storing"} =>
                bundle[p] \in vetted /\ bundle[p].version >= floor[p]

\* As long as nobody else wrote the file since p read its floor, p's floor or
\* its bundle bounds what the file holds, and the file p truncated stays empty.
RaceInv == \A p \in Procs : ~raced[p] =>
  /\ pc[p] \in {"source", "cache", "store"} /\ cache \in Bundle
       => floor[p] >= cache.version
  /\ pc[p] \in {"storing", "dumping"} => cache = Empty
  /\ pc[p] \in {"returned", "dump"} /\ cache \in Bundle
       => bundle[p].version >= cache.version

IInv == /\ TypeOK
        /\ FloorInv
        /\ vetted \subseteq Trusted
        /\ CarryInv
        /\ RefusalIsFinal
        /\ RaceInv

LEMMA PinFacts == /\ PinnedFloor \in Versions
                  /\ PinnedFloor \in Nat /\ PinnedFloor # 0
                  /\ Versions \subseteq Nat
BY VersionAssumption DEF PinnedFloor, Max2, Versions

LEMMA FloorFacts == ASSUME TypeOK
                    PROVE  /\ TrustedFloor \in Versions
                           /\ TrustedFloor >= PinnedFloor
                           /\ cache \in Bundle => TrustedFloor >= cache.version
<1>1. ASSUME cache \in Bundle PROVE cache.version \in Nat /\ cache.version \in Versions
  BY <1>1, PinFacts DEF Bundle
<1> QED
  BY <1>1, PinFacts DEF TrustedFloor, Max2

LEMMA InitInv == Init => IInv
<1> SUFFICES ASSUME Init PROVE IInv
  OBVIOUS
<1> USE PinFacts
<1>1. TypeOK
  BY RunAssumption DEF Init, TypeOK, CacheContents, Steps, Modes
<1>2. FloorInv
  BY DEF Init, FloorInv
<1>3. vetted \subseteq Trusted
  BY DEF Init, Trusted
<1>4. CarryInv /\ RefusalIsFinal /\ RaceInv
  BY DEF Init, CarryInv, Answered, RefusalIsFinal, RaceInv
<1> QED
  BY <1>1, <1>2, <1>3, <1>4 DEF IInv

\* Every step but the acceptance of a bundle leaves vetted alone, and the
\* accepted bundle passed both checks.
LEMMA AcceptFacts ==
  ASSUME IInv, NEW p \in Procs, NEW b \in Bundle, NEW next \in Steps,
         Vet(p, b, next), pc[p] \in {"source", "cache"},
         next \in {"store", "returned"}
  PROVE  \/ /\ pc'      = [pc EXCEPT ![p] = "stopped"]
            /\ refused' = [refused EXCEPT ![p] = TRUE]
            /\ UNCHANGED <<bundle, vetted>>
         \/ /\ pc'     = [pc EXCEPT ![p] = next]
            /\ bundle' = [bundle EXCEPT ![p] = b]
            /\ vetted' = vetted \cup {b}
            /\ UNCHANGED refused
            /\ b.version >= floor[p]
            /\ b \in Trusted
            /\ ~refused[p]
<1>1. CASE ~Accepts(b, floor[p])
  BY <1>1 DEF Vet, Refuse
<1>2. CASE Accepts(b, floor[p])
  <2>1. Accept(p, b, next)
    BY <1>2 DEF Vet
  <2>2. b.version \in Nat /\ floor[p] \in Nat /\ floor[p] >= PinnedFloor
    BY PinFacts DEF Bundle, IInv, TypeOK, FloorInv
  <2>3. b.version >= floor[p] /\ b.version # 0 /\ Verify(b)
    BY <1>2 DEF Accepts, FreshEnough
  <2>4. b \in Trusted
    BY <2>2, <2>3, PinFacts DEF Trusted, Accepts, FreshEnough
  <2>5. ~refused[p]
    BY DEF IInv, RefusalIsFinal
  <2> QED
    BY <2>1, <2>3, <2>4, <2>5 DEF Accept
<1> QED
  BY <1>1, <1>2

\* The effect of one read of a source, whichever it is.
ReadEffect(p) ==
  \/ /\ pc'      = [pc EXCEPT ![p] = "stopped"]
     /\ refused' = [refused EXCEPT ![p] = TRUE]
     /\ UNCHANGED <<bundle, vetted>>
  \/ /\ pc' = [pc EXCEPT ![p] = "stopped"]
     /\ UNCHANGED <<bundle, refused, vetted>>
  \/ /\ pc' = [pc EXCEPT ![p] = "cache"]
     /\ pc[p] = "source"
     /\ UNCHANGED <<bundle, refused, vetted>>
  \/ \E b \in Trusted :
       /\ \/ pc' = [pc EXCEPT ![p] = "store"]
          \/ pc' = [pc EXCEPT ![p] = "returned"] /\ b = cache
       /\ bundle' = [bundle EXCEPT ![p] = b]
       /\ vetted' = vetted \cup {b}
       /\ UNCHANGED refused
       /\ b.version >= floor[p]

ReadSource(p) == ReadLocal(p) \/ ReadRemote(p) \/ ReadCache(p)

LEMMA ReadFacts ==
  ASSUME IInv, NEW p \in Procs, ReadSource(p)
  PROVE  /\ ReadEffect(p)
         /\ pc[p] \in {"source", "cache"} /\ ~refused[p]
         /\ UNCHANGED <<cache, mode, floor, runs, raced>>
<1>0. pc[p] \in {"source", "cache"} /\ ~refused[p]
  BY DEF ReadSource, ReadLocal, ReadRemote, ReadCache, IInv, RefusalIsFinal
<1>1. UNCHANGED <<cache, mode, floor, runs, raced>>
  BY DEF ReadSource, ReadLocal, ReadRemote, ReadCache
<1>2. "store" \in Steps /\ "returned" \in Steps
  BY DEF Steps
<1>3. ASSUME ReadLocal(p) PROVE ReadEffect(p)
  <2>1. CASE \E b \in Bundle : Vet(p, b, "store")
    BY <2>1, <1>0, <1>2, AcceptFacts DEF ReadEffect
  <2>2. CASE Fail(p, "stopped")
    BY <2>2 DEF Fail, ReadEffect
  <2> QED
    BY <1>3, <2>1, <2>2 DEF ReadLocal
<1>4. ASSUME ReadRemote(p) PROVE ReadEffect(p)
  <2>1. CASE \E b \in Bundle : Vet(p, b, "store")
    BY <2>1, <1>0, <1>2, AcceptFacts DEF ReadEffect
  <2>2. CASE Fail(p, "cache")
    BY <2>2, <1>4 DEF Fail, ReadEffect, ReadRemote
  <2> QED
    BY <1>4, <2>1, <2>2 DEF ReadRemote
<1>5. ASSUME ReadCache(p) PROVE ReadEffect(p)
  <2>1. CASE cache = Missing
    <3>1. Refuse(p)
      BY <1>5, <2>1, ValueAssumption DEF ReadCache
    <3> QED
      BY <3>1 DEF Refuse, ReadEffect
  <2>2. CASE cache \in Bundle
    <3>1. Vet(p, cache, "returned")
      BY <1>5, <2>2, ValueAssumption DEF ReadCache
    <3> QED
      BY <3>1, <2>2, <1>0, <1>2, AcceptFacts DEF ReadEffect
  <2>3. CASE cache \in {Empty, Garbage}
    <3>1. Fail(p, "stopped")
      BY <1>5, <2>3, ValueAssumption DEF ReadCache
    <3> QED
      BY <3>1 DEF Fail, ReadEffect
  <2> QED
    BY <2>1, <2>2, <2>3 DEF IInv, TypeOK, CacheContents
<1> QED
  BY <1>0, <1>1, <1>3, <1>4, <1>5 DEF ReadSource

LEMMA NextCases ==
  Next => \E p \in Procs : \/ Start(p) \/ ReadFloor(p) \/ ReadSource(p)
                           \/ OpenForWrite(p) \/ WriteText(p) \/ UseAnswer(p)
                           \/ Exit(p) \/ Crash(p)
BY DEF Next, Fetch, ReadSource

LEMMA TypeStep == IInv /\ [Next]_vars => TypeOK'
<1> SUFFICES ASSUME IInv, [Next]_vars PROVE TypeOK'
  OBVIOUS
<1> USE DEF TypeOK, Steps, IInv
<1>1. ASSUME NEW p \in Procs, Start(p) PROVE TypeOK'
  BY <1>1, RunAssumption DEF Start, Goto
<1>2. ASSUME NEW p \in Procs, ReadFloor(p) PROVE TypeOK'
  BY <1>2, FloorFacts DEF ReadFloor, Goto
<1>3. ASSUME NEW p \in Procs, ReadSource(p) PROVE TypeOK'
  <2>1. ReadEffect(p) /\ UNCHANGED <<cache, mode, floor, runs, raced>>
    BY <1>3, ReadFacts
  <2> QED
    BY <2>1 DEF ReadEffect, Trusted
<1>4. ASSUME NEW p \in Procs, OpenForWrite(p) PROVE TypeOK'
  BY <1>4 DEF OpenForWrite, Goto, Touch, CacheContents
<1>5. ASSUME NEW p \in Procs, WriteText(p) PROVE TypeOK'
  <2>1. bundle[p] \in Bundle
    BY <1>5 DEF WriteText, Goto, CarryInv, Answered, Trusted
  <2> QED
    BY <1>5, <2>1 DEF WriteText, Goto, Touch, CacheContents
<1>6. ASSUME NEW p \in Procs, UseAnswer(p) PROVE TypeOK'
  BY <1>6 DEF UseAnswer
<1>7. ASSUME NEW p \in Procs, Exit(p) PROVE TypeOK'
  BY <1>7 DEF Exit, Goto
<1>8. ASSUME NEW p \in Procs, Crash(p) PROVE TypeOK'
  BY <1>8 DEF Crash
<1>9. CASE UNCHANGED vars
  BY <1>9 DEF vars
<1> QED
  BY <1>1, <1>2, <1>3, <1>4, <1>5, <1>6, <1>7, <1>8, <1>9, NextCases

LEMMA VettedStep == IInv /\ [Next]_vars => FloorInv' /\ vetted' \subseteq Trusted
<1> SUFFICES ASSUME IInv, [Next]_vars PROVE FloorInv' /\ vetted' \subseteq Trusted
  OBVIOUS
<1> USE DEF IInv, FloorInv
<1>1. ASSUME NEW p \in Procs, ReadFloor(p) PROVE FloorInv' /\ vetted' \subseteq Trusted
  BY <1>1, FloorFacts, PinFacts DEF ReadFloor, TypeOK
<1>2. ASSUME NEW p \in Procs, ReadSource(p) PROVE FloorInv' /\ vetted' \subseteq Trusted
  BY <1>2, ReadFacts DEF ReadEffect
<1>3. ASSUME NEW p \in Procs,
             Start(p) \/ OpenForWrite(p) \/ WriteText(p) \/ UseAnswer(p) \/ Exit(p) \/ Crash(p)
      PROVE  FloorInv' /\ vetted' \subseteq Trusted
  BY <1>3 DEF Start, OpenForWrite, WriteText, UseAnswer, Exit, Crash
<1>4. CASE UNCHANGED vars
  BY <1>4 DEF vars
<1> QED
  BY <1>1, <1>2, <1>3, <1>4, NextCases

LEMMA CarryStep == IInv /\ [Next]_vars => CarryInv' /\ RefusalIsFinal'
<1> SUFFICES ASSUME IInv, [Next]_vars, NEW q \in Procs
             PROVE  /\ (Answered(q) \/ pc[q] \in {"store", "storing"} =>
                          bundle[q] \in vetted /\ bundle[q].version >= floor[q])'
                    /\ (refused[q] => pc[q] \in {"stopped", "idle"})'
  BY DEF CarryInv, RefusalIsFinal
<1> USE DEF IInv, CarryInv, RefusalIsFinal, Answered, TypeOK
<1> DEFINE Goal == /\ (Answered(q) \/ pc[q] \in {"store", "storing"} =>
                          bundle[q] \in vetted /\ bundle[q].version >= floor[q])'
                   /\ (refused[q] => pc[q] \in {"stopped", "idle"})'
<1>1. ASSUME NEW p \in Procs, Start(p) PROVE Goal
  BY <1>1 DEF Start, Goto
<1>2. ASSUME NEW p \in Procs, ReadFloor(p) PROVE Goal
  BY <1>2 DEF ReadFloor, Goto
<1>3. ASSUME NEW p \in Procs, ReadSource(p) PROVE Goal
  BY <1>3, ReadFacts DEF ReadEffect
<1>4. ASSUME NEW p \in Procs, OpenForWrite(p) PROVE Goal
  BY <1>4 DEF OpenForWrite, Goto
<1>5. ASSUME NEW p \in Procs, WriteText(p) PROVE Goal
  BY <1>5 DEF WriteText, Goto
<1>6. ASSUME NEW p \in Procs, UseAnswer(p) PROVE Goal
  BY <1>6 DEF UseAnswer
<1>7. ASSUME NEW p \in Procs, Exit(p) \/ Crash(p) PROVE Goal
  BY <1>7 DEF Exit, Goto, Crash
<1>8. CASE UNCHANGED vars
  BY <1>8 DEF vars
<1> QED
  BY <1>1, <1>2, <1>3, <1>4, <1>5, <1>6, <1>7, <1>8, NextCases

LEMMA RaceStep == IInv /\ [Next]_vars => RaceInv'
<1> DEFINE Safe(q) == ~raced[q] =>
             /\ pc[q] \in {"source", "cache", "store"} /\ cache \in Bundle
                  => floor[q] >= cache.version
             /\ pc[q] \in {"storing", "dumping"} => cache = Empty
             /\ pc[q] \in {"returned", "dump"} /\ cache \in Bundle
                  => bundle[q].version >= cache.version
<1> SUFFICES ASSUME IInv, [Next]_vars, NEW q \in Procs PROVE Safe(q)'
  BY DEF RaceInv
<1>0. Safe(q)
  BY DEF IInv, RaceInv
<1> USE DEF TypeOK, IInv
<1>1. ASSUME NEW p \in Procs, Start(p) PROVE Safe(q)'
  BY <1>1, <1>0 DEF Start, Goto
<1>2. ASSUME NEW p \in Procs, ReadFloor(p) PROVE Safe(q)'
  BY <1>2, <1>0, FloorFacts DEF ReadFloor, Goto
<1>3. ASSUME NEW p \in Procs, ReadSource(p) PROVE Safe(q)'
  <2>1. ReadEffect(p) /\ UNCHANGED <<cache, floor, raced>> /\ pc[p] \in {"source", "cache"}
    BY <1>3, ReadFacts
  <2>2. CASE \E b \in Trusted : /\ pc' = [pc EXCEPT ![p] = "returned"] /\ b = cache
                                /\ bundle' = [bundle EXCEPT ![p] = b]
    <3>1. cache \in Bundle => cache.version \in Nat
      BY PinFacts DEF Bundle
    <3> QED
      BY <2>1, <2>2, <3>1, <1>0 DEF Trusted
  <2>3. CASE /\ bundle' = bundle
             /\ \/ pc' = [pc EXCEPT ![p] = "stopped"]
                \/ pc' = [pc EXCEPT ![p] = "cache"]
    BY <2>1, <2>3, <1>0
  <2>4. CASE \E b \in Trusted : /\ pc' = [pc EXCEPT ![p] = "store"]
                                /\ bundle' = [bundle EXCEPT ![p] = b]
    BY <2>1, <2>4, <1>0
  <2> QED
    BY <2>1, <2>2, <2>3, <2>4 DEF ReadEffect
<1>4. ASSUME NEW p \in Procs, OpenForWrite(p) PROVE Safe(q)'
  BY <1>4, <1>0, ValueAssumption DEF OpenForWrite, Goto, Touch
<1>5. ASSUME NEW p \in Procs, WriteText(p) PROVE Safe(q)'
  <2>1. bundle[p] \in Bundle
    BY <1>5 DEF WriteText, Goto, CarryInv, Answered, Trusted
  <2>2. bundle[p].version \in Nat
    BY <2>1, PinFacts DEF Bundle
  <2>3. CASE q # p
    BY <1>5, <2>3 DEF WriteText, Touch
  <2>4. CASE q = p
    <3>1. ~raced[p] => cache = Empty
      BY <1>5, <1>0, <2>4 DEF WriteText, Goto
    <3>2. ~raced[p] => cache' = bundle[p]
      BY <1>5, <3>1 DEF WriteText
    <3>3. bundle' = bundle /\ raced'[p] = raced[p] /\ pc'[p] \in {"returned", "stopped"}
      BY <1>5 DEF WriteText, Goto, Touch
    <3> QED
      BY <2>4, <2>2, <3>2, <3>3
  <2> QED
    BY <2>3, <2>4
<1>6. ASSUME NEW p \in Procs, UseAnswer(p) PROVE Safe(q)'
  BY <1>6, <1>0 DEF UseAnswer
<1>7. ASSUME NEW p \in Procs, Exit(p) \/ Crash(p) PROVE Safe(q)'
  BY <1>7, <1>0 DEF Exit, Goto, Crash
<1>8. CASE UNCHANGED vars
  BY <1>8, <1>0 DEF vars
<1> QED
  BY <1>1, <1>2, <1>3, <1>4, <1>5, <1>6, <1>7, <1>8, NextCases

\* The inductive invariant holds in every reachable state.
THEOREM Invariance == Spec => []IInv
<1>1. Init => IInv
  BY InitInv
<1>2. IInv /\ [Next]_vars => IInv'
  <2>1. Trusted' = Trusted
    BY DEF Trusted, Accepts, Verify, FreshEnough, PinnedFloor, Bundle, Versions, Max2
  <2> QED
    BY <2>1, TypeStep, VettedStep, CarryStep, RaceStep DEF IInv
<1> QED
  BY <1>1, <1>2, PTL DEF Spec

------------------------------------------------------------------------------
\* Every variable keeps its type.
THEOREM TypeCorrect == Spec => []TypeOK
BY Invariance, PTL DEF IInv

\* fetch only caches and returns bundles that are signed and at least as new
\* as the floor it read and as the pins, under any interleaving and any crash.
THEOREM AnswersCurrent == Spec => []AnswersAreCurrent
<1>1. IInv => AnswersAreCurrent
  BY DEF IInv, FloorInv, CarryInv, AnswersAreCurrent, Trusted, Accepts
<1> QED
  BY <1>1, Invariance, PTL

\* A tampered or stale bundle ends its fetch.
THEOREM RefusalsFinal == Spec => []RefusalIsFinal
BY Invariance, PTL DEF IInv

\* The rollback check can only be defeated by a write between the read of the
\* floor and the write of the bundle.
THEOREM RollbackNeedsRace == Spec => []RollbackOnlyByRace
<1>1. IInv => RollbackOnlyByRace
  <2> SUFFICES ASSUME IInv, NEW p \in Procs, pc[p] \in {"store", "dump"},
                      ~raced[p], cache \in Bundle
               PROVE  bundle[p].version >= cache.version
    BY DEF RollbackOnlyByRace
  <2>1. CASE pc[p] = "dump"
    BY <2>1 DEF IInv, RaceInv
  <2>2. CASE pc[p] = "store"
    <3>1. bundle[p] \in Bundle /\ bundle[p].version >= floor[p] /\ floor[p] >= cache.version
      BY <2>2 DEF IInv, RaceInv, CarryInv, Trusted
    <3>2. bundle[p].version \in Nat /\ floor[p] \in Nat /\ cache.version \in Nat
      BY <3>1, PinFacts DEF IInv, TypeOK, Bundle
    <3> QED
      BY <3>1, <3>2
  <2> QED
    BY <2>1, <2>2
<1> QED
  BY <1>1, Invariance, PTL

\* The cache only ever takes vetted bundles.
THEOREM CachedVetted == Spec => OnlyVettedIsCached
<1>1. IInv /\ [Next]_vars =>
        [cache' # cache /\ cache' \in Bundle => Accepts(cache', PinnedFloor)]_vars
  <2> SUFFICES ASSUME IInv, Next, cache' # cache, cache' \in Bundle
               PROVE  Accepts(cache', PinnedFloor)
    OBVIOUS
  <2>1. PICK p \in Procs : OpenForWrite(p) \/ WriteText(p)
    <3>1. \A p \in Procs : ReadSource(p) => cache' = cache
      BY ReadFacts
    <3> QED
      BY <3>1, NextCases DEF Start, ReadFloor, UseAnswer, Exit, Crash
  <2>2. WriteText(p) /\ cache' = bundle[p]
    BY <2>1, ValueAssumption DEF OpenForWrite, WriteText
  <2>3. bundle[p] \in Trusted
    BY <2>2 DEF IInv, CarryInv, Answered, WriteText, Goto
  <2> QED
    BY <2>2, <2>3 DEF Trusted
<1> QED
  BY <1>1, Invariance, PTL DEF Spec, OnlyVettedIsCached

------------------------------------------------------------------------------
(* Refinement *)

LEMMA AnswerFacts == ASSUME IInv, NEW p \in Procs
                     PROVE  Answer[p] = NoBundle <=> ~Answered(p)
BY ValueAssumption DEF IInv, CarryInv, Answer, Trusted

LEMMA InitRefines == Init => Trust!TInit
<1> SUFFICES ASSUME Init PROVE Trust!TInit
  OBVIOUS
<1>1. Answer = [p \in Procs |-> NoBundle]
  BY DEF Init, Answer, Answered
<1>2. vetted \in SUBSET Trusted /\ Store \in vetted \cup {NoBundle}
  BY DEF Init, Trusted, Store
<1> QED
  BY <1>1, <1>2 DEF Trust!TInit

LEMMA StepRefines == IInv /\ IInv' /\ [Next]_vars => [Trust!TNext]_(Trust!tvars)
<1> SUFFICES ASSUME IInv, IInv', [Next]_vars
             PROVE  Trust!TNext \/ UNCHANGED <<vetted, Store, Answer>>
  BY DEF Trust!tvars
<1> USE DEF Answered, TypeOK, IInv
<1> DEFINE Quiet == UNCHANGED <<vetted, Store, Answer>>
<1>0. Trusted' = Trusted
  BY DEF Trusted, Accepts, Verify, FreshEnough, PinnedFloor, Bundle, Versions, Max2
<1>1. ASSUME NEW p \in Procs, Start(p) PROVE Quiet
  BY <1>1, <1>0 DEF Start, Goto, Answer, Store
<1>2. ASSUME NEW p \in Procs, ReadFloor(p) PROVE Quiet
  BY <1>2, <1>0 DEF ReadFloor, Goto, Answer, Store
<1>3. ASSUME NEW p \in Procs, ReadSource(p) PROVE Trust!TNext \/ Quiet
  <2>1. ReadEffect(p) /\ cache' = cache /\ pc[p] \in {"source", "cache"}
    BY <1>3, ReadFacts
  <2>2. Store' = Store
    BY <2>1, <1>0 DEF Store
  <2>3. CASE /\ UNCHANGED <<bundle, vetted>>
             /\ \/ pc' = [pc EXCEPT ![p] = "stopped"]
                \/ pc' = [pc EXCEPT ![p] = "cache"]
    BY <2>1, <2>2, <2>3 DEF Answer
  <2>4. CASE \E b \in Trusted : /\ pc' = [pc EXCEPT ![p] = "store"]
                                /\ bundle' = [bundle EXCEPT ![p] = b]
                                /\ vetted' = vetted \cup {b}
    <3>1. Answer' = Answer
      BY <2>1, <2>4 DEF Answer
    <3> QED
      BY <2>2, <2>4, <3>1 DEF Trust!TNext, Trust!Vet
  <2>5. CASE \E b \in Trusted : /\ pc' = [pc EXCEPT ![p] = "returned"]
                                /\ bundle' = [bundle EXCEPT ![p] = b]
                                /\ vetted' = vetted \cup {b}
    <3>1. PICK b \in Trusted : /\ pc' = [pc EXCEPT ![p] = "returned"]
                               /\ bundle' = [bundle EXCEPT ![p] = b]
                               /\ vetted' = vetted \cup {b}
      BY <2>5
    <3>2. Answer' = [Answer EXCEPT ![p] = b]
      BY <2>1, <3>1 DEF Answer
    <3>3. Answer[p] = NoBundle
      BY <2>1, AnswerFacts
    <3> QED
      BY <2>2, <3>1, <3>2, <3>3 DEF Trust!TNext, Trust!Vet, Trust!Answer
  <2> QED
    BY <2>1, <2>3, <2>4, <2>5 DEF ReadEffect
<1>4. ASSUME NEW p \in Procs, OpenForWrite(p) PROVE Trust!TNext
  <2>1. Answer' = Answer /\ vetted' = vetted
    BY <1>4 DEF OpenForWrite, Goto, Answer
  <2>2. Store' = NoBundle
    BY <1>4, <1>0, ValueAssumption DEF OpenForWrite, Store, Trusted
  <2> QED
    BY <2>1, <2>2 DEF Trust!TNext, Trust!Replace
<1>5. ASSUME NEW p \in Procs, WriteText(p) PROVE Trust!TNext
  <2>1. bundle[p] \in vetted /\ bundle[p] \in Trusted /\ vetted' = vetted
    BY <1>5 DEF WriteText, Goto, CarryInv
  <2>2. Store' \in vetted \cup {NoBundle}
    BY <1>5, <1>0, <2>1, ValueAssumption DEF WriteText, Store, Trusted
  <2>3. CASE Goto(p, "storing", "returned")
    <3>1. Answer' = [Answer EXCEPT ![p] = bundle[p]]
      BY <1>5, <2>3 DEF WriteText, Goto, Answer
    <3>2. Answer[p] = NoBundle
      BY <2>3, AnswerFacts DEF Goto
    <3> QED
      BY <2>1, <2>2, <3>1, <3>2 DEF Trust!TNext, Trust!Replace, Trust!Answer
  <2>4. CASE Goto(p, "dumping", "stopped")
    <3>1. Answer' = [Answer EXCEPT ![p] = NoBundle]
      BY <1>5, <2>4 DEF WriteText, Goto, Answer
    <3> QED
      BY <2>1, <2>2, <3>1 DEF Trust!TNext, Trust!Replace, Trust!Forget
  <2> QED
    BY <1>5, <2>3, <2>4 DEF WriteText
<1>6. ASSUME NEW p \in Procs, UseAnswer(p) PROVE Trust!TNext \/ Quiet
  <2>1. Store' = Store /\ vetted' = vetted
    BY <1>6, <1>0 DEF UseAnswer, Store
  <2>2. CASE pc' = [pc EXCEPT ![p] = "stopped"]
    <3>1. Answer' = [Answer EXCEPT ![p] = NoBundle]
      BY <1>6, <2>2 DEF UseAnswer, Answer
    <3> QED
      BY <2>1, <3>1 DEF Trust!TNext, Trust!Forget
  <2>3. CASE pc' = [pc EXCEPT ![p] = "dump"]
    BY <1>6, <2>1, <2>3 DEF UseAnswer, Answer
  <2> QED
    BY <1>6, <2>2, <2>3 DEF UseAnswer
<1>7. ASSUME NEW p \in Procs, Exit(p) \/ Crash(p) PROVE Trust!TNext
  <2>1. Store' = Store /\ vetted' = vetted
    BY <1>7, <1>0 DEF Exit, Crash, Store
  <2>2. Answer' = [Answer EXCEPT ![p] = NoBundle]
    BY <1>7 DEF Exit, Goto, Crash, Answer
  <2> QED
    BY <2>1, <2>2 DEF Trust!TNext, Trust!Forget
<1>8. CASE UNCHANGED vars
  BY <1>8, <1>0 DEF vars, Answer, Store
<1> QED
  BY <1>1, <1>2, <1>3, <1>4, <1>5, <1>6, <1>7, <1>8, NextCases

\* Whatever the interleaving, the crashes and the state the cache file was
\* found in, the rule channel only stores and answers vetted bundles and never
\* changes an answer.
THEOREM Refinement == Spec => ImplementsTrust
<1>1. IInv /\ IInv' /\ [Next]_vars => [Trust!TNext]_(Trust!tvars)
  BY StepRefines
<1> QED
  BY <1>1, InitRefines, Invariance, PTL DEF Spec, ImplementsTrust, Trust!TSpec

==============================================================================
